--------------------------- MODULE MmapRegionProofs ---------------------------
(***************************************************************************)
(* Proofs about MmapRegion and MmapRegionWindows for an address space of   *)
(* any size, and any number of regions, descriptors and files: regions and *)
(* mappings match, descriptors stay open as long as they are used, and     *)
(* mappings of files lie in the files.                                     *)
(***************************************************************************)
EXTENDS MmapRegionWindows, FiniteSetTheorems, TLAPS

Shapes ==
  [addr : Nat, size : Nat, fd : Fds \cup {Anon}, start : Nat, owned : BOOLEAN,
   file : Files \cup {NoFile}, extent : Nat]

TypeInv ==
  /\ space \in [Pages -> Ids \cup {Free, External, Leaked}]
  /\ flen \in [Files -> Nat]
  /\ opened \in [Fds -> Files \cup {NoFile}]
  /\ strong \in [Fds -> Nat] /\ offsets \in [Fds -> Nat]
  /\ live \subseteq Ids /\ region \in [Ids -> Shapes]
  /\ os \in {"unix", "windows"}

\* What the unix constructors check: the mapping is as long as the region, and
\* one of a file is not empty and ends in the range of offsets.
UnixInv ==
  os = "unix" => \A id \in live :
    /\ region[id].extent = region[id].size
    /\ region[id].fd # Anon
         => region[id].size > 0 /\ region[id].start + region[id].size < AddrSpace

\* The regions that hold an Arc of an open file.
UsersOf(fd) == {id \in live : region[id].fd = fd}

\* Every Arc<File> has an owner, a file is open while there is one, and the
\* regions that hold it have that file mapped.
CountInv ==
  \A fd \in Fds :
    /\ strong[fd] = offsets[fd] + Cardinality(UsersOf(fd))
    /\ opened[fd] # NoFile <=> strong[fd] # 0

FileInv == \A id \in live : region[id].fd # Anon => opened[region[id].fd] = region[id].file

FdInv == CountInv /\ FileInv

\* The inductive invariant.
IInv == TypeInv /\ MappingsMatchObjects /\ UnixInv /\ FdInv

----------------------------------------------------------------------------
(* Pages                                                                   *)

\* The names of pages without an object are none of an object.
LEMMA NoObjectNames ==
  Free \notin Ids /\ External \notin Ids /\ Leaked \notin Ids /\ Free # External /\ Leaked # Free
  /\ Leaked # External /\ Anon \notin Fds /\ NoFile \notin Files
  BY NamesAssumption, WindowsAssumption

\* A region mapped into free pages.
LEMMA NewMapping ==
  ASSUME TypeInv, MappingsMatchObjects, NEW id \in Ids, id \notin live, NEW r \in Shapes,
         r.owned, r.size <= r.extent, r.addr \in FreeRuns(r.extent),
         space' = Mapped(id, r.addr, r.extent), constructed(id, r)
  PROVE  MappingsMatchObjects'
<1>0. /\ live' = live \cup {id} /\ region' \in [Ids -> Shapes] /\ region'[id] = r
      /\ \A i \in Ids \ {id} : region'[i] = region[i]
  BY DEF constructed, TypeInv
<1>1. \A p \in PagesOf(r.addr, r.extent) : p \in Pages /\ space[p] = Free
  BY DEF FreeRuns, PagesOf
<1>2. \A p \in Pages : space'[p] = IF p \in PagesOf(r.addr, r.extent) THEN id ELSE space[p]
  BY DEF Mapped
<1>3. ASSUME NEW i \in live'
      PROVE  /\ region'[i].size <= region'[i].extent
             /\ \A p \in PagesOf(region'[i].addr, region'[i].extent) :
                  space'[p] = IF region'[i].owned THEN i ELSE External
  <2>1. CASE i = id
    BY <1>0, <1>1, <1>2, <2>1
  <2>2. CASE i # id
    <3>1. i \in live /\ i \in Ids /\ region'[i] = region[i]
      BY <1>0, <2>2 DEF TypeInv
    <3>2. \A p \in PagesOf(region[i].addr, region[i].extent) :
            p \in Pages /\ space[p] = IF region[i].owned THEN i ELSE External
      BY <3>1 DEF MappingsMatchObjects, PagesOf
    <3>3. \A p \in PagesOf(region[i].addr, region[i].extent) : space[p] # Free
      BY <3>1, <3>2, NoObjectNames
    <3>4. region[i].size <= region[i].extent
      BY <3>1 DEF MappingsMatchObjects
    <3> QED
      BY <1>1, <1>2, <3>1, <3>2, <3>3, <3>4
  <2> QED
    BY <2>1, <2>2
<1>4. ASSUME NEW p \in Pages, space'[p] \in Ids
      PROVE  space'[p] \in live' /\ p \in PagesOf(region'[space'[p]].addr, region'[space'[p]].extent)
  <2>1. CASE p \in PagesOf(r.addr, r.extent)
    BY <1>0, <1>2, <2>1
  <2>2. CASE p \notin PagesOf(r.addr, r.extent)
    <3>1. space'[p] = space[p] /\ space[p] \in live
          /\ p \in PagesOf(region[space[p]].addr, region[space[p]].extent)
      BY <1>2, <1>4, <2>2 DEF MappingsMatchObjects
    <3>2. region'[space[p]] = region[space[p]]
      BY <1>0, <1>4, <3>1
    <3> QED
      BY <1>0, <3>1, <3>2
  <2> QED
    BY <2>1, <2>2
<1>5. ASSUME NEW p \in ExternalPages PROVE space'[p] = External
  <2>1. p \in Pages /\ space[p] = External
    BY PagesAssumption DEF MappingsMatchObjects, Pages
  <2> QED
    BY <1>1, <1>2, <2>1, NoObjectNames
<1> QED
  BY <1>3, <1>4, <1>5 DEF MappingsMatchObjects, PagesOf, Pages

\* A region made by build_raw of external pages.
LEMMA RawMapping ==
  ASSUME TypeInv, MappingsMatchObjects, NEW id \in Ids, id \notin live, NEW r \in Shapes,
         ~ r.owned, r.size <= r.extent,
         \A p \in PagesOf(r.addr, r.extent) : space[p] = External,
         UNCHANGED space, constructed(id, r)
  PROVE  MappingsMatchObjects'
<1>0. /\ live' = live \cup {id} /\ region'[id] = r
      /\ \A i \in Ids \ {id} : region'[i] = region[i]
  BY DEF constructed, TypeInv
<1>1. ASSUME NEW i \in live'
      PROVE  /\ region'[i].size <= region'[i].extent
             /\ \A p \in PagesOf(region'[i].addr, region'[i].extent) :
                  space'[p] = IF region'[i].owned THEN i ELSE External
  <2>1. CASE i = id
    BY <1>0, <2>1
  <2>2. CASE i # id
    <3>1. i \in live /\ region'[i] = region[i]
      BY <1>0, <2>2 DEF TypeInv
    <3> QED
      BY <3>1 DEF MappingsMatchObjects
  <2> QED
    BY <2>1, <2>2
<1>2. ASSUME NEW p \in Pages, space'[p] \in Ids
      PROVE  space'[p] \in live' /\ p \in PagesOf(region'[space'[p]].addr, region'[space'[p]].extent)
  <2>1. space[p] \in live /\ p \in PagesOf(region[space[p]].addr, region[space[p]].extent)
    BY <1>2 DEF MappingsMatchObjects
  <2>2. region'[space[p]] = region[space[p]]
    BY <1>0, <1>2, <2>1
  <2> QED
    BY <1>0, <2>1, <2>2
<1>3. \A p \in ExternalPages : space'[p] = External
  BY DEF MappingsMatchObjects
<1> QED
  BY <1>1, <1>2, <1>3 DEF MappingsMatchObjects, PagesOf, Pages

\* The pages of an object that owns its mapping, and only they, carry its name.
LEMMA OwnPages ==
  ASSUME TypeInv, MappingsMatchObjects, NEW id \in live
  PROVE  \A p \in Pages : space[p] = id
           <=> region[id].owned /\ p \in PagesOf(region[id].addr, region[id].extent)
<1> SUFFICES ASSUME NEW p \in Pages
             PROVE  space[p] = id
                      <=> region[id].owned /\ p \in PagesOf(region[id].addr, region[id].extent)
  OBVIOUS
<1>0. id \in Ids
  BY DEF TypeInv
<1>1. ASSUME space[p] = id PROVE p \in PagesOf(region[id].addr, region[id].extent)
  BY <1>0, <1>1 DEF MappingsMatchObjects
<1>2. ASSUME p \in PagesOf(region[id].addr, region[id].extent)
      PROVE  space[p] = IF region[id].owned THEN id ELSE External
  BY <1>2 DEF MappingsMatchObjects
<1> QED
  BY <1>0, <1>1, <1>2, NoObjectNames

\* The pages an object owned go to somebody who is no object; nothing else
\* changes.
LEMMA DroppedMapping ==
  ASSUME TypeInv, MappingsMatchObjects, NEW id \in live, NEW to \in {Free, Leaked},
         live' = live \ {id}, region' = [region EXCEPT ![id] = NoRegion],
         space' = [p \in Pages |-> IF space[p] = id THEN to ELSE space[p]]
  PROVE  MappingsMatchObjects'
<1>0. id \in Ids /\ \A i \in Ids \ {id} : region'[i] = region[i]
  BY DEF TypeInv
<1>1. \A p \in Pages : space'[p] = IF space[p] = id THEN to ELSE space[p]
  OBVIOUS
<1>2. ASSUME NEW i \in live'
      PROVE  /\ region'[i].size <= region'[i].extent
             /\ \A p \in PagesOf(region'[i].addr, region'[i].extent) :
                  space'[p] = IF region'[i].owned THEN i ELSE External
  <2>1. i \in live /\ i # id /\ i \in Ids /\ region'[i] = region[i]
    BY <1>0 DEF TypeInv
  <2>2. \A p \in PagesOf(region[i].addr, region[i].extent) :
          p \in Pages /\ space[p] = IF region[i].owned THEN i ELSE External
    BY <2>1 DEF MappingsMatchObjects, PagesOf
  <2>3. \A p \in PagesOf(region[i].addr, region[i].extent) : space[p] # id
    BY <1>0, <2>1, <2>2, NoObjectNames
  <2>4. region[i].size <= region[i].extent
    BY <2>1 DEF MappingsMatchObjects
  <2> QED
    BY <1>1, <2>1, <2>2, <2>3, <2>4
<1>3. ASSUME NEW p \in Pages, space'[p] \in Ids
      PROVE  space'[p] \in live' /\ p \in PagesOf(region'[space'[p]].addr, region'[space'[p]].extent)
  <2>1. space[p] # id /\ space'[p] = space[p]
    BY <1>1, <1>3, NoObjectNames
  <2>2. space[p] \in live /\ p \in PagesOf(region[space[p]].addr, region[space[p]].extent)
    BY <1>3, <2>1 DEF MappingsMatchObjects
  <2>3. region'[space[p]] = region[space[p]]
    BY <1>0, <1>3, <2>1
  <2> QED
    BY <2>1, <2>2, <2>3
<1>4. ASSUME NEW p \in ExternalPages PROVE space'[p] = External
  <2>1. p \in Pages /\ space[p] = External
    BY PagesAssumption DEF MappingsMatchObjects, Pages
  <2> QED
    BY <1>0, <1>1, <2>1, NoObjectNames
<1> QED
  BY <1>2, <1>3, <1>4 DEF MappingsMatchObjects, PagesOf, Pages

----------------------------------------------------------------------------
(* Descriptors                                                             *)

\* The regions that hold an Arc of an open file are finitely many.
LEMMA UsersFinite ==
  ASSUME TypeInv, NEW fd
  PROVE  /\ IsFiniteSet(UsersOf(fd)) /\ Cardinality(UsersOf(fd)) \in Nat
         /\ Cardinality(UsersOf(fd)) = 0 <=> UsersOf(fd) = {}
<1>1. UsersOf(fd) \in SUBSET Ids
  BY DEF UsersOf, TypeInv
<1>2. IsFiniteSet(UsersOf(fd))
  BY <1>1, NamesAssumption, FS_Subset
<1> QED
  BY <1>2, FS_CardinalityType, FS_EmptySet

\* An Arc<File> that somebody gives up is dropped; what is left of the counts
\* is right if the others are.
LEMMA ReleaseInv ==
  ASSUME TypeInv, FdInv, NEW fd \in Fds, strong[fd] > 0, release(fd),
         \A f \in Fds : offsets'[f] + Cardinality(UsersOf(f)')
           = offsets[f] + Cardinality(UsersOf(f)) - (IF f = fd THEN 1 ELSE 0),
         \A f \in Fds : offsets'[f] \in Nat,
         live' \subseteq live, \A i \in live' : region'[i] = region[i]
  PROVE  /\ opened' \in [Fds -> Files \cup {NoFile}] /\ strong' \in [Fds -> Nat]
         /\ FdInv'
<1>0. fd # Anon
  BY NoObjectNames
<1>1. /\ strong' = [strong EXCEPT ![fd] = @ - 1]
      /\ opened' = IF strong[fd] = 1 THEN [opened EXCEPT ![fd] = NoFile] ELSE opened
  BY <1>0 DEF release
<1>2. opened' \in [Fds -> Files \cup {NoFile}] /\ strong' \in [Fds -> Nat]
  BY <1>1 DEF TypeInv
<1>3. \A f \in Fds : strong'[f] = strong[f] - (IF f = fd THEN 1 ELSE 0)
  BY <1>1 DEF TypeInv
<1>4. \A f \in Fds : opened'[f] = IF f = fd /\ strong[f] = 1 THEN NoFile ELSE opened[f]
  BY <1>1 DEF TypeInv
<1>5. ASSUME NEW f \in Fds
      PROVE  /\ strong'[f] = offsets'[f] + Cardinality(UsersOf(f)')
             /\ opened'[f] # NoFile <=> strong'[f] # 0
  <2>1. /\ strong[f] = offsets[f] + Cardinality(UsersOf(f))
        /\ opened[f] # NoFile <=> strong[f] # 0
        /\ strong[f] \in Nat /\ offsets[f] \in Nat
    BY DEF FdInv, CountInv, TypeInv
  <2>2. Cardinality(UsersOf(f)) \in Nat
    BY UsersFinite
  <2>3. strong'[f] = offsets'[f] + Cardinality(UsersOf(f)')
    BY <1>3, <2>1, <2>2
  <2>4. opened'[f] # NoFile <=> strong'[f] # 0
    BY <1>3, <1>4, <2>1
  <2> QED
    BY <2>3, <2>4
<1>6. ASSUME NEW i \in live', region'[i].fd # Anon
      PROVE  opened'[region'[i].fd] = region'[i].file
  <2>1. i \in live /\ region'[i] = region[i] /\ region[i].fd \in Fds
    BY <1>6 DEF TypeInv, Shapes
  <2>2. opened[region[i].fd] = region[i].file
    BY <1>6, <2>1 DEF FdInv, FileInv
  <2>3. strong'[region[i].fd] # 0
    <3>1. i \in UsersOf(region[i].fd)'
      BY <2>1 DEF UsersOf
    <3>2. UsersOf(region[i].fd)' \in SUBSET Ids
      BY DEF UsersOf, TypeInv
    <3>3. /\ Cardinality(UsersOf(region[i].fd)') \in Nat
          /\ Cardinality(UsersOf(region[i].fd)') # 0
      BY <3>1, <3>2, NamesAssumption, FS_Subset, FS_CardinalityType, FS_EmptySet
    <3>4. offsets'[region[i].fd] \in Nat
      BY <2>1
    <3> QED
      BY <1>5, <2>1, <3>3, <3>4
  <2> QED
    BY <1>3, <1>4, <2>1, <2>2, <2>3 DEF TypeInv
<1> QED
  BY <1>2, <1>5, <1>6 DEF FdInv, CountInv, FileInv

FdTypes ==
  /\ opened \in [Fds -> Files \cup {NoFile}]
  /\ strong \in [Fds -> Nat] /\ offsets \in [Fds -> Nat]

\* The caller gives a FileOffset away and it is dropped: by drop, or with the
\* error of a constructor.
LEMMA OffsetGone ==
  ASSUME TypeInv, FdInv, NEW fd \in Fds \cup {Anon}, given(fd), release(fd),
         UNCHANGED <<live, region>>
  PROVE  FdTypes' /\ FdInv'
<1>0. \A f : UsersOf(f)' = UsersOf(f)
  BY DEF UsersOf
<1>1. CASE fd = Anon
  <2>1. UNCHANGED <<opened, strong, offsets>>
    BY <1>1 DEF given, release
  <2> QED
    BY <1>0, <2>1 DEF FdTypes, FdInv, CountInv, FileInv, TypeInv
<1>2. CASE fd # Anon
  <2>1. fd \in Fds /\ offsets[fd] > 0 /\ offsets' = [offsets EXCEPT ![fd] = @ - 1]
    BY <1>2 DEF given
  <2>2. offsets' \in [Fds -> Nat]
    BY <2>1 DEF TypeInv
  <2>3. \A f \in Fds : offsets'[f] = offsets[f] - (IF f = fd THEN 1 ELSE 0)
    BY <2>1 DEF TypeInv
  <2>4. \A f \in Fds : Cardinality(UsersOf(f)) \in Nat /\ offsets[f] \in Nat
    BY UsersFinite DEF TypeInv
  <2>5. \A f \in Fds : offsets'[f] + Cardinality(UsersOf(f)')
                         = offsets[f] + Cardinality(UsersOf(f)) - (IF f = fd THEN 1 ELSE 0)
    BY <1>0, <2>3, <2>4
  <2>6. strong[fd] > 0
    BY <2>1, <2>4 DEF FdInv, CountInv
  <2> QED
    BY <2>1, <2>2, <2>5, <2>6, ReleaseInv DEF FdTypes
<1> QED
  BY <1>1, <1>2

\* A FileOffset moves into a new region.
LEMMA OffsetKept ==
  ASSUME TypeInv, FdInv, NEW id \in Ids, id \notin live, NEW r \in Shapes,
         r.file = FileOf(r.fd), given(r.fd), constructed(id, r), UNCHANGED <<opened, strong>>
  PROVE  FdTypes' /\ FdInv'
<1>0. /\ live' = live \cup {id} /\ region'[id] = r
      /\ \A i \in live : region'[i] = region[i]
  BY DEF constructed, TypeInv
<1>1. \A f : UsersOf(f)' = IF r.fd = f THEN UsersOf(f) \cup {id} ELSE UsersOf(f)
  BY <1>0 DEF UsersOf
<1>2. offsets' \in [Fds -> Nat]
      /\ \A f \in Fds : offsets'[f] = offsets[f] - (IF f = r.fd THEN 1 ELSE 0)
  BY NoObjectNames DEF given, TypeInv, Shapes
<1>3. ASSUME NEW f \in Fds
      PROVE  /\ strong'[f] = offsets'[f] + Cardinality(UsersOf(f)')
             /\ opened'[f] # NoFile <=> strong'[f] # 0
  <2>1. id \notin UsersOf(f)
    BY DEF UsersOf
  <2>2. /\ Cardinality(UsersOf(f)) \in Nat
        /\ Cardinality(UsersOf(f) \cup {id}) = Cardinality(UsersOf(f)) + 1
    BY <2>1, UsersFinite, FS_AddElement
  <2>3. /\ strong[f] = offsets[f] + Cardinality(UsersOf(f)) /\ offsets[f] \in Nat
        /\ opened[f] # NoFile <=> strong[f] # 0
    BY DEF FdInv, CountInv, TypeInv
  <2>4. CASE f = r.fd
    <3>1. UsersOf(f)' = UsersOf(f) \cup {id} /\ offsets'[f] = offsets[f] - 1
      BY <1>1, <1>2, <2>4
    <3> QED
      BY <2>2, <2>3, <3>1
  <2>5. CASE f # r.fd
    <3>1. UsersOf(f)' = UsersOf(f) /\ offsets'[f] = offsets[f]
      BY <1>1, <1>2, <2>3, <2>5
    <3> QED
      BY <2>3, <3>1
  <2> QED
    BY <2>4, <2>5
<1>4. ASSUME NEW i \in live', region'[i].fd # Anon PROVE opened'[region'[i].fd] = region'[i].file
  <2>1. CASE i = id
    BY <1>0, <1>4, <2>1 DEF FileOf
  <2>2. CASE i # id
    BY <1>0, <1>4, <2>2 DEF FdInv, FileInv
  <2> QED
    BY <2>1, <2>2
<1> QED
  BY <1>2, <1>3, <1>4 DEF FdTypes, FdInv, CountInv, FileInv, TypeInv

\* A region goes, and its FileOffset with it.
LEMMA RegionGone ==
  ASSUME TypeInv, FdInv, NEW id \in live, live' = live \ {id},
         region' = [region EXCEPT ![id] = NoRegion], release(region[id].fd), UNCHANGED offsets
  PROVE  FdTypes' /\ FdInv'
<1> DEFINE fd == region[id].fd
<1>0. id \in Ids /\ fd \in Fds \cup {Anon} /\ \A i \in live' : region'[i] = region[i]
  BY DEF TypeInv, Shapes
<1>1. \A f : UsersOf(f)' = IF f = fd THEN UsersOf(f) \ {id} ELSE UsersOf(f)
  BY <1>0 DEF UsersOf
<1>2. id \in UsersOf(fd)
  BY DEF UsersOf
<1> HIDE DEF fd
<1>3. \A f \in Fds : Cardinality(UsersOf(f)) \in Nat /\ IsFiniteSet(UsersOf(f))
                     /\ offsets[f] \in Nat
  BY UsersFinite DEF TypeInv
<1>4. CASE fd = Anon
  <2>1. UNCHANGED <<opened, strong>>
    BY <1>4 DEF release, fd
  <2>2. \A f \in Fds : UsersOf(f)' = UsersOf(f)
    BY <1>1, <1>4, NoObjectNames
  <2>3. FdInv'
    BY <1>0, <2>1, <2>2 DEF FdInv, CountInv, FileInv
  <2> QED
    BY <2>1, <2>3 DEF FdTypes, TypeInv
<1>5. CASE fd # Anon
  <2>1. Cardinality(UsersOf(fd) \ {id}) = Cardinality(UsersOf(fd)) - 1
    BY <1>0, <1>2, <1>3, <1>5, FS_RemoveElement
  <2>2. ASSUME NEW f \in Fds
        PROVE  offsets'[f] + Cardinality(UsersOf(f)')
                 = offsets[f] + Cardinality(UsersOf(f)) - (IF f = fd THEN 1 ELSE 0)
    <3>1. CASE f = fd
      BY <1>1, <1>3, <2>1, <3>1
    <3>2. CASE f # fd
      BY <1>1, <1>3, <3>2
    <3> QED
      BY <3>1, <3>2
  <2>3. strong[fd] > 0
    <3>1. Cardinality(UsersOf(fd)) # 0
      BY <1>2, UsersFinite
    <3> QED
      BY <1>0, <1>3, <1>5, <3>1 DEF FdInv, CountInv, TypeInv
  <2>4. fd \in Fds /\ release(fd) /\ live' \subseteq live
    BY <1>0, <1>5 DEF fd
  <2>5. /\ opened' \in [Fds -> Files \cup {NoFile}] /\ strong' \in [Fds -> Nat]
        /\ FdInv'
    BY <1>0, <1>3, <2>2, <2>3, <2>4, ReleaseInv
  <2> QED
    BY <2>5 DEF FdTypes, TypeInv
<1> QED
  BY <1>4, <1>5

\* A file is opened, and a FileOffset is cloned.
LEMMA OffsetMade ==
  ASSUME TypeInv, FdInv, NEW fd \in Fds,
         (\E file \in Files : NewOffset(fd, file)) \/ CloneOffset(fd)
  PROVE  FdTypes' /\ FdInv'
<1>0. UNCHANGED <<live, region>> /\ \A f : UsersOf(f)' = UsersOf(f)
  BY DEF NewOffset, CloneOffset, UsersOf
<1>1. \A f \in Fds : /\ Cardinality(UsersOf(f)) \in Nat /\ offsets[f] \in Nat
                     /\ Cardinality(UsersOf(f)) = 0 <=> UsersOf(f) = {}
                     /\ strong[f] = offsets[f] + Cardinality(UsersOf(f))
                     /\ opened[f] # NoFile <=> strong[f] # 0
  BY UsersFinite DEF TypeInv, FdInv, CountInv
<1>2. CASE CloneOffset(fd)
  <2>1. FdTypes' /\ UNCHANGED opened
    BY <1>2 DEF CloneOffset, FdTypes, TypeInv
  <2>2. /\ offsets[fd] > 0
        /\ \A f \in Fds : /\ offsets'[f] = offsets[f] + (IF f = fd THEN 1 ELSE 0)
                          /\ strong'[f] = strong[f] + (IF f = fd THEN 1 ELSE 0)
    BY <1>2, MaxOffsetsAssumption DEF CloneOffset, TypeInv
  <2>3. CountInv'
    <3> SUFFICES ASSUME NEW f \in Fds
                 PROVE  /\ strong'[f] = offsets'[f] + Cardinality(UsersOf(f)')
                        /\ opened'[f] # NoFile <=> strong'[f] # 0
      BY DEF CountInv
    <3>1. UsersOf(f)' = UsersOf(f) /\ opened'[f] = opened[f]
      BY <1>0, <2>1
    <3>2. /\ strong[f] = offsets[f] + Cardinality(UsersOf(f))
          /\ offsets[f] \in Nat /\ Cardinality(UsersOf(f)) \in Nat
          /\ opened[f] # NoFile <=> strong[f] # 0
      BY <1>1
    <3>3. CASE f = fd
      <4>1. offsets'[f] = offsets[f] + 1 /\ strong'[f] = strong[f] + 1 /\ offsets[f] > 0
        BY <2>2, <3>3
      <4> QED
        BY <3>1, <3>2, <4>1
    <3>4. CASE f # fd
      <4>1. offsets'[f] = offsets[f] /\ strong'[f] = strong[f]
        BY <2>2, <3>2, <3>4
      <4> QED
        BY <3>1, <3>2, <4>1
    <3> QED
      BY <3>3, <3>4
  <2>4. FileInv'
    BY <1>0, <2>1 DEF FdInv, FileInv
  <2> QED
    BY <2>1, <2>3, <2>4 DEF FdInv
<1>3. ASSUME NEW file \in Files, NewOffset(fd, file) PROVE FdTypes' /\ FdInv'
  <2>1. FdTypes'
    BY <1>3 DEF NewOffset, FdTypes, TypeInv
  <2>2. strong[fd] = 0 /\ UsersOf(fd) = {} /\ Cardinality(UsersOf(fd)) = 0
    BY <1>1, <1>3 DEF NewOffset
  <2>3. \A f \in Fds : IF f = fd THEN opened'[f] = file /\ strong'[f] = 1 /\ offsets'[f] = 1
                       ELSE opened'[f] = opened[f] /\ strong'[f] = strong[f]
                            /\ offsets'[f] = offsets[f]
    BY <1>3 DEF NewOffset, TypeInv
  <2>4. CountInv'
    <3> SUFFICES ASSUME NEW f \in Fds
                 PROVE  /\ strong'[f] = offsets'[f] + Cardinality(UsersOf(f)')
                        /\ opened'[f] # NoFile <=> strong'[f] # 0
      BY DEF CountInv
    <3>1. UsersOf(f)' = UsersOf(f)
      BY <1>0
    <3>2. CASE f = fd
      BY <2>2, <2>3, <3>1, <3>2, NoObjectNames
    <3>3. CASE f # fd
      BY <1>1, <2>3, <3>1, <3>3
    <3> QED
      BY <3>2, <3>3
  <2>5. FileInv'
    <3> SUFFICES ASSUME NEW i \in live, region[i].fd # Anon
                 PROVE  opened'[region[i].fd] = region[i].file
      BY <1>0 DEF FileInv
    <3>1. region[i].fd \in Fds /\ region[i].fd # fd
      BY <2>2 DEF TypeInv, Shapes, UsersOf
    <3> QED
      BY <2>3, <3>1 DEF FdInv, FileInv
  <2> QED
    BY <2>1, <2>4, <2>5 DEF FdInv
<1> QED
  BY <1>2, <1>3

----------------------------------------------------------------------------
(* Steps                                                                   *)

\* A constructor that fails drops the FileOffset it was given.
LEMMA RefusedInv ==
  ASSUME IInv, NEW fd \in Fds \cup {Anon}, NEW why, given(fd), release(fd), refused(why),
         flen' \in [Files -> Nat], UNCHANGED os
  PROVE  IInv'
<1>1. UNCHANGED <<space, live, region>>
  BY DEF refused
<1>2. FdTypes' /\ FdInv'
  BY <1>1, OffsetGone DEF IInv
<1>3. TypeInv' /\ MappingsMatchObjects' /\ UnixInv'
  BY <1>1, <1>2 DEF IInv, TypeInv, FdTypes, MappingsMatchObjects, UnixInv, PagesOf, Pages
<1> QED
  BY <1>2, <1>3 DEF IInv

\* A constructor that succeeds keeps it in the region.
LEMMA ConstructedInv ==
  ASSUME IInv, NEW id \in Ids, id \notin live, NEW r \in Shapes, constructed(id, r),
         \/ r.owned /\ r.addr \in FreeRuns(r.extent) /\ space' = Mapped(id, r.addr, r.extent)
         \/ ~ r.owned /\ UNCHANGED space
            /\ \A p \in PagesOf(r.addr, r.extent) : space[p] = External,
         r.size <= r.extent, r.file = FileOf(r.fd), given(r.fd),
         os = "unix" => /\ r.extent = r.size
                        /\ r.fd # Anon => r.size > 0 /\ r.start + r.size < AddrSpace,
         flen' \in [Files -> Nat], UNCHANGED <<opened, strong, os>>
  PROVE  IInv'
<1>1. FdTypes' /\ FdInv'
  BY OffsetKept DEF IInv
<1>2. MappingsMatchObjects'
  BY NewMapping, RawMapping DEF IInv
<1>3. /\ live' = live \cup {id} /\ region' \in [Ids -> Shapes] /\ region'[id] = r
      /\ \A i \in live : region'[i] = region[i]
  BY DEF constructed, IInv, TypeInv
<1>4. space' \in [Pages -> Ids \cup {Free, External, Leaked}]
  BY DEF Mapped, IInv, TypeInv
<1>5. TypeInv'
  BY <1>1, <1>3, <1>4 DEF FdTypes, IInv, TypeInv, Pages, Shapes
<1>6. UnixInv'
  BY <1>3 DEF IInv, UnixInv
<1> QED
  BY <1>1, <1>2, <1>5, <1>6 DEF IInv

\* The drop of a region gives its pages and its FileOffset up.
LEMMA DroppedInv ==
  ASSUME IInv, NEW id \in live, NEW to \in {Free, Leaked},
         live' = live \ {id}, region' = [region EXCEPT ![id] = NoRegion],
         space' = [p \in Pages |-> IF space[p] = id THEN to ELSE space[p]],
         release(region[id].fd), UNCHANGED <<offsets, flen, os>>
  PROVE  IInv'
<1>1. FdTypes' /\ FdInv'
  BY RegionGone DEF IInv
<1>2. MappingsMatchObjects'
  BY DroppedMapping DEF IInv
<1>3. NoRegion \in Shapes
  BY DEF NoRegion, Region, Shapes
<1>4. region' \in [Ids -> Shapes] /\ \A i \in live' : region'[i] = region[i]
  BY <1>3 DEF IInv, TypeInv
<1>5. space' \in [Pages -> Ids \cup {Free, External, Leaked}]
  BY DEF IInv, TypeInv
<1>6. TypeInv'
  BY <1>1, <1>4, <1>5 DEF FdTypes, IInv, TypeInv, Pages, Shapes
<1>7. UnixInv'
  BY <1>4 DEF IInv, UnixInv
<1> QED
  BY <1>1, <1>2, <1>6, <1>7 DEF IInv

\* Arguments are natural numbers.
LEMMA ArgsNat == Offsets \subseteq Nat /\ Sizes \subseteq Nat /\ FileLens \subseteq Nat
  BY OffsetsAssumption, AddrSpaceAssumption DEF Raw

\* What check_file_offset lets through.
LEMMA Checked ==
  ASSUME NEW fd, NEW start \in Nat, NEW size \in Nat, check_file_offset(fd, start, size) = "Ok"
  PROVE  /\ start + size < AddrSpace
         /\ FileOf(fd) \notin Unstatable => ~ (flen[FileOf(fd)] < start + size)
<1>1. start + size < AddrSpace
  BY DEF check_file_offset, checked_add, None
<1>2. checked_add(start, size) # None
  BY DEF check_file_offset
<1>3. ~ (FileOf(fd) \notin Unstatable /\ flen[FileOf(fd)] < start + size)
  BY <1>2 DEF check_file_offset
<1> QED
  BY <1>1, <1>3

\* The addresses of free runs.
LEMMA RunsNat == \A size : FreeRuns(size) \subseteq Nat
  BY PagesAssumption DEF FreeRuns, Pages

\* Build on unix either refuses or constructs.
LEMMA BuildIs ==
  ASSUME TypeInv, NEW id, NEW fd \in Fds \cup {Anon}, NEW start \in Nat, NEW size \in Nat, NEW fixed,
         Build(id, fd, start, size, fixed)
  PROVE  /\ id \notin live /\ given(fd) /\ UNCHANGED flen
         /\ \/ (\E why : refused(why)) /\ release(fd)
            \/ \E addr \in FreeRuns(size) :
                 /\ space' = Mapped(id, addr, size) /\ size > 0
                 /\ constructed(id, Region(addr, size, fd, start, TRUE, FileOf(fd), size))
                 /\ UNCHANGED <<opened, strong>>
                 /\ fd # Anon => check_file_offset(fd, start, size) = "Ok"
<1>1. id \notin live /\ given(fd) /\ UNCHANGED flen
  BY DEF Build
<1>2. \/ (\E why : refused(why)) /\ release(fd)
      \/ /\ fd # Anon => check_file_offset(fd, start, size) = "Ok"
         /\ \E addr \in mmap(size, start) :
              /\ space' = Mapped(id, addr, size)
              /\ constructed(id, Region(addr, size, fd, start, TRUE, FileOf(fd), size))
              /\ UNCHANGED <<opened, strong>>
  BY Zenon DEF Build
<1>3. \A addr \in mmap(size, start) : addr \in FreeRuns(size) /\ size > 0
  BY DEF mmap
<1> QED
  BY <1>1, <1>2, <1>3, Zenon

\* new, from_file and build on unix.
LEMMA BuildInv ==
  ASSUME IInv, NEW id \in Ids, NEW fd \in Fds \cup {Anon}, NEW start \in Nat, NEW size \in Nat,
         NEW fixed, Build(id, fd, start, size, fixed), UNCHANGED os
  PROVE  IInv'
<1>0. TypeInv /\ flen \in [Files -> Nat]
  BY DEF IInv, TypeInv
<1>1. id \notin live /\ given(fd) /\ UNCHANGED flen
  BY <1>0, BuildIs
<1>2. CASE (\E why : refused(why)) /\ release(fd)
  BY <1>0, <1>1, <1>2, RefusedInv
<1>3. ASSUME NEW addr \in FreeRuns(size),
             space' = Mapped(id, addr, size), size > 0,
             constructed(id, Region(addr, size, fd, start, TRUE, FileOf(fd), size)),
             UNCHANGED <<opened, strong>>,
             fd # Anon => check_file_offset(fd, start, size) = "Ok"
      PROVE  IInv'
  <2> DEFINE r == Region(addr, size, fd, start, TRUE, FileOf(fd), size)
  <2>1. FileOf(fd) \in Files \cup {NoFile} /\ addr \in Nat
    BY <1>0, RunsNat DEF FileOf, TypeInv
  <2>2. r \in Shapes
    BY <2>1 DEF Region, Shapes
  <2>3. /\ r.owned /\ r.addr = addr /\ r.extent = size /\ r.size = size /\ r.fd = fd
        /\ r.start = start /\ r.file = FileOf(fd)
    BY DEF Region
  <2>4. fd # Anon => start + size < AddrSpace
    BY <1>3, Checked
  <2> HIDE DEF r
  <2>5. constructed(id, r)
    BY <1>3 DEF r
  <2> QED
    BY <1>0, <1>1, <1>3, <2>2, <2>3, <2>4, <2>5, ConstructedInv
<1> QED
  BY <1>0, <1>2, <1>3, BuildIs

\* build_raw.
LEMMA BuildRawInv ==
  ASSUME IInv, NEW id \in Ids, NEW addr \in Nat, NEW size \in Nat,
         BuildRaw(id, addr, size), UNCHANGED os
  PROVE  IInv'
<1> DEFINE r == Region(addr, size, Anon, 0, FALSE, NoFile, size)
<1>0. /\ id \notin live /\ UNCHANGED <<flen, opened, strong, offsets>> /\ flen \in [Files -> Nat]
      /\ \A p \in PagesOf(addr, size) : space[p] = External
  BY DEF BuildRaw, fvars, IInv, TypeInv
<1>1. given(Anon) /\ release(Anon)
  BY <1>0 DEF given, release
<1>2. \/ \E why : refused(why)
      \/ constructed(id, r) /\ UNCHANGED space
  BY Zenon DEF BuildRaw
<1>3. ASSUME NEW why, refused(why) PROVE IInv'
  BY <1>0, <1>1, <1>3, RefusedInv
<1>4. CASE constructed(id, r) /\ UNCHANGED space
  <2>1. r \in Shapes
    BY DEF Region, Shapes
  <2>2. /\ ~ r.owned /\ r.addr = addr /\ r.extent = size /\ r.size = size /\ r.fd = Anon
        /\ r.start = 0 /\ r.file = NoFile
    BY DEF Region
  <2>3. FileOf(Anon) = NoFile
    BY DEF FileOf
  <2> HIDE DEF r
  <2> QED
    BY <1>0, <1>1, <1>4, <2>1, <2>2, <2>3, ConstructedInv
<1> QED
  BY <1>2, <1>3, <1>4

\* drop on unix takes exactly the pages of the object.
LEMMA DropIs ==
  ASSUME IInv, NEW id \in Ids, Drop(id), os = "unix"
  PROVE  space' = [p \in Pages |-> IF space[p] = id THEN Free ELSE space[p]]
<1>1. id \in live /\ region[id].extent = region[id].size
  BY DEF Drop, IInv, UnixInv
<1>2. \A p \in Pages : space[p] = id
        <=> region[id].owned /\ p \in PagesOf(region[id].addr, region[id].size)
  BY <1>1, OwnPages DEF IInv
<1>3. space \in [Pages -> Ids \cup {Free, External, Leaked}]
  BY DEF IInv, TypeInv
<1>4. CASE region[id].owned
  <2>1. space' = [p \in Pages |-> IF p \in PagesOf(region[id].addr, region[id].size)
                                  THEN Free ELSE space[p]]
    BY <1>4 DEF Drop
  <2> QED
    BY <1>2, <1>4, <2>1
<1>5. CASE ~ region[id].owned
  <2>1. space' = space
    BY <1>5 DEF Drop
  <2> QED
    BY <1>2, <1>3, <1>5, <2>1
<1> QED
  BY <1>4, <1>5

\* Drop for MmapRegion on unix, seen from the invariant.
LEMMA DropInv ==
  ASSUME IInv, NEW id \in Ids, Drop(id), os = "unix", UNCHANGED os
  PROVE  IInv'
  BY DropIs, DroppedInv DEF Drop

\* new on windows.
LEMMA NewInv ==
  ASSUME IInv, NEW id \in Ids, NEW size \in Nat, New(id, size), os = "windows", UNCHANGED os
  PROVE  IInv'
<1>0. id \notin live /\ UNCHANGED <<flen, opened, strong, offsets>> /\ flen \in [Files -> Nat]
  BY DEF New, fvars, IInv, TypeInv
<1>1. given(Anon) /\ release(Anon)
  BY <1>0 DEF given, release
<1>2. \/ \E why : refused(why)
      \/ \E addr \in FreeRuns(size) :
           /\ space' = Mapped(id, addr, size)
           /\ constructed(id, Region(addr, size, Anon, 0, TRUE, NoFile, size))
  BY Zenon DEF New, VirtualAlloc
<1>3. ASSUME NEW why, refused(why) PROVE IInv'
  BY <1>0, <1>1, <1>3, RefusedInv
<1>4. ASSUME NEW addr \in FreeRuns(size), space' = Mapped(id, addr, size),
             constructed(id, Region(addr, size, Anon, 0, TRUE, NoFile, size))
      PROVE  IInv'
  <2> DEFINE r == Region(addr, size, Anon, 0, TRUE, NoFile, size)
  <2>1. r \in Shapes
    BY RunsNat DEF Region, Shapes
  <2>2. /\ r.owned /\ r.addr = addr /\ r.extent = size /\ r.size = size /\ r.fd = Anon
        /\ r.file = NoFile /\ constructed(id, r)
    BY <1>4 DEF Region
  <2>3. FileOf(Anon) = NoFile
    BY DEF FileOf
  <2> HIDE DEF r
  <2> QED
    BY <1>0, <1>1, <1>4, <2>1, <2>2, <2>3, ConstructedInv
<1> QED
  BY <1>2, <1>3, <1>4

\* from_file on windows either fails or maps a view that is as long as the
\* region and ends in the file.
LEMMA FromFileIs ==
  ASSUME IInv, NEW id, NEW fd \in Fds, NEW start \in Nat, NEW size \in Nat,
         FromFile(id, fd, start, size)
  PROVE  /\ id \notin live /\ given(fd) /\ flen' \in [Files -> Nat]
         /\ \/ (\E why : refused(why)) /\ release(fd)
            \/ \E extent \in Nat : \E addr \in FreeRuns(extent) :
                 /\ size <= extent /\ start + size <= flen'[FileOf(fd)]
                 /\ space' = Mapped(id, addr, extent)
                 /\ constructed(id, Region(addr, size, fd, start, TRUE, FileOf(fd), extent))
                 /\ UNCHANGED <<opened, strong>>
<1> DEFINE max    == CreateFileMapping(FileOf(fd), size)
           extent == MapViewOfFile(max, start, size)
<1>1. id \notin live /\ given(fd) /\ fd # Anon
  BY NoObjectNames DEF FromFile
<1>2. FileOf(fd) \in Files /\ flen \in [Files -> Nat]
  <2>1. offsets[fd] > 0 /\ offsets[fd] \in Nat /\ Cardinality(UsersOf(fd)) \in Nat
    BY <1>1, UsersFinite DEF given, IInv, TypeInv
  <2>2. strong[fd] # 0
    BY <2>1 DEF IInv, FdInv, CountInv
  <2> QED
    BY <1>1, <2>2 DEF FileOf, IInv, TypeInv, FdInv, CountInv
<1>3. max \in Nat
  BY <1>2 DEF CreateFileMapping
<1>4. extent # None => extent \in Nat /\ size <= extent /\ start + size <= max
  BY <1>3 DEF MapViewOfFile, None
<1> HIDE DEF max, extent
<1>5. \/ (\E why : refused(why)) /\ release(fd) /\ UNCHANGED flen
      \/ /\ flen' = IF flen[FileOf(fd)] < max THEN [flen EXCEPT ![FileOf(fd)] = max] ELSE flen
         /\ \/ (\E why : refused(why)) /\ release(fd)
            \/ /\ extent # None
               /\ \E addr \in FreeRuns(extent) :
                    /\ space' = Mapped(id, addr, extent)
                    /\ constructed(id, Region(addr, size, fd, start, TRUE, FileOf(fd), extent))
               /\ UNCHANGED <<opened, strong>>
  BY Zenon DEF FromFile, max, extent
<1>6. CASE (\E why : refused(why)) /\ release(fd) /\ UNCHANGED flen
  BY <1>1, <1>2, <1>6
<1>7. CASE /\ flen' = IF flen[FileOf(fd)] < max THEN [flen EXCEPT ![FileOf(fd)] = max] ELSE flen
           /\ \/ (\E why : refused(why)) /\ release(fd)
              \/ /\ extent # None
                 /\ \E addr \in FreeRuns(extent) :
                      /\ space' = Mapped(id, addr, extent)
                      /\ constructed(id, Region(addr, size, fd, start, TRUE, FileOf(fd), extent))
                 /\ UNCHANGED <<opened, strong>>
  <2>1. flen' \in [Files -> Nat] /\ max <= flen'[FileOf(fd)] /\ flen'[FileOf(fd)] \in Nat
    BY <1>2, <1>3, <1>7
  <2>2. extent # None => start + size <= flen'[FileOf(fd)]
    BY <1>3, <1>4, <2>1
  <2> QED
    BY <1>1, <1>4, <1>7, <2>1, <2>2, Zenon
<1> QED
  BY <1>5, <1>6, <1>7

\* from_file on windows: refused, or a view of the file that is never unmapped.
LEMMA FromFileInv ==
  ASSUME IInv, NEW id \in Ids, NEW fd \in Fds, NEW start \in Nat, NEW size \in Nat,
         FromFile(id, fd, start, size), os = "windows", UNCHANGED os
  PROVE  IInv'
<1>0. id \notin live /\ given(fd) /\ flen' \in [Files -> Nat]
  BY FromFileIs
<1>1. CASE (\E why : refused(why)) /\ release(fd)
  BY <1>0, <1>1, RefusedInv
<1>2. ASSUME NEW extent \in Nat, NEW addr \in FreeRuns(extent), size <= extent,
             space' = Mapped(id, addr, extent),
             constructed(id, Region(addr, size, fd, start, TRUE, FileOf(fd), extent)),
             UNCHANGED <<opened, strong>>
      PROVE  IInv'
  <2> DEFINE r == Region(addr, size, fd, start, TRUE, FileOf(fd), extent)
  <2>1. FileOf(fd) \in Files \cup {NoFile} /\ addr \in Nat
    BY RunsNat DEF FileOf, IInv, TypeInv
  <2>2. r \in Shapes
    BY <2>1 DEF Region, Shapes
  <2>3. /\ r.owned /\ r.addr = addr /\ r.extent = extent /\ r.size = size /\ r.fd = fd
        /\ r.file = FileOf(fd) /\ constructed(id, r)
    BY <1>2 DEF Region
  <2> HIDE DEF r
  <2> QED
    BY <1>0, <1>2, <2>2, <2>3, ConstructedInv
<1> QED
  BY <1>1, <1>2, FromFileIs

\* drop on windows.
LEMMA DropRegionInv ==
  ASSUME IInv, NEW id \in Ids, DropRegion(id), UNCHANGED os
  PROVE  IInv'
<1> DEFINE to == IF VirtualFree(id, 0) THEN Free ELSE Leaked
<1>1. to \in {Free, Leaked}
  OBVIOUS
<1>2. space' = [p \in Pages |-> IF space[p] = id THEN to ELSE space[p]]
  <2>1. space' = [p \in Pages |-> IF space[p] # id THEN space[p] ELSE to]
    BY DEF DropRegion
  <2> HIDE DEF to
  <2> QED
    BY <2>1
<1> HIDE DEF to
<1> QED
  BY <1>1, <1>2, DroppedInv DEF DropRegion

\* What happens to files and FileOffsets on either target.
LEMMA FileStepInv ==
  ASSUME IInv, FileStep, UNCHANGED os
  PROVE  IInv'
<1>1. UNCHANGED <<space, live, region>>
  BY DEF FileStep, NewOffset, CloneOffset, DropOffset, SetLen
<1>2. flen' \in [Files -> Nat]
  BY ArgsNat DEF FileStep, NewOffset, CloneOffset, DropOffset, SetLen, IInv, TypeInv
<1>3. FdTypes' /\ FdInv'
  <2>1. ASSUME NEW fd \in Fds, (\E file \in Files : NewOffset(fd, file)) \/ CloneOffset(fd)
        PROVE  FdTypes' /\ FdInv'
    BY <2>1, OffsetMade DEF IInv
  <2>2. ASSUME NEW fd \in Fds, DropOffset(fd) PROVE FdTypes' /\ FdInv'
    <3>1. given(fd) /\ release(fd)
      BY <2>2, NoObjectNames DEF DropOffset, given
    <3> QED
      BY <1>1, <3>1, OffsetGone DEF IInv
  <2>3. ASSUME NEW file \in Files, NEW len \in FileLens, SetLen(file, len)
        PROVE  FdTypes' /\ FdInv'
    <3>1. UNCHANGED <<opened, strong, offsets>> /\ \A fd : UsersOf(fd)' = UsersOf(fd)
      BY <1>1, <2>3 DEF SetLen, fvars, UsersOf
    <3> QED
      BY <1>1, <3>1 DEF IInv, TypeInv, FdTypes, FdInv, CountInv, FileInv
  <2> QED
    BY <2>1, <2>2, <2>3 DEF FileStep
<1>4. TypeInv' /\ MappingsMatchObjects' /\ UnixInv'
  BY <1>1, <1>2, <1>3 DEF IInv, TypeInv, FdTypes, MappingsMatchObjects, UnixInv, PagesOf, Pages
<1> QED
  BY <1>3, <1>4 DEF IInv

----------------------------------------------------------------------------
(* The invariant is inductive                                              *)

\* Nothing is mapped and no file is open at the start.
LEMMA InitInv == WInit => IInv
<1> SUFFICES ASSUME WInit PROVE IInv
  OBVIOUS
<1>0. NoRegion \in Shapes
  BY DEF NoRegion, Region, Shapes
<1>1. TypeInv
  BY <1>0, ArgsNat DEF WInit, Init, TypeInv
<1>2. MappingsMatchObjects /\ UnixInv /\ FileInv
  BY NoObjectNames, PagesAssumption
  DEF WInit, Init, MappingsMatchObjects, UnixInv, FileInv, Pages
<1>3. \A fd : UsersOf(fd) = {}
  BY DEF WInit, Init, UsersOf
<1>4. CountInv
  BY <1>3, FS_EmptySet DEF CountInv, WInit, Init
<1> QED
  BY <1>1, <1>2, <1>4 DEF IInv, FdInv

\* Every step of either target keeps the invariant.
LEMMA NextInv == IInv /\ [WNext]_wvars => IInv'
<1> SUFFICES ASSUME IInv, [WNext]_wvars PROVE IInv'
  OBVIOUS
<1>0. \A n \in 0 .. NumPages * PageSize : n \in Nat
  BY PagesAssumption
<1>1. CASE os = "unix" /\ Next /\ UNCHANGED os
  <2>1. CASE FileStep
    BY <1>1, <2>1, FileStepInv
  <2>2. ASSUME NEW id \in Ids, NEW size \in Sizes, NEW fixed \in BOOLEAN,
               \/ Build(id, Anon, 0, size, fixed)
               \/ \E fd \in Fds, start \in Offsets : Build(id, fd, start, size, fixed)
        PROVE  IInv'
    BY <1>1, <2>2, ArgsNat, BuildInv
  <2>3. ASSUME NEW id \in Ids, NEW addr \in 0 .. NumPages * PageSize, NEW size \in Sizes,
               BuildRaw(id, addr, size)
        PROVE  IInv'
    BY <1>0, <1>1, <2>3, ArgsNat, BuildRawInv
  <2>4. ASSUME NEW id \in Ids, Drop(id) PROVE IInv'
    BY <1>1, <2>4, DropInv
  <2> QED
    BY <1>1, <2>1, <2>2, <2>3, <2>4 DEF Next
<1>2. CASE os = "windows" /\ WindowsStep /\ UNCHANGED os
  <2>1. CASE FileStep
    BY <1>2, <2>1, FileStepInv
  <2>2. ASSUME NEW id \in Ids, NEW size \in Sizes,
               New(id, size) \/ \E fd \in Fds, start \in Offsets : FromFile(id, fd, start, size)
        PROVE  IInv'
    BY <1>2, <2>2, ArgsNat, NewInv, FromFileInv
  <2>3. ASSUME NEW id \in Ids, DropRegion(id) PROVE IInv'
    BY <1>2, <2>3, DropRegionInv
  <2> QED
    BY <1>2, <2>1, <2>2, <2>3 DEF WindowsStep
<1>3. CASE UNCHANGED wvars
  BY <1>3 DEF wvars, vars, fvars, IInv, TypeInv, MappingsMatchObjects, UnixInv, FdInv, CountInv,
              FileInv, UsersOf, PagesOf, Pages, Shapes
<1> QED
  BY <1>1, <1>2, <1>3 DEF WNext

\* The invariant, in every reachable state.
THEOREM Invariance == WSpec => []IInv
  BY InitInv, NextInv, PTL DEF WSpec

\* Regions and mappings match, for any number of either (mmap_unix.rs and
\* mmap_windows.rs: the constructors and drop).
THEOREM MappingsCorrect == WSpec => []MappingsMatchObjects
  BY Invariance, PTL DEF IInv

\* The descriptor of a region stays the one of the file it has mapped, and no
\* file is kept open in vain (guest_memory.rs, FileOffset).
THEOREM DescriptorsCorrect == WSpec => []FdNamesItsFile
<1>1. IInv => FdNamesItsFile
  <2> SUFFICES ASSUME IInv PROVE FdNamesItsFile
    OBVIOUS
  <2>1. ASSUME NEW fd \in Fds, opened[fd] # NoFile, ~ (offsets[fd] > 0)
        PROVE  \E id \in live : region[id].fd = fd
    <3>1. /\ offsets[fd] = 0 /\ strong[fd] # 0
          /\ strong[fd] = offsets[fd] + Cardinality(UsersOf(fd))
      BY <2>1 DEF IInv, TypeInv, FdInv, CountInv
    <3>2. /\ Cardinality(UsersOf(fd)) \in Nat
          /\ Cardinality(UsersOf(fd)) = 0 <=> UsersOf(fd) = {}
      BY UsersFinite DEF IInv
    <3>3. UsersOf(fd) # {}
      BY <3>1, <3>2, SMTT(30)
    <3> QED
      BY <3>3 DEF UsersOf
  <2> QED
    BY <2>1 DEF FdNamesItsFile, IInv, FdInv, FileInv
<1> QED
  BY <1>1, Invariance, PTL

\* fds_overlap says exactly whether two regions map a common byte of one open
\* file, although it adds without a check (mmap_unix.rs).
THEOREM OverlapCorrect == WSpec => []UnixFdsOverlapExact
<1>1. IInv => UnixFdsOverlapExact
  <2> SUFFICES ASSUME IInv, os = "unix", NEW i \in live, NEW j \in live
               PROVE  LET FileBytes(r) == {<<r.file, b>> : b \in r.start .. r.start + r.size - 1}
                      IN  fds_overlap(region[i], region[j])
                            <=> /\ region[i].fd # Anon /\ region[i].fd = region[j].fd
                                /\ FileBytes(region[i]) \cap FileBytes(region[j]) # {}
    BY DEF UnixFdsOverlapExact, FdsOverlapExact
  <2> DEFINE FileBytes(r) == {<<r.file, b>> : b \in r.start .. r.start + r.size - 1}
             Common == FileBytes(region[i]) \cap FileBytes(region[j]) # {}
             ri == region[i]
             rj == region[j]
  <2>1. CASE region[i].fd = Anon \/ region[i].fd # region[j].fd
    BY <2>1 DEF fds_overlap
  <2>2. CASE region[i].fd # Anon /\ region[i].fd = region[j].fd
    <3>1. /\ ri.start \in Nat /\ ri.size \in Nat /\ rj.start \in Nat /\ rj.size \in Nat
      BY DEF IInv, TypeInv, Shapes
    <3>2. /\ ri.size > 0 /\ ri.start + ri.size < AddrSpace
          /\ rj.size > 0 /\ rj.start + rj.size < AddrSpace
          /\ ri.file = rj.file
      BY <2>2 DEF IInv, UnixInv, FdInv, FileInv
    <3>3. /\ unchecked_add(ri.start, ri.size) = ri.start + ri.size
          /\ unchecked_add(rj.start, rj.size) = rj.start + rj.size
      BY <3>1, <3>2, AddrSpaceAssumption DEF unchecked_add, plain, Raw
    <3>4. fds_overlap(ri, rj) <=> IF ri.start < rj.start THEN ri.start + ri.size > rj.start
                                  ELSE rj.start + rj.size > ri.start
      BY <2>2, <3>3 DEF fds_overlap
    <3>5. Common <=> \E b : b \in ri.start .. ri.start + ri.size - 1
                            /\ b \in rj.start .. rj.start + rj.size - 1
      <4>1. \A x : x \in FileBytes(ri) <=> \E b \in ri.start .. ri.start + ri.size - 1 :
                                             x = <<ri.file, b>>
        OBVIOUS
      <4>2. \A x : x \in FileBytes(rj) <=> \E b \in rj.start .. rj.start + rj.size - 1 :
                                             x = <<rj.file, b>>
        OBVIOUS
      <4>3. Common <=> \E x : x \in FileBytes(ri) /\ x \in FileBytes(rj)
        OBVIOUS
      <4>4. \A b, c : <<ri.file, b>> = <<rj.file, c>> => b = c
        BY <3>2
      <4> HIDE DEF Common, FileBytes, ri, rj
      <4>5. ASSUME Common
            PROVE  \E b : b \in ri.start .. ri.start + ri.size - 1
                          /\ b \in rj.start .. rj.start + rj.size - 1
        <5>1. PICK x : x \in FileBytes(ri) /\ x \in FileBytes(rj)
          BY <4>3, <4>5
        <5>2. PICK b \in ri.start .. ri.start + ri.size - 1 : x = <<ri.file, b>>
          BY <4>1, <5>1, Zenon
        <5>3. PICK c \in rj.start .. rj.start + rj.size - 1 : x = <<rj.file, c>>
          BY <4>2, <5>1, Zenon
        <5>4. b = c
          BY <4>4, <5>2, <5>3, Zenon
        <5> QED
          BY <5>2, <5>3, <5>4, Zenon
      <4>6. ASSUME NEW b, b \in ri.start .. ri.start + ri.size - 1,
                   b \in rj.start .. rj.start + rj.size - 1
            PROVE  Common
        <5>1. <<ri.file, b>> = <<rj.file, b>>
          BY <3>2
        <5>2. <<ri.file, b>> \in FileBytes(ri) /\ <<ri.file, b>> \in FileBytes(rj)
          BY <4>1, <4>2, <4>6, <5>1, Zenon
        <5> QED
          BY <4>3, <5>2, Zenon
      <4> QED
        BY <4>5, <4>6, Zenon
    <3>6. (\E b : b \in ri.start .. ri.start + ri.size - 1
                  /\ b \in rj.start .. rj.start + rj.size - 1)
            <=> IF ri.start < rj.start THEN ri.start + ri.size > rj.start
                ELSE rj.start + rj.size > ri.start
      <4> HIDE DEF ri, rj
      <4>1. CASE ri.start < rj.start
        BY <3>1, <3>2, <4>1
      <4>2. CASE ~ (ri.start < rj.start)
        BY <3>1, <3>2, <4>2
      <4> QED
        BY <4>1, <4>2
    <3> HIDE DEF Common
    <3> QED
      BY <2>2, <3>4, <3>5, <3>6 DEF Common
  <2> QED
    BY <2>1, <2>2
<1> QED
  BY <1>1, Invariance, PTL

----------------------------------------------------------------------------
(* What a step never does                                                  *)

\* A mapping of a file whose length can be read ends in the file when it is
\* made (mmap.rs, check_file_offset; mmap_windows.rs, from_file).
THEOREM MadeInsideFile == WSpec => InsideFileWhenMade
<1> DEFINE Made ==
      \A id \in live' \ live :
        LET r == region'[id]
        IN  r.file \in Files \ Unstatable => r.start + r.size <= flen'[r.file]
<1>1. ASSUME IInv, [WNext]_wvars PROVE [Made]_vars
  <2>0. TypeInv
    BY <1>1 DEF IInv
  <2>1. ASSUME live' \subseteq live PROVE Made
    BY <2>1
  <2>2. ASSUME NEW id \in Ids, NEW r, constructed(id, r),
               r.file \in Files \ Unstatable => r.start + r.size <= flen'[r.file]
        PROVE  Made
    <3>1. live' \ live \subseteq {id} /\ region'[id] = r
      BY <2>0, <2>2 DEF constructed, TypeInv
    <3> QED
      BY <2>2, <3>1
  <2>3. ASSUME NEW id \in Ids, NEW fd \in Fds \cup {Anon}, NEW start \in Nat, NEW size \in Nat,
               NEW fixed, Build(id, fd, start, size, fixed)
        PROVE  Made
    <3>1. CASE \E why : refused(why)
      BY <2>1, <3>1 DEF refused
    <3>2. ASSUME NEW addr, fd # Anon => check_file_offset(fd, start, size) = "Ok",
                 constructed(id, Region(addr, size, fd, start, TRUE, FileOf(fd), size))
          PROVE  Made
      <4> DEFINE r == Region(addr, size, fd, start, TRUE, FileOf(fd), size)
      <4>1. r.file = FileOf(fd) /\ r.start = start /\ r.size = size
        BY DEF Region
      <4>2. ASSUME FileOf(fd) \in Files \ Unstatable PROVE start + size <= flen'[FileOf(fd)]
        <5>1. fd # Anon
          BY <4>2, NoObjectNames DEF FileOf
        <5>2. ~ (flen[FileOf(fd)] < start + size)
          BY <3>2, <4>2, <5>1, Checked
        <5>3. flen' = flen /\ flen[FileOf(fd)] \in Nat
          BY <2>0, <2>3, <4>2, BuildIs DEF TypeInv
        <5> QED
          BY <5>2, <5>3
      <4> HIDE DEF r
      <4>3. constructed(id, r)
        BY <3>2 DEF r
      <4> QED
        BY <2>2, <4>1, <4>2, <4>3
    <3> QED
      BY <2>0, <2>3, <3>1, <3>2, BuildIs
  <2>4. ASSUME NEW id \in Ids, NEW addr, NEW size, BuildRaw(id, addr, size) PROVE Made
    <3> DEFINE r == Region(addr, size, Anon, 0, FALSE, NoFile, size)
    <3>1. (\E why : refused(why)) \/ constructed(id, r)
      BY <2>4, Zenon DEF BuildRaw
    <3>2. r.file \notin Files
      BY NoObjectNames DEF Region
    <3> HIDE DEF r
    <3> QED
      BY <2>1, <2>2, <3>1, <3>2 DEF refused
  <2>5. ASSUME NEW id \in Ids, NEW size, New(id, size) PROVE Made
    <3>1. CASE \E why : refused(why)
      BY <2>1, <3>1 DEF refused
    <3>2. ASSUME NEW addr, constructed(id, Region(addr, size, Anon, 0, TRUE, NoFile, size))
          PROVE  Made
      <4>1. Region(addr, size, Anon, 0, TRUE, NoFile, size).file \notin Files
        BY NoObjectNames DEF Region
      <4> QED
        BY <2>2, <3>2, <4>1
    <3> QED
      BY <2>5, <3>1, <3>2, Zenon DEF New
  <2>6. ASSUME NEW id \in Ids, NEW fd \in Fds, NEW start \in Nat, NEW size \in Nat,
               FromFile(id, fd, start, size)
        PROVE  Made
    <3>1. CASE \E why : refused(why)
      BY <2>1, <3>1 DEF refused
    <3>2. ASSUME NEW extent, NEW addr, start + size <= flen'[FileOf(fd)],
                 constructed(id, Region(addr, size, fd, start, TRUE, FileOf(fd), extent))
          PROVE  Made
      <4> DEFINE r == Region(addr, size, fd, start, TRUE, FileOf(fd), extent)
      <4>1. r.file = FileOf(fd) /\ r.start = start /\ r.size = size
        BY DEF Region
      <4> HIDE DEF r
      <4>2. constructed(id, r)
        BY <3>2 DEF r
      <4> QED
        BY <2>2, <3>2, <4>1, <4>2
    <3> QED
      BY <1>1, <2>6, <3>1, <3>2, FromFileIs
  <2>7. ASSUME FileStep \/ \E id \in Ids : Drop(id) \/ DropRegion(id) PROVE Made
    BY <2>1, <2>7 DEF FileStep, NewOffset, CloneOffset, DropOffset, SetLen, Drop, DropRegion
  <2>8. CASE UNCHANGED wvars
    BY <2>8 DEF wvars
  <2> HIDE DEF Made
  <2>9. CASE Next
    BY <2>3, <2>4, <2>7, <2>9, ArgsNat DEF Next
  <2>10. CASE WindowsStep
    BY <2>5, <2>6, <2>7, <2>10, ArgsNat DEF WindowsStep
  <2> QED
    BY <1>1, <2>8, <2>9, <2>10 DEF WNext
<1> QED
  BY <1>1, Invariance, PTL DEF WSpec, InsideFileWhenMade

\* The pages of an object that goes are free again, but for the view of a file
\* on windows, which nobody ever unmaps (mmap_unix.rs and mmap_windows.rs, drop).
THEOREM LeaksCorrect == WSpec => OnlyViewsLeak
<1> DEFINE Leaks ==
      \A p \in Pages :
        /\ space[p] \in Ids \ live'
             => space'[p] = IF os = "windows" /\ region[space[p]].file # NoFile
                            THEN Leaked ELSE Free
        /\ space[p] = Leaked => space'[p] = Leaked
<1>1. ASSUME IInv, [WNext]_wvars PROVE [Leaks]_wvars
  <2>0. \A p \in Pages : space[p] \in Ids => space[p] \in live
    BY <1>1 DEF IInv, MappingsMatchObjects
  <2>1. ASSUME UNCHANGED space, live \subseteq live' PROVE Leaks
    BY <2>0, <2>1
  <2>2. ASSUME NEW id, NEW addr, NEW size, addr \in FreeRuns(size),
               space' = Mapped(id, addr, size), live \subseteq live'
        PROVE  Leaks
    <3>1. \A p \in PagesOf(addr, size) : space[p] = Free
      BY <2>2 DEF FreeRuns
    <3>2. \A p \in Pages : space'[p] = IF p \in PagesOf(addr, size) THEN id ELSE space[p]
      BY <2>2 DEF Mapped
    <3> QED
      BY <2>0, <2>2, <3>1, <3>2, NoObjectNames
  <2>3. ASSUME NEW id \in Ids, NEW fd \in Fds \cup {Anon}, NEW start \in Nat, NEW size \in Nat,
               NEW fixed, Build(id, fd, start, size, fixed)
        PROVE  Leaks
    <3>1. TypeInv
      BY <1>1 DEF IInv
    <3> HIDE DEF Leaks
    <3> QED
      BY <2>1, <2>2, <2>3, <3>1, BuildIs DEF refused, constructed
  <2>4. ASSUME NEW id \in Ids, NEW addr, NEW size, BuildRaw(id, addr, size) PROVE Leaks
    <3>1. UNCHANGED space /\ live \subseteq live'
      BY <2>4 DEF BuildRaw, refused, constructed
    <3> QED
      BY <2>1, <3>1
  <2>5. ASSUME NEW id \in Ids, NEW size, New(id, size) PROVE Leaks
    <3>1. \/ UNCHANGED space /\ live \subseteq live'
          \/ \E addr \in FreeRuns(size) : space' = Mapped(id, addr, size) /\ live \subseteq live'
      BY <2>5 DEF New, VirtualAlloc, refused, constructed
    <3> HIDE DEF Leaks
    <3> QED
      BY <2>1, <2>2, <3>1
  <2>6. ASSUME NEW id \in Ids, NEW fd \in Fds, NEW start \in Nat, NEW size \in Nat,
               FromFile(id, fd, start, size)
        PROVE  Leaks
    <3> HIDE DEF Leaks
    <3> QED
      BY <1>1, <2>1, <2>2, <2>6, FromFileIs DEF refused, constructed
  <2>7. ASSUME NEW id \in Ids, Drop(id), os = "unix" PROVE Leaks
    <3>1. space' = [p \in Pages |-> IF space[p] = id THEN Free ELSE space[p]]
      BY <1>1, <2>7, DropIs
    <3>2. live' = live \ {id}
      BY <2>7 DEF Drop
    <3> QED
      BY <2>0, <2>7, <3>1, <3>2, NoObjectNames
  <2>8. ASSUME NEW id \in Ids, DropRegion(id), os = "windows" PROVE Leaks
    <3>1. live' = live \ {id}
      BY <2>8 DEF DropRegion
    <3>2. VirtualFree(id, 0) <=> region[id].file = NoFile
      BY DEF VirtualFree
    <3>3. \A p \in Pages : space'[p] = IF space[p] # id THEN space[p]
                                       ELSE IF region[id].file = NoFile THEN Free ELSE Leaked
      BY <2>8, <3>2 DEF DropRegion
    <3> QED
      BY <2>0, <2>8, <3>1, <3>3, NoObjectNames
  <2>9. ASSUME FileStep PROVE Leaks
    <3>1. UNCHANGED <<space, live>>
      BY <2>9 DEF FileStep, NewOffset, CloneOffset, DropOffset, SetLen
    <3> QED
      BY <2>1, <3>1
  <2> HIDE DEF Leaks
  <2>10. CASE os = "unix" /\ Next
    BY <2>3, <2>4, <2>7, <2>9, <2>10, ArgsNat DEF Next
  <2>11. CASE os = "windows" /\ WindowsStep
    BY <2>5, <2>6, <2>8, <2>9, <2>11, ArgsNat DEF WindowsStep
  <2> QED
    BY <1>1, <2>10, <2>11 DEF WNext
<1> QED
  BY <1>1, Invariance, PTL DEF WSpec, OnlyViewsLeak
=============================================================================
