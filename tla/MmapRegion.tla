----------------------------- MODULE MmapRegion -----------------------------
(***************************************************************************)
(* The mappings behind guest memory (src/src/mmap_unix.rs): MmapRegion     *)
(* objects that own a mapping they made, anonymous or of a file, or that   *)
(* stand for a mapping of somebody else, and give it back when dropped.    *)
(*                                                                         *)
(* A file comes as a FileOffset (src/src/guest_memory.rs), which shares    *)
(* ownership of the open file: clones of it and the regions made of it     *)
(* each hold an Arc<File>, and the file is closed with the last of them.   *)
(* A descriptor that is closed may be given to another file.               *)
(***************************************************************************)
EXTENDS Address, FiniteSets

CONSTANTS
  Ids,            \* names of MmapRegion objects
  PageSize,
  NumPages,       \* pages of the address space: 0 .. NumPages - 1
  ExternalPages,  \* pages mapped by others (the dynamic linker, say)
  Fds,            \* file descriptors
  Files,          \* files on disk
  FileLens,       \* lengths a file may have
  Unstatable,     \* those whose metadata cannot be read
  Offsets, Sizes, \* arguments the caller passes
  MaxOffsets,     \* bound: FileOffsets of one open file the caller has at a time
  Anon, NoFile, Free, External

ASSUME PagesAssumption ==
  PageSize \in Nat \ {0} /\ NumPages \in Nat /\ ExternalPages \subseteq 0 .. NumPages - 1
ASSUME OffsetsAssumption == Offsets \subseteq Raw /\ Sizes \subseteq Raw /\ FileLens \subseteq Raw
ASSUME NamesAssumption ==
  /\ Anon \notin Fds /\ NoFile \notin Files /\ Unstatable \subseteq Files
  /\ Free \notin Ids /\ External \notin Ids /\ Free # External /\ IsFiniteSet(Ids)
ASSUME MaxOffsetsAssumption == MaxOffsets \in Nat

VARIABLES
  space,    \* whose mapping each page of the address space belongs to
  flen,     \* the length of each file
  opened,   \* the file that each descriptor is open for, or NoFile
  strong,   \* the strong count of the Arc<File> around it
  offsets,  \* the FileOffset objects the caller holds, by descriptor
  live,     \* the MmapRegion objects that exist
  region,   \* their fields; file and extent are what the system has mapped
  out       \* result of the last constructor

fvars == <<opened, strong, offsets>>
vars  == <<space, flen, fvars, live, region, out>>

Pages == 0 .. NumPages - 1

Region(addr, size, fd, start, owned, file, extent) ==
  [addr |-> addr, size |-> size, fd |-> fd, start |-> start, owned |-> owned,
   file |-> file, extent |-> extent]

NoRegion == Region(0, 0, Anon, 0, FALSE, NoFile, 0)

FileOf(fd) == IF fd = Anon THEN NoFile ELSE opened[fd]

\* The pages a mapping of size bytes at addr extends over.
PagesOf(addr, size) ==
  {p \in Pages : addr < (p + 1) * PageSize /\ p * PageSize < addr + size}

Init ==
  /\ space = [p \in Pages |-> IF p \in ExternalPages THEN External ELSE Free]
  /\ flen \in [Files -> FileLens]
  /\ opened = [fd \in Fds |-> NoFile]
  /\ strong = [fd \in Fds |-> 0] /\ offsets = [fd \in Fds |-> 0]
  /\ live = {} /\ region = [id \in Ids |-> NoRegion] /\ out = "none"

----------------------------------------------------------------------------
(* FileOffset                                                              *)

\* An Arc<File> is dropped; the last one closes the file.
release(fd) ==
  IF fd = Anon THEN UNCHANGED <<opened, strong>>
  ELSE /\ strong' = [strong EXCEPT ![fd] = @ - 1]
       /\ opened' = IF strong[fd] = 1 THEN [opened EXCEPT ![fd] = NoFile] ELSE opened

\* FileOffset::new of a file that was just opened, on a descriptor not in use.
NewOffset(fd, file) ==
  /\ opened[fd] = NoFile
  /\ opened' = [opened EXCEPT ![fd] = file]
  /\ strong' = [strong EXCEPT ![fd] = 1] /\ offsets' = [offsets EXCEPT ![fd] = 1]
  /\ UNCHANGED <<space, flen, live, region, out>>

\* clone, or FileOffset::from_arc with a clone of arc(); start is chosen later here.
CloneOffset(fd) ==
  /\ offsets[fd] \in 1 .. MaxOffsets - 1
  /\ strong' = [strong EXCEPT ![fd] = @ + 1] /\ offsets' = [offsets EXCEPT ![fd] = @ + 1]
  /\ UNCHANGED <<space, flen, opened, live, region, out>>

DropOffset(fd) ==
  /\ offsets[fd] > 0 /\ offsets' = [offsets EXCEPT ![fd] = @ - 1]
  /\ release(fd)
  /\ UNCHANGED <<space, flen, live, region, out>>

\* The caller gives one of its FileOffset objects away.
given(fd) ==
  IF fd = Anon THEN UNCHANGED offsets
  ELSE offsets[fd] > 0 /\ offsets' = [offsets EXCEPT ![fd] = @ - 1]

----------------------------------------------------------------------------
(* MmapRegion                                                              *)

\* Mutation of check_file_offset: wrapping_add for checked_add.
check_file_offset_wrapping(fd, start, size) ==
  IF FileOf(fd) \notin Unstatable /\ flen[FileOf(fd)] < (start + size) % AddrSpace
  THEN "MappingPastEof" ELSE "Ok"

\* "Ok", or the error.
check_file_offset(fd, start, size) ==
  IF checked_add(start, size) = None THEN "InvalidOffsetLength"
  ELSE IF FileOf(fd) \notin Unstatable /\ flen[FileOf(fd)] < start + size
  THEN "MappingPastEof"
  ELSE "Ok"

\* Where the system finds a run of free pages for size bytes.
FreeRuns(size) ==
  {p * PageSize : p \in {q \in Pages :
     /\ q * PageSize + size <= NumPages * PageSize
     /\ \A r \in PagesOf(q * PageSize, size) : space[r] = Free}}

\* The space after size bytes at addr were mapped for id.
Mapped(id, addr, size) ==
  [p \in Pages |-> IF p \in PagesOf(addr, size) THEN id ELSE space[p]]

\* mmap(2) without MAP_FIXED: it refuses empty mappings and offsets within a
\* page, and may fail otherwise.
mmap(size, start) == IF size = 0 \/ start % PageSize # 0 THEN {} ELSE FreeRuns(size)

constructed(id, r) ==
  /\ live' = live \cup {id}
  /\ region' = [region EXCEPT ![id] = r]
  /\ out' = "Ok"

refused(why) == out' = why /\ UNCHANGED <<space, live, region>>

\* Mutation of Build: the region keeps the descriptor, not the FileOffset.
Build_of_borrowed_fd(id, fd, start, size, fixed) ==
  /\ id \notin live /\ ~ fixed /\ given(fd)
  /\ IF fd = Anon THEN TRUE ELSE check_file_offset(fd, start, size) = "Ok"
  /\ \E addr \in mmap(size, start) :
       /\ space' = Mapped(id, addr, size)
       /\ constructed(id, Region(addr, size, fd, start, TRUE, FileOf(fd), size))
  /\ release(fd)
  /\ UNCHANGED flen

\* new (fd = Anon), from_file, and build with the flags of either or MAP_FIXED.
\* The FileOffset goes into the region, or is dropped with the error.
Build(id, fd, start, size, fixed) ==
  /\ id \notin live /\ given(fd)
  /\ LET check == IF fd = Anon THEN "Ok" ELSE check_file_offset(fd, start, size)
     IN  IF fixed THEN refused("MapFixed") /\ release(fd)
         ELSE IF check # "Ok" THEN refused(check) /\ release(fd)
         ELSE \/ refused("Mmap") /\ release(fd)
              \/ \E addr \in mmap(size, start) :
                   /\ space' = Mapped(id, addr, size)
                   /\ constructed(id, Region(addr, size, fd, start, TRUE, FileOf(fd), size))
                   /\ UNCHANGED <<opened, strong>>
  /\ UNCHANGED flen

\* build_raw; the caller guarantees that the mapping exists.
BuildRaw(id, addr, size) ==
  /\ id \notin live /\ \A p \in PagesOf(addr, size) : space[p] = External
  /\ addr + size <= NumPages * PageSize
  /\ IF addr % PageSize # 0 THEN refused("InvalidPointer")
     ELSE IF size % PageSize # 0 THEN refused("InvalidSize")
     ELSE constructed(id, Region(addr, size, Anon, 0, FALSE, NoFile, size)) /\ UNCHANGED space
  /\ UNCHANGED <<flen, fvars>>

\* Mutation of Drop: no munmap.
Drop_leaking(id) ==
  /\ id \in live
  /\ live' = live \ {id} /\ region' = [region EXCEPT ![id] = NoRegion]
  /\ release(region[id].fd)
  /\ UNCHANGED <<space, flen, offsets, out>>

\* drop: munmap of what the object owns, then the fields, the FileOffset too.
Drop(id) ==
  /\ id \in live
  /\ live' = live \ {id} /\ region' = [region EXCEPT ![id] = NoRegion]
  /\ space' = IF ~ region[id].owned THEN space
              ELSE [p \in Pages |-> IF p \in PagesOf(region[id].addr, region[id].size)
                                    THEN Free ELSE space[p]]
  /\ release(region[id].fd)
  /\ UNCHANGED <<flen, offsets, out>>

\* Somebody changes the length of a file.
SetLen(file, len) ==
  /\ flen' = [flen EXCEPT ![file] = len] /\ UNCHANGED <<space, fvars, live, region, out>>

\* What the caller does with files, and others with theirs.
FileStep ==
  \/ \E fd \in Fds, file \in Files : NewOffset(fd, file)
  \/ \E fd \in Fds : CloneOffset(fd) \/ DropOffset(fd)
  \/ \E file \in Files, len \in FileLens : SetLen(file, len)

Next ==
  \/ FileStep
  \/ \E id \in Ids, size \in Sizes, fixed \in BOOLEAN :
       \/ Build(id, Anon, 0, size, fixed)
       \/ \E fd \in Fds, start \in Offsets : Build(id, fd, start, size, fixed)
  \/ \E id \in Ids, addr \in 0 .. NumPages * PageSize, size \in Sizes : BuildRaw(id, addr, size)
  \/ \E id \in Ids : Drop(id)

Spec == Init /\ [][Next]_vars

\* Mutation of fds_overlap: >= for >.
fds_overlap_touching(r1, r2) ==
  /\ r1.fd # Anon /\ r2.fd # Anon /\ r1.fd = r2.fd
  /\ IF r1.start < r2.start THEN unchecked_add(r1.start, r1.size) >= r2.start
                            ELSE unchecked_add(r2.start, r2.size) >= r1.start

\* Whether two mappings of one file share bytes of it.
fds_overlap(r1, r2) ==
  /\ r1.fd # Anon /\ r2.fd # Anon /\ r1.fd = r2.fd
  /\ IF r1.start < r2.start THEN unchecked_add(r1.start, r1.size) > r2.start
                            ELSE unchecked_add(r2.start, r2.size) > r1.start

----------------------------------------------------------------------------
(* Properties                                                              *)

\* Whatever is built and dropped around it (mmap_unix.rs: build, build_raw,
\* drop), an object that owns its mapping has all of it and shares it with
\* nobody, one made by build_raw has the external mapping it was given, no page
\* stays mapped for an object that is gone, and no page that belongs to
\* somebody else is ever unmapped.
MappingsMatchObjects ==
  /\ \A id \in live :
       /\ region[id].size <= region[id].extent
       /\ \A p \in PagesOf(region[id].addr, region[id].extent) :
            space[p] = IF region[id].owned THEN id ELSE External
  /\ \A p \in Pages : space[p] \in Ids =>
       space[p] \in live /\ p \in PagesOf(region[space[p]].addr, region[space[p]].extent)
  /\ \A p \in ExternalPages : space[p] = External

\* A mapping of a file whose length is known lies inside the file when it is
\* made, also at the end of the range of offsets (mmap.rs, check_file_offset).
InsideFileWhenMade ==
  [][\A id \in live' \ live :
       LET r == region'[id]
       IN  r.file \in Files \ Unstatable => r.start + r.size <= flen'[r.file]]_vars

\* The descriptor in a region's FileOffset is the one of the file it has mapped
\* as long as the region lives, whatever the caller drops and opens meanwhile,
\* and a file that nobody has a FileOffset of is not kept open (guest_memory.rs,
\* FileOffset; mmap_unix.rs, build and drop).
FdNamesItsFile ==
  /\ \A id \in live : region[id].fd # Anon => opened[region[id].fd] = region[id].file
  /\ \A fd \in Fds : opened[fd] # NoFile
       => offsets[fd] > 0 \/ \E id \in live : region[id].fd = fd

\* fds_overlap (mmap_unix.rs) looks at descriptors and adds without a check, and
\* yet says of two regions that they overlap only when some byte of one file is
\* mapped by both, and never misses it for regions made of the same open file.
FdsOverlapExact ==
  \A i, j \in live :
    LET FileBytes(r) == {<<r.file, b>> : b \in r.start .. r.start + r.size - 1}
    IN  fds_overlap(region[i], region[j])
          <=> /\ region[i].fd # Anon /\ region[i].fd = region[j].fd
              /\ FileBytes(region[i]) \cap FileBytes(region[j]) # {}
=============================================================================
