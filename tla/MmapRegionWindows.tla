------------------------- MODULE MmapRegionWindows -------------------------
(***************************************************************************)
(* The mappings of module MmapRegion for either target of the crate: those *)
(* of src/src/mmap_unix.rs, and those of src/src/mmap_windows.rs, where    *)
(* anonymous memory comes from VirtualAlloc, a file is mapped by           *)
(* CreateFileMappingA and MapViewOfFile, and drop calls VirtualFree.  The  *)
(* part of the file descriptors is played by file handles.                 *)
(***************************************************************************)
EXTENDS MmapRegion

CONSTANTS
  MM_HIGHEST_VAD_ADDRESS,
  INVALID_HANDLE_VALUE,    \* the handle of a File that was made of no open file
  Leaked                   \* pages that stay mapped although their object is gone

ASSUME WindowsAssumption ==
  /\ MM_HIGHEST_VAD_ADDRESS \in Nat /\ INVALID_HANDLE_VALUE \in Fds
  /\ Leaked \notin Ids /\ Leaked # Free /\ Leaked # External

VARIABLE os   \* the target: "unix" or "windows"

wvars == <<vars, os>>

WInit == Init /\ os \in {"unix", "windows"}

----------------------------------------------------------------------------
(* The system calls                                                        *)

\* VirtualAlloc of size > 0 bytes, wherever there is room; it may also fail.
VirtualAlloc(size) == FreeRuns(size)

\* The length of the mapping object that CreateFileMappingA makes: that of the
\* file for a size of 0.  There is none for an empty file, or 0.
CreateFileMapping(file, size) == IF size = 0 THEN flen[file] ELSE size

\* The bytes that MapViewOfFile maps of an object of max bytes, for a size of 0
\* all that follow the offset; None when there are none, or not that many, or
\* when the offset is within a page.
MapViewOfFile(max, start, size) ==
  IF start % PageSize # 0 \/ start >= max \/ start + size > max THEN None
  ELSE IF size = 0 THEN max - start ELSE size

\* VirtualFree with MEM_RELEASE: only of what VirtualAlloc allocated, and only
\* with a size of 0.
VirtualFree(id, size) == size = 0 /\ region[id].file = NoFile

----------------------------------------------------------------------------
(* MmapRegion                                                              *)

\* new
New(id, size) ==
  /\ id \notin live
  /\ IF size = 0 \/ size > MM_HIGHEST_VAD_ADDRESS THEN refused("EINVAL")
     ELSE \/ refused("OsError")
          \/ \E addr \in VirtualAlloc(size) :
               /\ space' = Mapped(id, addr, size)
               /\ constructed(id, Region(addr, size, Anon, 0, TRUE, NoFile, size))
  /\ UNCHANGED <<flen, fvars>>

\* from_file: a mapping object as long as the region, which makes a shorter file
\* longer, and a view of it; the object is closed before the view is looked at.
FromFile(id, fd, start, size) ==
  /\ id \notin live /\ given(fd)
  /\ LET max    == CreateFileMapping(FileOf(fd), size)
         extent == MapViewOfFile(max, start, size)
     IN  IF fd = INVALID_HANDLE_VALUE THEN refused("EBADF") /\ release(fd) /\ UNCHANGED flen
         ELSE \/ refused("OsError") /\ release(fd) /\ UNCHANGED flen
              \/ /\ max > 0
                 /\ flen' = IF flen[FileOf(fd)] < max
                            THEN [flen EXCEPT ![FileOf(fd)] = max] ELSE flen
                 /\ \/ refused("OsError") /\ release(fd)
                    \/ /\ extent # None
                       /\ \E addr \in FreeRuns(extent) :
                            /\ space' = Mapped(id, addr, extent)
                            /\ constructed(id, Region(addr, size, fd, start, TRUE,
                                                      FileOf(fd), extent))
                       /\ UNCHANGED <<opened, strong>>

\* Mutation of DropRegion: VirtualFree is given the size of the region.
DropRegion_sized(id) ==
  /\ id \in live
  /\ space' = [p \in Pages |-> IF space[p] # id THEN space[p]
                               ELSE IF VirtualFree(id, region[id].size) THEN Free ELSE Leaked]
  /\ live' = live \ {id} /\ region' = [region EXCEPT ![id] = NoRegion]
  /\ release(region[id].fd)
  /\ UNCHANGED <<flen, offsets, out>>

\* drop: whatever VirtualFree answers, the object is gone, and its FileOffset.
DropRegion(id) ==
  /\ id \in live
  /\ space' = [p \in Pages |-> IF space[p] # id THEN space[p]
                               ELSE IF VirtualFree(id, 0) THEN Free ELSE Leaked]
  /\ live' = live \ {id} /\ region' = [region EXCEPT ![id] = NoRegion]
  /\ release(region[id].fd)
  /\ UNCHANGED <<flen, offsets, out>>

WindowsStep ==
  \/ FileStep
  \/ \E id \in Ids, size \in Sizes :
       \/ New(id, size)
       \/ \E fd \in Fds, start \in Offsets : FromFile(id, fd, start, size)
  \/ \E id \in Ids : DropRegion(id)

WNext ==
  \/ os = "unix" /\ Next /\ UNCHANGED os
  \/ os = "windows" /\ WindowsStep /\ UNCHANGED os

WSpec == WInit /\ [][WNext]_wvars

----------------------------------------------------------------------------
(* Properties                                                              *)

\* fds_overlap is there on unix only: what FdsOverlapExact in module MmapRegion
\* says of it (mmap_unix.rs).
UnixFdsOverlapExact == os = "unix" => FdsOverlapExact

\* When an object goes, its pages are free again (mmap_unix.rs and
\* mmap_windows.rs, drop), but for one case: on windows, the view of a file
\* stays mapped, since VirtualFree only takes back what VirtualAlloc gave, and
\* those pages are lost for good.
OnlyViewsLeak ==
  [][\A p \in Pages :
       /\ space[p] \in Ids \ live'
            => space'[p] = IF os = "windows" /\ region[space[p]].file # NoFile
                           THEN Leaked ELSE Free
       /\ space[p] = Leaked => space'[p] = Leaked]_wvars
=============================================================================
