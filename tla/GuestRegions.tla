---------------------------- MODULE GuestRegions ----------------------------
(***************************************************************************)
(* The values the memory map is made of: GuestRegionMmap regions and the   *)
(* region vector of a GuestMemoryMmap, with the pure operations on them    *)
(* (src/src/mmap.rs, and the provided methods of the GuestMemoryRegion and *)
(* GuestMemory traits in src/src/guest_memory.rs).                         *)
(*                                                                         *)
(* A region is a record [start, size, host]: its guest base address, the   *)
(* size of its mapping and the address of the mapping in the process that  *)
(* holds the memory.  A GuestMemoryMmap is the sequence of its regions.    *)
(***************************************************************************)
EXTENDS Address, Sequences, FiniteSetsExt

----------------------------------------------------------------------------
(* One region                                                              *)

GuestRegion == [start : Raw, size : Raw, host : Nat]

\* Mutation of new_region: the end of the region is not checked.
new_region_unchecked(mapping, guest_base) ==
  Ok([start |-> guest_base, size |-> mapping.size, host |-> mapping.host])

\* GuestRegionMmap::new: the end of the region must be a guest address.
new_region(mapping, guest_base) ==
  IF checked_add(guest_base, mapping.size) = None
  THEN Err("InvalidGuestRegion")
  ELSE Ok([start |-> guest_base, size |-> mapping.size, host |-> mapping.host])

\* start_addr().unchecked_add(len() - 1); both operations are plain.
last_addr(r) ==
  LET last == unchecked_sub(r.size, 1)
  IN  IF last = Panic THEN Panic ELSE unchecked_add(r.start, last)

address_in_range(r, addr) == addr < r.size

check_address(r, addr) == IF address_in_range(r, addr) THEN addr ELSE None

to_region_addr(r, addr) ==
  LET offset == checked_offset_from(addr, r.start)
  IN  IF offset = None THEN None ELSE check_address(r, offset)

\* GuestMemoryRegion::checked_offset.
region_checked_offset(r, base, offset) ==
  LET addr == checked_add(base, offset)
  IN  IF addr = None THEN None ELSE check_address(r, addr)

\* GuestRegionMmap::get_host_address.
region_host_address(r, addr) ==
  IF check_address(r, addr) = None THEN Err("InvalidBackendAddress") ELSE Ok(r.host + addr)

\* The guest addresses of a region.
AddrsOf(r) == r.start .. r.start + r.size - 1

----------------------------------------------------------------------------
(* The region vector                                                       *)

\* Mutation of check_window: > for >=.
check_window_lax(prev, next) ==
  IF prev.start > next.start THEN "UnsortedMemoryRegions"
  ELSE IF last_addr(prev) > next.start THEN "MemoryRegionOverlap" ELSE "Ok"

\* The test of one window (prev, next) of the vector, in the code's order.
check_window(prev, next) ==
  IF prev.start > next.start THEN "UnsortedMemoryRegions"
  ELSE IF last_addr(prev) = Panic THEN "Panic"
  ELSE IF last_addr(prev) >= next.start THEN "MemoryRegionOverlap"
  ELSE "Ok"

\* Mutation of from_arc_regions: the last window is left out.
from_arc_regions_short(regions) ==
  LET Bad == {i \in 1 .. Len(regions) - 2 :
                check_window(regions[i], regions[i + 1]) # "Ok"}
  IN  IF regions = << >> THEN Err("NoMemoryRegion")
      ELSE IF Bad = {} THEN Ok(regions) ELSE Err("MemoryRegionOverlap")

\* from_arc_regions: the first bad window decides the error.
from_arc_regions(regions) ==
  LET Bad == {i \in 1 .. Len(regions) - 1 :
                check_window(regions[i], regions[i + 1]) # "Ok"}
  IN  IF regions = << >> THEN Err("NoMemoryRegion")
      ELSE IF Bad = {} THEN Ok(regions)
      ELSE LET first == CHOOSE i \in Bad : \A j \in Bad : i <= j
           IN  Err(check_window(regions[first], regions[first + 1]))

\* In a sorted vector, the number of regions that start at or below addr.
UpperBound(regions, addr) ==
  CHOOSE x \in 0 .. Len(regions) :
    /\ \A i \in 1 .. x : regions[i].start <= addr
    /\ \A i \in x + 1 .. Len(regions) : regions[i].start > addr

\* Mutation of push_and_sort: the vector is not sorted.
push_only(regions, region) == Append(regions, region)

\* Vec::push followed by the stable sort_by_key on the start address: the
\* vector was sorted, so the new region goes behind those that do not start
\* after it.
push_and_sort(regions, region) ==
  LET x == UpperBound(regions, region.start)
  IN  SubSeq(regions, 1, x) \o <<region>> \o SubSeq(regions, x + 1, Len(regions))

insert_region(regions, region) == from_arc_regions(push_and_sort(regions, region))

\* Where binary_search_by_key may report a hit: with equal keys, any of them.
Hits(regions, addr) == {i \in 1 .. Len(regions) : regions[i].start = addr}

\* Mutation of remove_at: the size is not compared.
remove_at_any_size(regions, i, size) ==
  Ok([regions |-> SubSeq(regions, 1, i - 1) \o SubSeq(regions, i + 1, Len(regions)),
      removed |-> regions[i]])

remove_at(regions, i, size) ==
  IF regions[i].size = size
  THEN Ok([regions |-> SubSeq(regions, 1, i - 1)
                         \o SubSeq(regions, i + 1, Len(regions)),
           removed |-> regions[i]])
  ELSE Err("InvalidGuestRegion")

\* The possible results of remove_region.
remove_region(regions, base, size) ==
  IF Hits(regions, base) = {} THEN {Err("InvalidGuestRegion")}
  ELSE {remove_at(regions, i, size) : i \in Hits(regions, base)}

\* Mutation of find_regions: < for <=.
find_regions_short(regions, addr) ==
  LET x == UpperBound(regions, addr)
  IN  IF Hits(regions, addr) # {} THEN Hits(regions, addr)
      ELSE IF x = 0 THEN {None}
      ELSE IF addr < last_addr(regions[x]) THEN {x} ELSE {None}

\* The possible results of find_region: an index, None or Panic.
find_regions(regions, addr) ==
  LET x == UpperBound(regions, addr)
  IN  IF Hits(regions, addr) # {} THEN Hits(regions, addr)
      ELSE IF x = 0 THEN {None}
      ELSE IF last_addr(regions[x]) = Panic THEN {Panic}
      ELSE IF addr <= last_addr(regions[x]) THEN {x} ELSE {None}

\* The starts of a map's regions differ unless one of them is empty, and then
\* there is only one result.
find_region(regions, addr) == CHOOSE i \in find_regions(regions, addr) : TRUE

\* with_regions and with_regions_mut: the callback on one region after the
\* other, until it fails; cb[i] is what it returns for region i, and Ok holds
\* the number of regions visited.
with_regions(regions, cb) ==
  LET Bad == {i \in DOMAIN regions : cb[i].tag = "Err"}
  IN  IF Bad = {} THEN Ok(Len(regions)) ELSE cb[Min(Bad)]

\* iter() over the vector, mapf (as above) on every region, and a left fold of the
\* results: what the last region gives is folded in last.
map_and_fold(regions, init, mapf, foldf) ==
  MapThenFoldSet(LAMBDA x, acc : foldf[acc][x], init,
                 LAMBDA i : mapf[i], LAMBDA S : Max(S), DOMAIN regions)

\* GuestMemory::last_addr: the largest last address, or 0 for an empty map.
memory_last_addr(regions) ==
  map_and_fold(regions, 0, [i \in DOMAIN regions |-> last_addr(regions[i])],
               [a \in Int |-> [b \in Int |-> IF a <= b THEN b ELSE a]])

\* GuestMemory::to_region_addr: the region and the address in it; unwrap()
\* panics when the region found does not have the address after all.
memory_to_region_addr(regions, addr) ==
  LET i == find_region(regions, addr)
  IN  IF i = None THEN Err("InvalidGuestAddress")
      ELSE IF i = Panic \/ to_region_addr(regions[i], addr) = None THEN Err("Panic")
      ELSE Ok([region |-> i, addr |-> to_region_addr(regions[i], addr)])

\* GuestMemory::address_in_range, check_address and checked_offset.
memory_check_address(regions, addr) ==
  LET i == find_region(regions, addr) IN IF i \in {None, Panic} THEN i ELSE addr

memory_checked_offset(regions, base, offset) ==
  LET addr == checked_add(base, offset)
  IN  IF addr = None THEN None ELSE memory_check_address(regions, addr)

\* GuestMemory::get_host_address: the region, then its own get_host_address.
get_host_address(regions, addr) ==
  LET at == memory_to_region_addr(regions, addr)
  IN  IF at.tag = "Err" THEN at ELSE region_host_address(regions[at.val.region], at.val.addr)
=============================================================================
