-------------------------- MODULE GuestMemoryMmap --------------------------
(***************************************************************************)
(* The life of a memory map (src/src/mmap.rs): it starts empty or is built *)
(* from ranges, and every insert_region or remove_region that succeeds     *)
(* gives the map the caller goes on with.  A call that fails leaves the    *)
(* caller with the map it had.                                             *)
(***************************************************************************)
EXTENDS GuestRegions, FiniteSets

CONSTANTS
  Bases,      \* guest addresses the caller uses
  Sizes,      \* sizes the caller asks MmapRegion::new to map
  RawSizes,   \* sizes of mappings handed over with MmapRegion::build_raw
  MaxRanges   \* bound: length of the list given to from_ranges

ASSUME BasesAssumption == Bases \subseteq Raw
ASSUME SizesAssumption == Sizes \subseteq Raw /\ RawSizes \subseteq Raw
ASSUME MaxRangesAssumption == MaxRanges \in Nat

VARIABLES
  regions,    \* the region vector of the caller's map
  call,       \* the last call: its name and the ranges it was given
  out         \* what it returned: "Ok" or the error

vars == <<regions, call, out>>

RangeArg == [base : Bases, size : Sizes \cup RawSizes]

NoCall == [op |-> "new", args |-> << >>]

\* MmapRegion::new: mmap(2) refuses an empty mapping.
mmap_new(size) ==
  IF size = 0 THEN Err("MmapRegion") ELSE Ok([size |-> size, host |-> 0])

\* MmapRegion::build_raw: no call to mmap, and 0 is a multiple of the page size.
build_raw(size) == Ok([size |-> size, host |-> 0])

\* The closure that from_ranges_with_files maps over the ranges.
make_region(mapping, base) ==
  IF mapping.tag = "Err" THEN mapping ELSE new_region(mapping.val, base)

\* collect() stops at the first range that fails.
from_ranges(ranges) ==
  LET made == [i \in DOMAIN ranges |->
                 make_region(mmap_new(ranges[i].size), ranges[i].base)]
      Bad  == {i \in DOMAIN ranges : made[i].tag = "Err"}
  IN  IF Bad # {} THEN made[CHOOSE i \in Bad : \A j \in Bad : i <= j]
      ELSE from_arc_regions([i \in DOMAIN ranges |-> made[i].val])

Init == regions = << >> /\ call = NoCall /\ out = "Ok"

FromRanges(ranges) ==
  LET res == from_ranges(ranges)
  IN  /\ call = NoCall
      /\ call' = [op |-> "from_ranges", args |-> ranges]
      /\ out' = IF res.tag = "Ok" THEN "Ok" ELSE res.val
      /\ regions' = IF res.tag = "Ok" THEN res.val ELSE regions

\* The caller maps a region, or wraps a raw mapping, and inserts it.
InsertRegion(base, size, mapping) ==
  LET made == make_region(mapping, base)
      res  == IF made.tag = "Err" THEN made ELSE insert_region(regions, made.val)
  IN  /\ call' = [op |-> "insert", args |-> <<[base |-> base, size |-> size]>>]
      /\ out' = IF res.tag = "Ok" THEN "Ok" ELSE res.val
      /\ regions' = IF res.tag = "Ok" THEN res.val ELSE regions

RemoveRegion(base, size) ==
  \E res \in remove_region(regions, base, size) :
    /\ call' = [op |-> "remove", args |-> <<[base |-> base, size |-> size]>>]
    /\ out' = IF res.tag = "Ok" THEN "Ok" ELSE res.val
    /\ regions' = IF res.tag = "Ok" THEN res.val.regions ELSE regions

Next ==
  \/ \E n \in 0 .. MaxRanges : \E ranges \in [1 .. n -> [base : Bases, size : Sizes]] :
       FromRanges(ranges)
  \/ \E base \in Bases, size \in Sizes : InsertRegion(base, size, mmap_new(size))
  \/ \E base \in Bases, size \in RawSizes : InsertRegion(base, size, build_raw(size))
  \/ \E base \in Bases, size \in Sizes : RemoveRegion(base, size)

Spec == Init /\ [][Next]_vars
----------------------------------------------------------------------------
\* The guest addresses some region of the vector holds.
Covered(rs) == UNION {AddrsOf(rs[i]) : i \in 1 .. Len(rs)}

\* Every region of the map is one that GuestRegionMmap::new lets through.
TypeOK ==
  /\ regions \in Seq(GuestRegion)
  /\ \A i \in 1 .. Len(regions) : regions[i].start + regions[i].size \in Raw
  /\ call.op \in {"new", "from_ranges", "insert", "remove"}
  /\ call.args \in Seq(RangeArg)

\* The regions of every map that the constructors, insert_region and
\* remove_region (mmap.rs) hand out are in address order and no two of them
\* share an address, although from_arc_regions only compares neighbours.
SortedDisjoint ==
  \A i, j \in 1 .. Len(regions) :
    i < j => regions[i].start + regions[i].size <= regions[j].start

\* The queries on a map agree with the addresses it covers.  find_region
\* (mmap.rs), a binary search on start addresses followed by one comparison,
\* finds the region that holds an address and nothing in the holes, below the
\* first region and above the last; a walk over all regions with with_regions
\* (guest_memory.rs) that asks each of them for the address ends at the same
\* one.  On top of it (guest_memory.rs), last_addr is the largest address
\* covered, get_host_address has a pointer for the addresses covered and for no
\* other, and checked_offset accepts a base and an offset exactly when their
\* sum is covered, wherever the base is; that of a region does so within the
\* region.  The sum of len() that the example of map_and_fold takes counts every
\* address covered once.
QueriesExact ==
  /\ \A addr \in Raw :
       LET Holding == {i \in 1 .. Len(regions) : addr \in AddrsOf(regions[i])}
           ask == [i \in DOMAIN regions |->
                     IF to_region_addr(regions[i], addr) = None THEN Ok(0) ELSE Err(i)]
       IN  /\ find_regions(regions, addr) = IF Holding = {} THEN {None} ELSE Holding
           /\ with_regions(regions, ask) = IF Holding = {} THEN Ok(Len(regions))
                                          ELSE Err(find_region(regions, addr))
           /\ get_host_address(regions, addr).tag = "Ok" <=> Holding # {}
  /\ LET len == [i \in DOMAIN regions |-> regions[i].size]
         add == [acc \in Int |-> [size \in Int |-> acc + size]]
     IN  map_and_fold(regions, 0, len, add) = Cardinality(Covered(regions))
  /\ memory_last_addr(regions) \in Covered(regions) \cup {0}
  /\ \A addr \in Covered(regions) : addr <= memory_last_addr(regions)
  /\ \A base, offset \in Raw :
       /\ memory_checked_offset(regions, base, offset) =
            IF base + offset \in Covered(regions) THEN base + offset ELSE None
       /\ \A i \in 1 .. Len(regions) :
            region_checked_offset(regions[i], base, offset) # None
              <=> regions[i].start + base + offset \in AddrsOf(regions[i])

\* insert_region (mmap.rs) refuses a region exactly when it shares an address
\* with the map; otherwise the new map holds the old addresses and the new
\* ones.  It never reports the vector as unsorted.
InsertExact ==
  [][LET arg == call'.args[1]
         new == AddrsOf([start |-> arg.base, size |-> arg.size])
     IN  call'.op = "insert" /\ out' \notin {"MmapRegion", "InvalidGuestRegion"}
           => IF new \cap Covered(regions) = {}
              THEN out' = "Ok" /\ Covered(regions') = Covered(regions) \cup new
              ELSE out' = "MemoryRegionOverlap"]_vars

\* remove_region (mmap.rs) succeeds exactly when the map has a region with
\* that base and that size, and takes those addresses and no other out of it.
RemoveExact ==
  [][LET arg == call'.args[1]
         old == AddrsOf([start |-> arg.base, size |-> arg.size])
         Has == \E i \in 1 .. Len(regions) :
                  regions[i].start = arg.base /\ regions[i].size = arg.size
     IN  call'.op = "remove"
           => /\ out' = (IF Has THEN "Ok" ELSE "InvalidGuestRegion")
              /\ Covered(regions') = Covered(regions) \ (IF Has THEN old ELSE {})]_vars

\* from_ranges (mmap.rs) accepts a list exactly when it is not empty, no range
\* is empty or runs past the last guest address, and the ranges are in order
\* and pairwise disjoint.
FromRangesExact ==
  [][LET r == call'.args
     IN  call'.op = "from_ranges"
           => (out' = "Ok" <=>
                 /\ r # << >>
                 /\ \A i \in DOMAIN r : r[i].size > 0 /\ r[i].base + r[i].size < AddrSpace
                 /\ \A i, j \in DOMAIN r : i < j => r[i].base + r[i].size <= r[j].base)]_vars

\* The comment in last_addr (guest_memory.rs): "unchecked_add is safe as the
\* region bounds were checked when it was created", that is, neither plain
\* operation of last_addr leaves the range of the raw values.
LastAddrSafe ==
  \A i \in 1 .. Len(regions) :
    /\ regions[i].size - 1 \in Raw
    /\ regions[i].start + (regions[i].size - 1) \in Raw
=============================================================================
