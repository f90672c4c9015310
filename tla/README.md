# A TLA+ model of vm-memory

This directory specifies the `vm-memory` crate in `src/src/`: how a virtual
machine monitor sees the physical memory of a guest. In this fork the memory
belongs to *another process*. `GuestRegionMmap` reaches it with
`process_vm_readv` and `process_vm_writev` and never dereferences its own
mapping.

`PROJECT.json` lists the components, the TLC runs, the theorems, the source
lines behind every definition, the hazards and the findings.

## 1. Inventory

| Part | Source | State | Operations | What is hard about it |
|---|---|---|---|---|
| Address arithmetic | `address.rs` | none | checked, overflowing and plain `+`/`-`, alignment, mask, bit operators | the ends of the 64-bit range; plain operations panic or wrap, depending on the build |
| Endian types, byte order | `endian.rs`, `bytes.rs` | none | conversions, comparisons with native values, `write_obj`, `read_obj` | two comparisons that convert different sides, on hosts of either order |
| Regions and the memory map | `mmap.rs`, `guest_memory.rs` | a vector of regions | `from_ranges`, `insert_region`, `remove_region`, `find_region`, queries | only neighbours are compared; binary search; last byte of a region, holes, top of the address space |
| Accesses | `guest_memory.rs` (`try_access`, `Bytes<GuestAddress>`), `mmap.rs` | `cur`, `total`, the bounce buffer | `write`, `read`, `*_slice`, `read_from`, `write_to`, `read_exact_from`, `write_all_to`, `check_range`, `to_region_addr` and the operations of one region | several regions, chunks, short and interrupted I/O, pages that vanish half way |
| Remote words | `remote_mem.rs`, `mmap.rs` | a word read and not yet written back | `store`, `load` | a read-modify-write in two system calls |
| Atomic map | `atomic.rs` | the `ArcSwap`, guards, a mutex | `memory`, `clone`, `lock`, `replace`, drops | readers on old maps, lost updates, poisoning, reference counts |
| Regions that come and go | `atomic.rs`, `mmap.rs`, `mmap_unix.rs` together | one `Arc` per region and map | the above, with `insert_region` and `remove_region` as updates | a mapping must live as long as any old map reaches it, and no longer |
| Mappings | `mmap_unix.rs`, `mmap_windows.rs`, `mmap.rs` | pages, ownership | `new`, `from_file`, `build`, `build_raw`, drop, `fds_overlap` | who unmaps what; offsets near the end of the range; file length |
| Open files | `guest_memory.rs` (`FileOffset`) | an `Arc<File>` | `new`, `clone`, drop | a descriptor that is closed names another file later |
| Volatile views | `volatile_memory.rs`, `bytes.rs` | a pointer and a size | `get_slice`, `offset`, `split_at`, `get_ref`, `get_array_ref`, `from_slice`, ... and accesses | any chain of derivations; overflow; element and byte counts mixed |
| Volatile copy | `volatile_memory.rs` (`copy_slice`), `atomic_integer.rs` | two pointers, bytes left | the copy loop, an atomic load | a concurrent reader must not see half a value |

How the parts interact: a `GuestMemoryAtomic` holds a `GuestMemoryMmap`; a
reader takes a guard and accesses memory through it with `try_access`, which
finds the region and calls its byte operations; those compute a pointer into
the mapping (`MmapRegion`) and hand it to `remote_mem`. An updater locks,
derives a new map with `insert_region` or `remove_region`, and replaces the old
one, which lives on under the guards that hold it. A region's mapping goes with
the last map, guard or caller that has its `Arc`.

## 2. Modules

| Module | Models | Extends |
|---|---|---|
| `Address` | the arithmetic of `address.rs`, at a width given by `AddrSpace` | |
| `RawValue` | bits and bytes of a raw value: `mask`, `&`, `\|`, `endian.rs`, `ByteValued` of an integer | `Address` |
| `AddressAlgebra` | all pairs of raw values, for checking the arithmetic | `Address` |
| `RawValueAlgebra` | the same for alignment, bits and bytes | `AddressAlgebra`, `RawValue` |
| `GuestRegions` | regions, the region vector and the pure operations on them | `Address` |
| `GuestMemoryMmap` | the life of a map under constructors, inserts and removes | `GuestRegions` |
| `GuestMemory` | one access through `Bytes<GuestAddress>`, or to one region | `GuestRegions` |
| `RemoteMem` | concurrent `store` and `load` | `GuestRegions` |
| `SnapshotMap` | abstract: one current map, indivisible updates, stable snapshots | |
| `GuestMemoryAtomic` | `atomic.rs` in detail; implements `SnapshotMap` | |
| `Hotplug` | composition: `GuestMemoryAtomic`, the region `Arc`s of `GuestMemoryMmap`, the drop of `MmapRegion` | `GuestMemoryAtomic` |
| `MmapRegion` | mappings, their owners, and the open files behind them, on unix | `Address` |
| `MmapRegionWindows` | the same for either target | `MmapRegion` |
| `VolatileSlice` | views and the bounds of accesses | `Address` |
| `VolatileCopy` | `copy_slice` with a concurrent reader | |
| `*Proofs` | the theorems about the module they are named after (`HotplugProofs`: `GuestMemoryAtomic` too; `RawValueProofs`: `Address` and `RawValueAlgebra`; `VolatileMemoryProofs`: `VolatileSlice` and `VolatileCopy`) | that module |

`MC*` modules give the constants their values. (`MCRawValueAlgebra` also
compares `bitand` and `bitor` with the bit operators of the community module
`Bitwise`, which no module with a proof can use.) Definitions have the names of
the functions they model. A definition `X_suffix` with the comment "Mutation of
X" is a plausible mistake in `X`; no specification uses it. It is there to show
that the property it is paired with (in `PROJECT.json`) would notice.

### State and actions against the code

* **RawValue.** Pure operators. Bits and bytes are the digits of a number in
  base 2 and in base `ByteSpace`; `&` and `|` give the value whose bits are the
  conjunction or disjunction of those of their operands. The i-th byte of an integer depends on the
  host's order; `write_obj` puts the bytes into memory and `read_obj` takes
  them out. The endian types are wrapped native integers that `from` and
  `to_native` swap where the host's order differs. `RawValueAlgebra` steps
  through all operands.
* **GuestMemoryMmap.** `regions` is `GuestMemoryMmap::regions`. The operations
  return new maps; the model is a caller that goes on with the map it gets and
  keeps the old one on an error. `binary_search_by_key` may report any of
  several equal keys, which is a choice in the model.
* **GuestMemory.** One call. `Iterate` is the head of the loop in `try_access`,
  `advance` what follows the callback, and each callback is an action; those
  that use a stream and the region take two steps (`ReadFromSrc` then
  `PutToRegion`, `GetFromRegion` then `SinkAll`), so that the other process can
  unmap a page in between (`Unmap`). Streams may also fail. Requests with
  `slice = TRUE` are made to a region type whose `as_slice` gives a slice, the
  other branch of the callbacks; `GuestRegionMmap` never takes it. The
  `region_*` kinds are calls on the region that `to_region_addr` gave out; those
  that are `unimplemented!()` panic. The i-th byte of the source is the number i.
* **RemoteMem.** `Call` is everything before the first system call, including
  the assertions; `StoreRead` and `StoreWrite` are the two system calls of
  `process_store`. As the comment on `ALG` assumes, one system call moves one
  aligned word in one piece.
* **GuestMemoryAtomic.** Map objects live in reference-counted slots and a slot
  is reused once its count is zero. One step each: load, clone, drop, waiting
  for and getting the mutex, recovering from poison, reading the current map,
  building the new one, storing it, and leaving. A panic in the critical
  section unlocks and poisons.
* **Hotplug.** Each action of `GuestMemoryAtomic` together with what it does to
  the regions. `refs` counts each region's `Arc`s: the vector of every live map
  object has one, the map an updater is building has one, and the caller of
  `remove_region` has the one it returned (`loose`). The last one unmaps. A map
  is the set of its regions here; its order is the matter of `GuestMemoryMmap`.
* **MmapRegion.** `space` says whose mapping each page is. Files change their
  length at any time; `mmap` picks any free run of pages, or fails. `opened` and
  `strong` are the open files and the counts of their `Arc<File>`; a descriptor
  is free for another file once the count is zero. A constructor takes over one
  `FileOffset`, and an error drops it.
* **MmapRegionWindows.** `os` is the target, chosen once. The part of the file
  descriptors is played by handles. `VirtualAlloc`, `CreateFileMappingA`,
  `MapViewOfFile` and `VirtualFree` are external: a mapping object as long as
  the region, a view of it, and a release that works for allocations only.
* **VolatileSlice.** The caller applies any sequence of derivations to a view,
  starting with bytes, a mapping or an object, and makes accesses; only which
  bytes are touched is kept.
* **VolatileCopy.** `new` is the set of bytes a concurrent reader already sees
  changed. One volatile access changes its bytes at once; `memcpy` copies byte
  by byte in any order.

## 3. Runs

| Run | States | Shows |
|---|---|---|
| `address_algebra` | 4,096 | `AlignUpExact`: least aligned address, or `None` exactly when there is none, also when written with the bit operators. `ArithmeticAgrees`: the families of operations agree. `EndianExact`: a value of an endian type lies in memory in its own order and compares as its native value, whatever the host. |
| `memory_map` | 18,458 | `SortedDisjoint` in every reachable map; `QueriesExact` for every address; `InsertExact`, `RemoveExact`, `FromRangesExact`: each call accepts exactly what it should. |
| `atomic` (`MCHotplug`) | 598,628 | `StrongExact`, `MutualExclusion`, `BaseIsCurrent`, the refinement `Snapshots`, `LockProgress`, and `MappedWhileReachable`: exactly the regions somebody can reach are mapped. |
| `access` | 85,183 | `WrittenInPlace`, `ReadInPlace`, `NoStrayWrite`: bytes reported are the right bytes at the right addresses and no other byte changes. `ShortForAReason`, `CheckRangeExact`, `NoPanicWhileMapped`, `Terminates`. |
| `remote` | 203,376 | `StoreExact`, `LoadExact`, `ValueInRegion`, with one writer per word. |
| `volatile_slice` | 64,296 | `InsideBuffer`, `AccessInside`, `DeriveExact`, `AccessExact`. |
| `volatile_copy` | 100,669 | `NotTorn`, `AlignedAndInside`, `CopiesAll`, `Returns`. |
| `mmap_region` | 342,030 | `MappingsMatchObjects`, `FdNamesItsFile`, `UnixFdsOverlapExact`, `InsideFileWhenMade`, `OnlyViewsLeak`, on unix and on windows. |
| `memory_map_zero`, `access_spanning`, `access_panic`, `remote_aligned` | | counterexamples, see section 6 |

Two groups of properties carry a condition that the code needs:

* `WrittenInPlace`, `NoStrayWrite`, `ReadInPlace`, `ShortForAReason` and
  `NoPanicWhileMapped` hold for `write` and `read` only within one region
  (`KeepsToLen`): their callbacks ignore the length `try_access` gives them.
  The stream operations need no such condition.
* `StoreExact` is checked for requests in which each word has one writer, the
  discipline that the comment on `ALG` describes. Without it the property
  fails: two threads read the same word, and the second write-back undoes the
  first store.

### Bounds, and why they are enough

* Addresses: 6 raw values for the map (every base, sizes 0 to 3, lists of up to
  3 ranges), 12 for accesses, 8 and 16 for mappings and views, 64 for the
  algebra (six bits, or three bytes of four values each, so that reversing the
  bytes differs from swapping neighbours). Each includes the top of the range,
  where additions overflow. With three regions there are non-neighbours, which
  `from_arc_regions` does not compare.
* Accesses: two regions that touch in the guest and are swapped in the host,
  two with a hole, and one at the top; requests reach over two regions, four
  chunks and past the end. Pages have 2 bytes, so pages, chunks and regions end
  at different places. One page is unmapped and one call interrupted per access
  (`MaxUnmaps`, `MaxInterrupts`); the source has 5 bytes, fewer than the longest
  request.
* Hotplug: two threads and two guards on top of the cell's reference, two
  regions that come and go and come again. Three heap slots suffice: when a
  thread replaces the map, one guard at most is on an older one. Slots are
  reused. The caller keeps one `Arc` of a removed region at a time.
* Remote words: words of 4 bytes, two one-word regions swapped in the host and
  a word outside both. Requests include one that starts in a region and would
  end outside it.
* Views: a buffer of 7 bytes at an address aligned to 2 only, elements of 1, 2
  and 4 bytes, arguments around the size, and the two largest `usize` values.
* Copies: all alignments within a word of 8, lengths 0 to 9.
* Mappings: two objects, two files (one whose metadata cannot be read), two
  descriptors with two `FileOffset`s each at most (`MaxOffsets`), four pages,
  one of them external. On windows one of the handles is the invalid one.

`memory_map`, `access` and `remote` run with `OverflowChecks = TRUE` (a plain
`+` that overflows panics); `volatile_slice` and `mmap_region` run without them,
so that a wrapped result would be used. The proofs cover both.

## 4. Fairness

* `GuestMemory!FairSpec`: the calling thread is scheduled. Interruptions are
  bounded: the code retries for ever, and without a bound on signals it need not
  return.
* `Hotplug!HFairSpec` (and `GuestMemoryAtomic!Fairness`): a free mutex goes to
  *some* waiting thread (`std::sync::Mutex` promises no more; starvation of one
  thread is possible and `LockProgress` does not exclude it), and a critical
  section is left in the end. A guard that is never dropped would block every
  updater.
* `VolatileCopy!CopySpec`: the copying thread is scheduled.

## 5. What is proved

Eight modules hold theorems, for every value of the constants that satisfies the
assumptions named in the modules. Each rests on an inductive invariant.

**`RawValueProofs`**, for any width and both build modes: `ArithmeticExact`
(`ArithmeticAgrees`), `AlignmentExact` (`AlignUpExact`) and `ByteOrderExact`
(`EndianExact`). `BitsAssumption` and `ByteAssumption` only say that the raw values
are those of `Bits` bits, and of `ValueSize` bytes. The argument is about digits in
any base: digit `i + 1` of `x` is digit `i` of `x \div b`, a number below the n-th
power of the base is determined by its n lowest digits (`DigitsDetermine`), and
any n digits are those of such a number (`DigitsExist`). So `&`, `|` and `read_obj`,
which choose the value with given digits, choose the only one (`BitandIs`,
`BitorIs`, `ReadIs`). A power of two has a single bit, its mask the bits below it
(`MaskIs`), and a number shares no bit with its predecessor exactly when it is a
power of two (`PowerOfTwoIs`, `LowestBit`). The sum in `checked_align_up` overflows
exactly when the multiple above the address is no address, because a power of two
divides the number of addresses (`AlignsUp`). Swapping the bytes twice gives the value
back (`SwapIs`, `BackIs`). The inductions need no operator parameter: `NatInduct` is
about a *set* of naturals that has 0 and the successor of each of its elements, and
follows from the well-foundedness of `<`. `PowersExist` builds the function of powers
the same way, from its finite approximations.

**`GuestRegionsProofs`**, for any width and both build modes, holds the facts about
region vectors that serve three of the modules below: `WindowsSuffice` (comparing
neighbours orders the whole vector; by a least counterexample, with
`WellFoundedInduction`), `UpperBoundIs` and `LookupIs` (what the binary search
finds), and `FoldIs`. The latter says what a fold over a vector gives, without
induction over an operator: two functions on the prefixes of the vector that
both satisfy the equation of the fold are equal, since there is no least prefix
where they differ, so it is enough to name one that does.

**`HotplugProofs`**, first about `GuestMemoryAtomic`, for any threads, heap slots
and maps and any finite set of guards: `TypeCorrect`, `CountsCorrect`
(`StrongExact`), `UpdatesExclusive` (`MutualExclusion`), `NoUpdateLost`
(`BaseIsCurrent`) and `SnapshotsImplemented`, the refinement of `SnapshotMap`.
`IInv` adds `HandlesInv` to the properties: a thread in an update owns a handle,
and the cell holds an object as long as there is a handle. Without it, the drop of
the last handle could empty the cell under an updater. The other conjuncts need
each other: `StrongExact` shows that the slot `replace()` takes is neither the cell
nor under a guard, and `MutualExclusion` that nobody else stores between reading
and replacing. The refinement maps the cell and each guard to the map in its
object.

Then about `Hotplug`, for any set of regions and finite sets of threads and
slots: `HotplugIsAtomic` (`HSpec => Spec`: the composition is
`GuestMemoryAtomic`, so its theorems carry over, `SnapshotsUnderHotplug` among
them) and `RegionsMapped` (`MappedWhileReachable`). The invariant `RInv` says
what each count is: live map objects with the region, plus updaters building a
map with it, plus one if the caller has its `Arc`. That a live object is one
somebody can reach is `StrongExact` of the layer below.

**`GuestMemoryMmapProofs`**, for any width, bases, sizes and lengths of lists,
in both build modes: `TypeCorrect`, `MapsOrdered` (`SortedDisjoint`),
`ListsAccepted` (`FromRangesExact`) and `MapsAcceptedAgain`: every map that is not
empty would pass `from_arc_regions` again unchanged. `remove_region` does not repeat
that test; that what is left passes it is `CutWindowed`. The theorem is why
`GuestMemory` and `RemoteMem` may assume it of the maps they start with. The
invariant is that the vector is in order and disjoint *for all pairs*, and that
its neighbours pass the test. The lemmas say where the stable sort puts the
pushed region (`PushIs`) and what is left after a removal (`CutIs`).
`InsertionsExact`, `RemovalsExact` and `QueriesCorrect` (`QueriesExact`) assume
`0 \notin RawSizes`, that is, no empty mapping came from `build_raw`: an empty
region can share its base with another, and then the search by base may report
either. `QueriesCorrect` compares the folds with the number of addresses
(`SizesAdd`) and the last of them (`MemoryLastIs`) in each prefix of the vector.

**`GuestMemoryProofs`**, for any map, request, source, chunk size and page size,
however short reads, interruptions and pages that go away fall: `WritesLand`
(`WrittenInPlace`), `ReadsArrive` (`ReadInPlace`), `ShortWithReason`
(`ShortForAReason`), `WritesConfined` (`NoStrayWrite`), `RangeChecked`
(`CheckRangeExact`) and `PanicsExplained` (`NoPanicWhileMapped`), all with the
condition `KeepsToLen` that is part of the properties. `AccessRunsOut` has no such
condition: every step of the call decreases `Remaining`, a natural number made of
the bytes and interruptions left and the place in the loop, and `Unmap` does not
increase it. It is what `Terminates` says of the code; that a call which has not
returned has a next step is left to TLC. `AccessInv` says what the
loop has done at each of its points: the first `total` bytes are moved and no
others (`LoopInv`), the callback works on the region that holds `cur`
(`CallbackInv`), and the bounce buffer has the next bytes (`PutInv`, `SinkInv`).
The properties alone only speak of calls that have returned. `LayoutsAssumption`
is what the constructors give: a vector that `from_arc_regions` accepts, regions
that are not empty and that `GuestRegionMmap::new` lets through, and mappings that
do not overlap in the host. The last is why a later chunk leaves the bytes of an
earlier one alone (`BackingApart`).

**`RemoteMemProofs`**, for any word size, map, threads and requests:
`ValuesInRegion` (`ValueInRegion`), `LoadsExact` (`LoadExact`) and, for requests
that satisfy `OneWriterPerWord`, `StoresExact` (`StoreExact`). `StoresLand` is what is
left without that condition: a store that returns `Ok` has its whole value in
memory at that moment and changes no byte outside its word, so that a race between
two stores can lose other bytes of that word and nothing else. `CopyInv` says that
between the two system calls of a store the copied word is what memory should
become. `OneWriterPerWord` is what keeps it true while others run.
`MapAssumption` has mappings start and end on a word boundary, as pages do;
together with the assertions of `process_store` it keeps a value in the region of
its first byte, the only byte whose region the code looks up.

**`VolatileMemoryProofs`**, first about `VolatileSlice`, for any width, buffer, element sizes and arguments,
in both build modes: `TypeCorrect`, `ViewsInside` (`InsideBuffer`),
`AccessesInside` (`AccessInside`), and the two action properties
`DerivationsExact` (`DeriveExact`) and `AccessesExact` (`AccessExact`). The
invariant is that a view is inside the buffer and has the shape of its kind, and
that what was touched is inside the view. It is what makes the "exactly when"
true: in a view inside the buffer no sum of an offset and a count that fit can
overflow, and no array that fits is longer than an `isize`. `BufferAssumption` is
what Rust guarantees of the first object: it is not at address 0, does not reach
the end of the address space, and its size fits an `isize`.

Then about `VolatileCopy`, for both word sizes and any addresses and lengths:
`LoadsNotTorn` (`NotTorn`), `AccessesAligned` (`AlignedAndInside`),
`CopyComplete` (`CopiesAll`) and `CopyRunsOut`: until the return there is always a
step to take, and every step decreases the natural number `Remaining`. On the volatile path both pointers have advanced by
the same multiple of the width, the copied bytes are a prefix, and every wider
loop that the alignment allowed has left less than its width. The last conjunct
is why an aligned value is moved in one access: the loop as wide as the value
came before any narrower one.

**`MmapRegionProofs`**, for any number of pages, objects, descriptors and files,
on both targets: `MappingsCorrect` (`MappingsMatchObjects`),
`DescriptorsCorrect` (`FdNamesItsFile`), `OverlapCorrect`
(`UnixFdsOverlapExact`), `MadeInsideFile` (`InsideFileWhenMade`) and
`LeaksCorrect` (`OnlyViewsLeak`). The invariant counts the owners of each
`Arc<File>` (`CountInv`), so that a descriptor in use is open, hence names the
file that was mapped (`FileInv`); and keeps what the unix constructors checked
(`UnixInv`), which makes the sums in `fds_overlap` exact.

**Model-checked only.** Liveness (`Terminates`, `LockProgress`, `Returns`): fairness
is out of the prover's reach. Of `Returns` and `Terminates` the part that is about
the code, that no behaviour can go on for ever, is proved (`CopyRunsOut`,
`AccessRunsOut`). `LockProgress` has no such part: threads may update the map for
ever, and who gets the mutex is a matter of fairness only. That `bitand` and `bitor`
are the operators of `Bitwise` is evaluated for all values of six bits. All other
invariants and action properties of the passing runs are theorems.

## 6. Where the code and its documentation disagree

* `memory_map_zero`: `last_addr` subtracts 1 from the length of an empty region.
  The comment says that the bounds were checked; a zero-sized `build_raw`
  mapping passes the check.
* `access_spanning`: a `write` over the border of two regions goes to the memory
  behind the first mapping when that is mapped; `test_access_cross_boundary`
  expects it in the second region. (The tests in `mmap.rs` still call the
  constructors without a process id.)
* `access_panic`: `read_exact_from` panics when a chunk is written in part;
  `Bytes` documents an error.
* `remote_aligned`: `store` and `load` at a word-aligned address fail their
  assertion; `check_atomic_accesses` uses the start of a region.

Observed while modelling, without a run of their own:

* The example on `as_volatile_slice` (`guest_memory.rs`, 270–292) panics for
  `GuestRegionMmap`, whose `get_slice` is `unimplemented!()`; the model has it
  as a panic.
* On windows, `from_file` with a start other than 0 cannot succeed under the
  documented behaviour of the system calls: the mapping object is as long as the
  region, and the view would end behind it. With size 0 the whole file is
  mapped for a region of size 0. `drop` releases allocations only, and a view of
  a file stays mapped (`OnlyViewsLeak` states this as what the code does).
* The windows target does not build in this fork, since `remote_mem.rs` uses
  `process_vm_*`; its module stands for the code as written.

## 7. What is not modelled

* `lib.rs`: re-exports. Wording of errors, `From` conversions of errors,
  logging, iterators, `Debug`.
* Code behind `unimplemented!()`, in `get_slice` and the stream operations of
  `GuestRegionMmap`: the call panics, which is modelled; what follows is never
  reached.
* The hugetlbfs flag, and protection and mapping flags other than `MAP_FIXED`:
  they are stored or passed on and nothing in the crate depends on them.
* Memory orderings, of `AtomicInteger` too: `process_vm_*` is followed by a
  fence, and the models are sequentially consistent. The hazard pointers inside
  `ArcSwap` are a library; a load is one step.
* The position of a source after a failed `read_from`: bytes taken from it may
  be lost, and nothing is promised about them.
* The unit tests, more than half of `mmap.rs` and a third of
  `volatile_memory.rs`; some properties take from them what was meant.
