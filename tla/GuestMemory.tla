---------------------------- MODULE GuestMemory ----------------------------
(***************************************************************************)
(* One access to guest memory through the Bytes<GuestAddress> interface    *)
(* (src/src/guest_memory.rs): the loop of try_access over the regions, the *)
(* callbacks the operations give it, and the accesses of GuestRegionMmap   *)
(* (src/src/mmap.rs) to the memory of the process that holds the guest;    *)
(* also an access that the caller makes to one region, with the region and *)
(* the address in it that to_region_addr gave out.                         *)
(*                                                                         *)
(* That process runs on: it may unmap a page between any two steps.  The   *)
(* i-th byte of the caller's buffer, or of the stream it reads from, is    *)
(* the number i, so that bytes out of place can be told from bytes in      *)
(* place; Untouched(h) is what host byte h held before the call.           *)
(***************************************************************************)
EXTENDS GuestRegions, FiniteSets

CONSTANTS
  Layouts,           \* the memory maps to try
  HostSize,          \* host addresses are 0 .. HostSize - 1
  PageSize,
  Kinds,             \* operations to try
  Addrs, Counts,     \* their arguments
  MAX_ACCESS_CHUNK,
  SrcLen,            \* bytes in the source of a stream read
  SliceKinds,        \* those of them to try also on regions of a type that gives
                     \* its memory as a slice; GuestRegionMmap::as_slice gives None
  MaxInterrupts,     \* bound: interrupted system calls in one access
  MaxUnmaps          \* bound: pages the other process unmaps during one access

StreamIn  == {"read_from", "read_exact_from"}
StreamOut == {"write_to", "write_all_to"}
Writes    == {"write", "write_slice", "region_write", "region_write_slice"}
Reads     == {"read", "read_slice", "region_read", "region_read_slice"}
Exact     == {"write_slice", "read_slice", "read_exact_from", "write_all_to",
              "region_write_slice", "region_read_slice"}

\* Accesses to one region, and those of them that are still unimplemented!();
\* get_slice and as_volatile_slice end in the region's get_slice.
RegionBytes   == {"region_write", "region_read", "region_write_slice", "region_read_slice"}
Unimplemented == {"region_read_from", "region_read_exact_from", "region_write_to",
                  "region_write_all_to", "get_slice", "as_volatile_slice"}
RegionKinds   == RegionBytes \cup Unimplemented

\* Maps that from_arc_regions accepts.  Their regions come from MmapRegion
\* objects, each with a mapping of its own, and mmap makes no empty one.
ASSUME LayoutsAssumption ==
  \A m \in Layouts :
    /\ m \in Seq(GuestRegion) /\ from_arc_regions(m).tag = "Ok"
    /\ \A i \in 1 .. Len(m) :
         /\ m[i].size > 0 /\ m[i].start + m[i].size \in Raw
         /\ m[i].host + m[i].size <= HostSize
         /\ \A j \in 1 .. Len(m) : i < j => \/ m[i].host + m[i].size <= m[j].host
                                            \/ m[j].host + m[j].size <= m[i].host
ASSUME CountsAssumption == Addrs \subseteq Raw /\ Counts \subseteq Raw
ASSUME BoundsAssumption ==
  /\ HostSize \in Nat /\ SrcLen \in Nat /\ MaxInterrupts \in Nat /\ MaxUnmaps \in Nat
  /\ PageSize \in Nat \ {0} /\ MAX_ACCESS_CHUNK \in Nat \ {0}
  /\ SliceKinds \subseteq StreamIn \cup StreamOut

VARIABLES
  regions,     \* the memory map (it cannot change during the access)
  host,        \* the bytes of the process that holds the guest
  pages,       \* its mapped pages
  req,         \* the request: kind, addr, count, and whether as_slice() gives a slice
  pc,
  cur, total,  \* the local variables of try_access
  cb,          \* arguments of the callback: region index, start, len
  chunk,       \* bytes in the callback's bounce buffer
  src,         \* bytes taken from the caller's buffer or stream
  dst,         \* bytes delivered to the caller's buffer or stream
  interrupts,  \* interrupted system calls so far
  res          \* the result

vars == <<regions, host, pages, req, pc, cur, total, cb, chunk, src, dst, interrupts, res>>

Untouched(h) == 100 + h

AllPages == {h \div PageSize : h \in 0 .. HostSize - 1}

NoCb == [region |-> None, start |-> 0, len |-> 0]

min(a, b) == IF a <= b THEN a ELSE b

Init ==
  /\ regions \in Layouts
  /\ host = [h \in 0 .. HostSize - 1 |-> Untouched(h)]
  /\ pages = AllPages
  /\ req \in [kind : Kinds, addr : Addrs, count : Counts, slice : {FALSE}]
              \cup [kind : SliceKinds, addr : Addrs, count : Counts, slice : {TRUE}]
  /\ pc = "loop" /\ cur = req.addr /\ total = 0
  /\ cb = NoCb /\ chunk = << >> /\ src = 0 /\ dst = << >>
  /\ interrupts = 0 /\ res = Err("Running")

----------------------------------------------------------------------------
(* The other process and the system calls that reach into it               *)

Unmap(p) ==
  /\ pc # "done" /\ p \in pages /\ ~ req.slice
  /\ Cardinality(AllPages \ pages) < MaxUnmaps
  /\ pages' = pages \ {p}
  /\ UNCHANGED <<regions, host, req, pc, cur, total, cb, chunk, src, dst, interrupts, res>>

Present(h) == h \in DOMAIN host /\ h \div PageSize \in pages

\* How many of n bytes at ptr process_vm_readv/writev gets to: it stops at the
\* first page that is not mapped.
Reach(ptr, n) ==
  CHOOSE k \in 0 .. n : /\ \A j \in 0 .. k - 1 : Present(ptr + j)
                        /\ k < n => ~ Present(ptr + k)

\* process_write_bytes / process_read_bytes: the number of bytes moved, or the
\* error of the call when it could not move any.
process_bytes(ptr, n) ==
  IF n > 0 /\ Reach(ptr, n) = 0 THEN Err("RemoteMemError") ELSE Ok(Reach(ptr, n))

\* GuestRegionMmap::write and read of n bytes at offset start.
region_bytes(r, start, n) ==
  IF start >= r.size THEN Err("InvalidGuestAddress")
  ELSE process_bytes(r.host + start, n)

\* The host memory after the bytes of sequence s were written at ptr.
Stored(ptr, s) ==
  [h \in DOMAIN host |-> IF h - ptr + 1 \in 1 .. Len(s) THEN s[h - ptr + 1] ELSE host[h]]

\* The n bytes at ptr.
Loaded(ptr, n) == [i \in 1 .. n |-> host[ptr + i - 1]]

\* Bytes first+1 .. first+n of the caller's buffer or stream.
Given(first, n) == [i \in 1 .. n |-> first + i]

----------------------------------------------------------------------------
(* try_access                                                              *)

panic(why) == [tag |-> "Panic", val |-> why]

\* The call returns r; the *_slice, read_exact_from and write_all_to variants
\* turn a short count into an error, those of a region into one of their own.
finish(r) ==
  /\ pc' = "done"
  /\ res' = IF r.tag = "Ok" /\ req.kind \in Exact /\ r.val # req.count
            THEN Err(IF req.kind \in RegionKinds THEN "ByteCount" ELSE "PartialBuffer")
            ELSE r

\* Mutation of Iterate: cap does not take the start within the region into account.
Iterate_from_base ==
  /\ pc = "loop" /\ req.kind \notin RegionKinds
  /\ LET i == find_region(regions, cur)
     IN  IF i = None
         THEN /\ finish(IF total = 0 THEN Err("InvalidGuestAddress") ELSE Ok(total))
              /\ UNCHANGED cb
         ELSE /\ cb' = [region |-> i, start |-> to_region_addr(regions[i], cur),
                        len |-> min(regions[i].size, req.count - total)]
              /\ pc' = "callback" /\ UNCHANGED res
  /\ UNCHANGED <<regions, host, pages, req, cur, total, chunk, src, dst, interrupts>>

\* The head of the loop, up to the call of the callback.
Iterate ==
  /\ pc = "loop" /\ req.kind \notin RegionKinds
  /\ LET i == find_region(regions, cur)
     IN  IF i = None
         THEN /\ finish(IF total = 0 THEN Err("InvalidGuestAddress") ELSE Ok(total))
              /\ UNCHANGED cb
         ELSE LET start == to_region_addr(regions[i], cur)
                  cap   == regions[i].size - start
              IN  /\ cb' = [region |-> i, start |-> start,
                            len |-> min(cap, req.count - total)]
                  /\ pc' = "callback" /\ UNCHANGED res
  /\ UNCHANGED <<regions, host, pages, req, cur, total, chunk, src, dst, interrupts>>

\* Mutation of advance: cur stays where it is.
advance_in_place(n) ==
  IF n = 0 THEN finish(Ok(total)) /\ UNCHANGED <<cur, total>>
  ELSE /\ total' = total + n /\ UNCHANGED cur
       /\ IF total' = req.count THEN finish(Ok(total')) ELSE pc' = "loop" /\ UNCHANGED res

\* Mutation of advance: only one turn.
advance_once(n) == total' = total + n /\ finish(Ok(total')) /\ UNCHANGED cur

\* Mutation of advance: Ok(0) does not end the loop.
advance_on_zero(n) ==
  /\ total' = total + n
  /\ IF n # 0 /\ total' = req.count THEN finish(Ok(total')) /\ UNCHANGED cur
     ELSE cur' = overflowing_add(cur, n).value /\ pc' = "loop" /\ UNCHANGED res

\* The callback returned Ok(n).
advance(n) ==
  LET next == overflowing_add(cur, n)
  IN  IF n = 0 THEN finish(Ok(total)) /\ UNCHANGED <<cur, total>>
      ELSE /\ total' = total + n
           /\ IF total' = req.count THEN finish(Ok(total')) /\ UNCHANGED cur
              ELSE IF next.overflow /\ next.value # 0
              THEN finish(panic("guest address overflow")) /\ UNCHANGED cur
              ELSE cur' = next.value /\ pc' = "loop" /\ UNCHANGED res

\* The callback returned an error, or panicked.
fail(r) == finish(r) /\ UNCHANGED <<cur, total>>

\* The region returned Ok(n), to the callback or to the caller itself.
returned(n) == IF req.kind \in RegionKinds THEN fail(Ok(n)) ELSE advance(n)

\* An access to one region: GuestMemory::to_region_addr first.
Locate ==
  /\ pc = "loop" /\ req.kind \in RegionKinds
  /\ LET at == memory_to_region_addr(regions, req.addr)
     IN  IF at.tag = "Err" THEN finish(at) /\ UNCHANGED cb
         ELSE IF req.kind \in Unimplemented THEN finish(panic("not implemented")) /\ UNCHANGED cb
         ELSE /\ cb' = [region |-> at.val.region, start |-> at.val.addr, len |-> req.count]
              /\ pc' = "callback" /\ UNCHANGED res
  /\ UNCHANGED <<regions, host, pages, req, cur, total, chunk, src, dst, interrupts>>

----------------------------------------------------------------------------
(* The callbacks.  Those that use a stream take two steps.                 *)

Region == regions[cb.region]

\* Mutation of Ptr: the address within the region is forgotten.
Ptr_of_region == Region.host

Ptr == Region.host + cb.start

CheckRange ==
  /\ pc = "callback" /\ req.kind = "check_range"
  /\ advance(cb.len)
  /\ UNCHANGED <<regions, host, pages, req, cb, chunk, src, dst, interrupts>>

\* write, write_slice: the callback hands the rest of the buffer to the region;
\* total is 0 in a call to the region itself.
Write ==
  /\ pc = "callback" /\ req.kind \in Writes
  /\ LET r == region_bytes(Region, cb.start, req.count - total)
     IN  IF r.tag = "Err" THEN fail(r) /\ UNCHANGED <<host, src>>
         ELSE /\ host' = Stored(Ptr, Given(total, r.val))
              /\ src' = src + r.val
              /\ returned(r.val)
  /\ UNCHANGED <<regions, pages, req, cb, chunk, dst, interrupts>>

Read ==
  /\ pc = "callback" /\ req.kind \in Reads
  /\ LET r == region_bytes(Region, cb.start, req.count - total)
     IN  IF r.tag = "Err" THEN fail(r) /\ UNCHANGED dst
         ELSE dst' = dst \o Loaded(Ptr, r.val) /\ returned(r.val)
  /\ UNCHANGED <<regions, host, pages, req, cb, chunk, src, interrupts>>

\* An interrupted read or write on the stream is tried again.
Interrupted ==
  /\ pc = "callback"
  /\ req.kind \in StreamIn \/ (req.kind \in StreamOut /\ req.slice)
  /\ interrupts < MaxInterrupts /\ interrupts' = interrupts + 1
  /\ UNCHANGED <<regions, host, pages, req, pc, cur, total, cb, chunk, src, dst, res>>

\* The stream fails.
StreamError ==
  /\ \/ pc = "callback" /\ req.kind \in StreamIn
     \/ pc = "callback" /\ req.kind \in StreamOut /\ req.slice
     \/ pc = "sink"
  /\ IF pc = "sink"
     THEN \E n \in 0 .. Len(chunk) : dst' = dst \o SubSeq(chunk, 1, n)
     ELSE UNCHANGED dst
  /\ fail(Err("IOError"))
  /\ UNCHANGED <<regions, host, pages, req, cb, chunk, src, interrupts>>

\* What src.read may return for a buffer of len bytes: 0 only at the end of the
\* source, or for an empty buffer.
ReadCounts(len) ==
  LET most == min(len, SrcLen - src) IN IF most = 0 THEN {0} ELSE 1 .. most

\* read_from, first step: src.read into the slice or the bounce buffer.
ReadFromSrc ==
  /\ pc = "callback" /\ req.kind \in StreamIn
  /\ \E n \in ReadCounts(IF req.slice THEN cb.len ELSE min(cb.len, MAX_ACCESS_CHUNK)) :
       /\ src' = src + n
       /\ IF req.slice
          THEN host' = Stored(Ptr, Given(src, n)) /\ advance(n) /\ UNCHANGED chunk
          ELSE /\ chunk' = Given(src, n) /\ pc' = "put"
               /\ UNCHANGED <<host, cur, total, res>>
  /\ UNCHANGED <<regions, pages, req, cb, dst, interrupts>>

\* Mutation of PutToRegion: the whole bounce buffer, not what was read into it.
PutToRegion_whole_buffer ==
  /\ pc = "put"
  /\ LET r == region_bytes(Region, cb.start, min(cb.len, MAX_ACCESS_CHUNK))
     IN  IF r.tag = "Err" THEN fail(r) /\ UNCHANGED host
         ELSE /\ host' = Stored(Ptr, chunk)
              /\ IF r.val # Len(chunk) THEN fail(panic("bytes_written")) ELSE advance(r.val)
  /\ UNCHANGED <<regions, pages, req, cb, chunk, src, dst, interrupts>>

\* read_from, second step: region.write of the bytes read; they must all fit.
PutToRegion ==
  /\ pc = "put"
  /\ LET r == region_bytes(Region, cb.start, Len(chunk))
     IN  IF r.tag = "Err" THEN fail(r) /\ UNCHANGED host
         ELSE /\ host' = Stored(Ptr, SubSeq(chunk, 1, r.val))
              /\ IF r.val # Len(chunk) THEN fail(panic("bytes_written")) ELSE advance(r.val)
  /\ UNCHANGED <<regions, pages, req, cb, chunk, src, dst, interrupts>>

\* write_to, first step: region.read into the bounce buffer.
GetFromRegion ==
  /\ pc = "callback" /\ req.kind \in StreamOut /\ ~ req.slice
  /\ LET len == min(cb.len, MAX_ACCESS_CHUNK)
         r   == region_bytes(Region, cb.start, len)
     IN  IF r.tag = "Err" THEN fail(r) /\ UNCHANGED chunk
         ELSE IF r.val # len THEN fail(panic("bytes_read")) /\ UNCHANGED chunk
         ELSE /\ chunk' = Loaded(Ptr, len) /\ pc' = "sink"
              /\ UNCHANGED <<cur, total, res>>
  /\ UNCHANGED <<regions, host, pages, req, cb, src, dst, interrupts>>

\* write_to, second step: write_all of the bounce buffer ...
SinkAll ==
  /\ pc = "sink"
  /\ dst' = dst \o chunk
  /\ advance(Len(chunk))
  /\ UNCHANGED <<regions, host, pages, req, cb, chunk, src, interrupts>>

\* ... or, with a slice, one write that may be short.
SinkSlice ==
  /\ pc = "callback" /\ req.kind \in StreamOut /\ req.slice
  /\ \E n \in 0 .. cb.len : dst' = dst \o Loaded(Ptr, n) /\ advance(n)
  /\ UNCHANGED <<regions, host, pages, req, cb, chunk, src, interrupts>>

Done == pc = "done" /\ UNCHANGED vars

Step ==
  \/ Iterate \/ Locate \/ CheckRange \/ Write \/ Read
  \/ Interrupted \/ StreamError \/ ReadFromSrc \/ PutToRegion
  \/ GetFromRegion \/ SinkAll \/ SinkSlice

Next == Step \/ (\E p \in pages : Unmap(p)) \/ Done

Spec == Init /\ [][Next]_vars

\* The calling thread is scheduled, and signals do not interrupt it for ever.
FairSpec == Spec /\ WF_vars(Step)

----------------------------------------------------------------------------
(* Properties                                                              *)

Covered == UNION {AddrsOf(regions[i]) : i \in 1 .. Len(regions)}

\* The host address that backs guest address addr of the map.
HostOf(addr) ==
  LET i == CHOOSE i \in 1 .. Len(regions) : addr \in AddrsOf(regions[i])
  IN  regions[i].host + (addr - regions[i].start)

\* The guest addresses of the first n bytes of the request.
Asked(n) == req.addr .. req.addr + n - 1

\* The request lies within one region.
InOneRegion ==
  \E i \in 1 .. Len(regions) : req.addr \in AddrsOf(regions[i])
    /\ req.addr + req.count <= regions[i].start + regions[i].size

\* The access keeps to the length of the region.  The callbacks of write and
\* read do not look at the length that try_access gives them, a region does not
\* look at its end, and both keep to it only within one region.
KeepsToLen == req.kind \in Writes \cup Reads => InOneRegion

Succeeded == pc = "done" /\ res.tag = "Ok"

\* The n bytes that a call reports as written are the first n of the source, in
\* order, at the n guest addresses asked for, whatever regions, chunks, short
\* reads and interruptions the way there had, and exactly those n were taken
\* from the source: read_from, read_exact_from, and write and write_slice
\* within one region, on the map or on the region (guest_memory.rs, mmap.rs).
WrittenInPlace ==
  Succeeded /\ req.kind \in StreamIn \cup Writes /\ KeepsToLen
    => /\ src = res.val
       /\ Asked(res.val) \subseteq Covered
       /\ \A addr \in Asked(res.val) : host[HostOf(addr)] = addr - req.addr + 1

\* No access, however it ends, changes a host byte that does not back one of
\* the guest addresses asked for: the stream operations always, write and
\* write_slice within one region (guest_memory.rs, mmap.rs); an access that is
\* not implemented changes none.
NoStrayWrite ==
  KeepsToLen
    => \A h \in DOMAIN host :
         host[h] = Untouched(h) \/ \E addr \in Asked(req.count) \cap Covered : HostOf(addr) = h

\* The n bytes that a call reports as read are those of the n guest addresses
\* asked for, in order, without one missing or doubled: write_to and
\* write_all_to, and read and read_slice within one region, on the map or on the
\* region (guest_memory.rs, mmap.rs).
ReadInPlace ==
  Succeeded /\ req.kind \in StreamOut \cup Reads /\ KeepsToLen
    => /\ Len(dst) = res.val
       /\ \A i \in 1 .. res.val : dst[i] = Untouched(HostOf(req.addr + i - 1))

\* A count short of the request is returned only for a reason the caller can
\* see: the range runs into a hole, the source is at its end, the writer took
\* nothing, or, from a region itself, the next byte is no longer mapped
\* (guest_memory.rs, try_access; mmap.rs, write and read).
ShortForAReason ==
  Succeeded /\ res.val < req.count /\ KeepsToLen
    => \/ req.addr + res.val \notin Covered
       \/ req.kind \in StreamIn /\ src = SrcLen
       \/ req.kind \in StreamOut /\ req.slice
       \/ req.kind \in RegionBytes /\ ~ Present(HostOf(req.addr + res.val))

\* check_range (guest_memory.rs) accepts a range exactly when every address of
\* it is in some region; an empty range needs its base in a region.
CheckRangeExact ==
  pc = "done" /\ req.kind = "check_range"
    => (res = Ok(req.count) <=>
          /\ Asked(req.count) \subseteq Covered
          /\ req.addr \in Covered)

\* As long as the other process keeps its pages, no access whose callback
\* keeps to its length panics: the byte count assertions and the address
\* overflow in try_access are out of reach (guest_memory.rs).  Only what is not
\* implemented (mmap.rs) panics, and that whenever it gets to a region.
NoPanicWhileMapped ==
  /\ res.tag = "Panic" /\ KeepsToLen => pages # AllPages \/ req.kind \in Unimplemented
  /\ pc = "done" /\ req.kind \in Unimplemented => (res.tag = "Panic" <=> req.addr \in Covered)

\* Every access returns: each turn of the loop in try_access makes progress or
\* is the last one (guest_memory.rs).
Terminates == <>(pc = "done")

\* test_access_cross_boundary (mmap.rs): after a write that spans two regions,
\* the bytes are at the guest addresses they were written to.
SpanningWriteInPlace ==
  Succeeded /\ req.kind \in {"write", "write_slice"}
    => \A addr \in Asked(res.val) \cap Covered : host[HostOf(addr)] = addr - req.addr + 1

\* Bytes::read_exact_from (bytes.rs): "Returns an error if `count` bytes
\* couldn't have been copied", that is, it does not panic.
ErrorNotPanic == req.kind = "read_exact_from" => res.tag # "Panic"
=============================================================================
