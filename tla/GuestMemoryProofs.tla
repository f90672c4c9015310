-------------------------- MODULE GuestMemoryProofs --------------------------
(***************************************************************************)
(* The accesses of GuestMemory move the right bytes, for every memory map, *)
(* request, chunk size and page size, however the regions, chunks, short   *)
(* reads, interruptions and pages that go away fall.                       *)
(*                                                                         *)
(* The inductive invariant says of the loop of try_access                  *)
(* (src/src/guest_memory.rs) that it has moved exactly the first total     *)
(* bytes of the request, that cur is the address behind them, and that a   *)
(* callback works on the region that holds cur.  As regions are disjoint   *)
(* in the guest and in the host, the bytes that a callback adds disturb    *)
(* none of those before.                                                   *)
(***************************************************************************)
EXTENDS GuestMemory, GuestRegionsProofs

----------------------------------------------------------------------------
(* Memory maps and the host bytes behind them                              *)

\* The bytes of the process that holds the guest.
HostBytes == 0 .. HostSize - 1

\* Covered, HostOf and Asked of GuestMemory, for any map and base address.
Cover(rs) == UNION {AddrsOf(rs[i]) : i \in 1 .. Len(rs)}

Backing(rs, addr) ==
  LET i == CHOOSE i \in 1 .. Len(rs) : addr \in AddrsOf(rs[i])
  IN  rs[i].host + (addr - rs[i].start)

Span(base, n) == base .. base + n - 1

\* Host memory mem is as it was, but for the first n bytes of the source, which
\* are at the guest addresses from base on.
Wrote(rs, base, n, mem) ==
  /\ \A addr \in Span(base, n) : mem[Backing(rs, addr)] = addr - base + 1
  /\ \A h \in HostBytes :
       mem[h] = Untouched(h) \/ \E addr \in Span(base, n) : Backing(rs, addr) = h

\* The n bytes that were at the guest addresses from base on before the call.
Fetched(rs, base, n) == [i \in 1 .. n |-> Untouched(Backing(rs, base + i - 1))]


\* Offsets into blocks of addresses, as those of a region (mmap.rs).
LEMMA Offsets ==
  ASSUME NEW s \in Nat, NEW n \in Nat, NEW h \in Nat, NEW a \in Nat, s <= a, a < s + n
  PROVE  /\ h + (a - s) \in Nat /\ h + (a - s) >= h /\ h + (a - s) < h + n
         /\ \A b \in Nat : h + (b - s) = (h + (a - s)) + (b - a)
         /\ \A b \in Nat : h + (a - s) = h + (b - s) => a = b
<1> QED
  OBVIOUS

\* A part of such a block is inside it.
LEMMA Inside ==
  ASSUME NEW s \in Nat, NEW z \in Nat, NEW a \in Nat, NEW n \in Nat, s <= a, a + n <= s + z
  PROVE  a .. a + n - 1 \subseteq s .. s + z - 1
<1> QED
  OBVIOUS

\* A layout is a vector of regions in order, none empty, whose mappings are
\* disjoint (mmap.rs, from_arc_regions).
LEMMA LayoutIs ==
  ASSUME NEW rs \in Layouts
  PROVE  /\ rs \in Vectors /\ Ordered(rs) /\ NoneEmpty(rs) /\ Len(rs) \in Nat
         /\ \A i \in 1 .. Len(rs) :
              /\ rs[i].start \in Nat /\ rs[i].size \in Nat /\ rs[i].host \in Nat
              /\ rs[i].size > 0 /\ rs[i].start + rs[i].size < AddrSpace
              /\ rs[i].host + rs[i].size <= HostSize
              /\ \A j \in 1 .. Len(rs) : i < j => \/ rs[i].host + rs[i].size <= rs[j].host
                                                  \/ rs[j].host + rs[j].size <= rs[i].host
<1>1. rs \in Vectors /\ NoneEmpty(rs)
  BY LayoutsAssumption DEF Vectors, NoneEmpty
<1>2. Ordered(rs) /\ Len(rs) \in Nat
  BY <1>1, LayoutsAssumption, FromArcOrdered, LenProperties DEF Vectors
<1>3. \A i \in 1 .. Len(rs) :
        /\ rs[i].start \in Nat /\ rs[i].size \in Nat /\ rs[i].host \in Nat
        /\ rs[i].start + rs[i].size < AddrSpace
  BY <1>1, RegionIs DEF GuestRegion
<1> QED
  BY <1>1, <1>2, <1>3, LayoutsAssumption

\* The host address behind a guest address (mmap.rs, get_host_address).
LEMMA BackingIs ==
  ASSUME NEW rs \in Layouts, NEW i \in 1 .. Len(rs), NEW addr \in AddrsOf(rs[i])
  PROVE  /\ addr \in Nat /\ addr \in Raw /\ addr \in Cover(rs)
         /\ rs[i].start <= addr /\ addr < rs[i].start + rs[i].size
         /\ Backing(rs, addr) = rs[i].host + (addr - rs[i].start)
         /\ Backing(rs, addr) \in HostBytes
<1>1. /\ rs[i].start \in Nat /\ rs[i].size \in Nat /\ rs[i].host \in Nat
      /\ rs[i].start + rs[i].size < AddrSpace /\ rs[i].host + rs[i].size <= HostSize
  BY LayoutIs
<1>2. addr \in Nat /\ rs[i].start <= addr /\ addr < rs[i].start + rs[i].size
  BY <1>1 DEF AddrsOf
<1>3. addr \in Raw
  BY <1>1, <1>2, AddrSpaceAssumption DEF Raw
<1>4. (CHOOSE j \in 1 .. Len(rs) : addr \in AddrsOf(rs[j])) = i
  BY LayoutIs, AddrsDiffer
<1>5. Backing(rs, addr) = rs[i].host + (addr - rs[i].start)
  BY <1>4, Zenon DEF Backing
<1>6. addr \in Cover(rs)
  BY DEF Cover
<1>7. rs[i].host + (addr - rs[i].start) \in HostBytes
  <2> DEFINE p == rs[i].host + (addr - rs[i].start)
  <2>1. p \in Nat /\ p < rs[i].host + rs[i].size
    BY <1>1, <1>2, Offsets
  <2> HIDE DEF p
  <2>2. p \in HostBytes
    BY <1>1, <2>1, BoundsAssumption DEF HostBytes
  <2> QED
    BY <2>2 DEF p
<1> QED
  BY <1>2, <1>3, <1>5, <1>6, <1>7

\* No host byte is behind two guest addresses (mmap.rs).
LEMMA BackingApart ==
  ASSUME NEW rs \in Layouts, NEW a \in Cover(rs), NEW b \in Cover(rs),
         Backing(rs, a) = Backing(rs, b)
  PROVE  a = b
<1>1. PICK i \in 1 .. Len(rs) : a \in AddrsOf(rs[i])
  BY DEF Cover
<1>2. PICK j \in 1 .. Len(rs) : b \in AddrsOf(rs[j])
  BY DEF Cover
<1>3. /\ a \in Nat /\ rs[i].start <= a /\ a < rs[i].start + rs[i].size
      /\ Backing(rs, a) = rs[i].host + (a - rs[i].start)
  BY <1>1, BackingIs
<1>4. /\ b \in Nat /\ rs[j].start <= b /\ b < rs[j].start + rs[j].size
      /\ Backing(rs, b) = rs[j].host + (b - rs[j].start)
  BY <1>2, BackingIs
<1>5. /\ rs[i].start \in Nat /\ rs[i].size \in Nat /\ rs[i].host \in Nat
      /\ rs[j].start \in Nat /\ rs[j].size \in Nat /\ rs[j].host \in Nat
  BY LayoutIs
<1>6. rs[i].host + (a - rs[i].start) = rs[j].host + (b - rs[j].start)
  BY <1>3, <1>4, Zenon
<1>7. /\ a \in Nat /\ rs[i].start <= a /\ a < rs[i].start + rs[i].size
      /\ b \in Nat /\ rs[j].start <= b /\ b < rs[j].start + rs[j].size
  BY <1>3, <1>4
<1>8. /\ ~ (rs[i].host + rs[i].size <= rs[j].host)
      /\ ~ (rs[j].host + rs[j].size <= rs[i].host)
  <2> DEFINE p == rs[i].host + (a - rs[i].start)
  <2>1. p \in Nat /\ p >= rs[i].host /\ p < rs[i].host + rs[i].size
    BY <1>5, <1>7, Offsets, Zenon
  <2> DEFINE q == rs[j].host + (b - rs[j].start)
  <2>2. q >= rs[j].host /\ q < rs[j].host + rs[j].size
    BY <1>5, <1>7, Offsets
  <2>3. p = q
    BY <1>6
  <2>4. \A x, h, z, k, y \in Nat :
          h <= x /\ x < h + z /\ k <= x /\ x < k + y => ~ (h + z <= k) /\ ~ (k + y <= h)
    OBVIOUS
  <2> HIDE DEF p, q
  <2> QED
    BY <1>5, <2>1, <2>2, <2>3, <2>4
<1>9. i = j
  <2>1. ~ (i < j) /\ ~ (j < i)
    BY <1>8, LayoutIs
  <2> QED
    BY <2>1, LayoutIs
<1> QED
  BY <1>5, <1>6, <1>7, <1>9, Offsets

\* A part of a region (guest_memory.rs, the callback's len) is covered by it.
LEMMA PartIs ==
  ASSUME NEW rs \in Layouts, NEW i \in 1 .. Len(rs), NEW addr \in AddrsOf(rs[i]),
         NEW n \in Nat, addr + n <= rs[i].start + rs[i].size
  PROVE  /\ \A a \in Span(addr, n) : /\ a \in AddrsOf(rs[i]) /\ a \in Cover(rs) /\ a \in Nat
                                     /\ Backing(rs, a) = Backing(rs, addr) + (a - addr)
                                     /\ Backing(rs, a) \in HostBytes
         /\ addr \in Nat /\ Backing(rs, addr) \in Nat
<1>1. rs[i].start \in Nat /\ rs[i].size \in Nat /\ rs[i].host \in Nat
  BY LayoutIs
<1>2. /\ addr \in Nat /\ rs[i].start <= addr
      /\ Backing(rs, addr) = rs[i].host + (addr - rs[i].start)
  BY BackingIs
<1>3. addr < rs[i].start + rs[i].size
  BY BackingIs
<1>4. ASSUME NEW a \in Span(addr, n)
      PROVE  /\ a \in AddrsOf(rs[i]) /\ a \in Cover(rs) /\ a \in Nat
             /\ Backing(rs, a) = Backing(rs, addr) + (a - addr)
             /\ Backing(rs, a) \in HostBytes
  <2>1. a \in AddrsOf(rs[i])
    BY <1>1, <1>2, Inside, Zenon DEF Span, AddrsOf
  <2>2. /\ a \in Nat /\ a \in Cover(rs) /\ Backing(rs, a) \in HostBytes
        /\ Backing(rs, a) = rs[i].host + (a - rs[i].start)
    BY <2>1, BackingIs
  <2>3. rs[i].host + (a - rs[i].start) = (rs[i].host + (addr - rs[i].start)) + (a - addr)
    BY <1>1, <1>2, <1>3, <2>2, Offsets
  <2> QED
    BY <1>2, <2>1, <2>2, <2>3
<1> QED
  BY <1>1, <1>2, <1>3, <1>4, Offsets

\* Host and guest addresses of a part that starts n bytes behind base.
Shifted(base, n, m, ptr) ==
  /\ \A h \in Int : h - ptr + 1 \in 1 .. m =>
       /\ base + n + (h - ptr) \in Span(base + n, m)
       /\ base + n + (h - ptr) \in Span(base, n + m)
       /\ ptr + ((base + n + (h - ptr)) - (base + n)) = h
       /\ base + n <= base + n + (h - ptr)
  /\ \A h \in Int, a \in Span(base + n, m) : h = ptr + (a - (base + n)) =>
       h - ptr + 1 \in 1 .. m /\ n + (h - ptr + 1) = a - base + 1

\* cur and total (guest_memory.rs, try_access) go together.
LEMMA Shift ==
  ASSUME NEW base \in Nat, NEW n \in Nat, NEW m \in Nat, NEW ptr \in Nat
  PROVE  Shifted(base, n, m, ptr)
<1>1. \A h \in Int : h - ptr + 1 \in 1 .. m =>
        /\ base + n + (h - ptr) \in Span(base + n, m)
        /\ base + n + (h - ptr) \in Span(base, n + m)
  BY DEF Span
<1>2. \A h \in Int : h - ptr + 1 \in 1 .. m =>
        /\ ptr + ((base + n + (h - ptr)) - (base + n)) = h
        /\ base + n <= base + n + (h - ptr)
  OBVIOUS
<1>3. \A h \in Int, a \in Span(base + n, m) : h = ptr + (a - (base + n)) =>
        h - ptr + 1 \in 1 .. m /\ n + (h - ptr + 1) = a - base + 1
  BY DEF Span
<1> QED
  BY <1>1, <1>2, <1>3, Zenon DEF Shifted

\* Memory mem with the bytes n + 1 .. n + m of the source at ptr.
Patch(mem, ptr, n, m) ==
  [h \in DOMAIN mem |-> IF h - ptr + 1 \in 1 .. m THEN n + (h - ptr + 1) ELSE mem[h]]

\* Bytes written behind those already in place (guest_memory.rs, write and
\* read_from) leave them in place, as no host byte has two guest addresses.
LEMMA WroteMore ==
  ASSUME NEW rs \in Layouts, NEW base \in Nat, NEW n \in Nat, NEW m \in Nat, NEW mem,
         NEW i \in 1 .. Len(rs), base + n \in AddrsOf(rs[i]),
         base + n + m <= rs[i].start + rs[i].size, Span(base, n) \subseteq Cover(rs),
         DOMAIN mem = HostBytes, Wrote(rs, base, n, mem),
         NEW ptr, ptr = Backing(rs, base + n)
  PROVE  /\ Span(base, n + m) \subseteq Cover(rs)
         /\ Wrote(rs, base, n + m, Patch(mem, ptr, n, m))
<1> DEFINE new == [h \in DOMAIN mem |-> IF h - ptr + 1 \in 1 .. m THEN n + (h - ptr + 1) ELSE mem[h]]
<1>1. /\ \A a \in Span(base + n, m) : /\ a \in Cover(rs) /\ a \in Nat
                                      /\ Backing(rs, a) = ptr + (a - (base + n))
                                      /\ Backing(rs, a) \in HostBytes
      /\ ptr \in Nat
  BY PartIs, Zenon
<1>2. \A a \in Span(base, n + m) : a \in Span(base, n) \/ a \in Span(base + n, m)
  BY DEF Span
<1>3. \A a \in Span(base, n) : a \in Int /\ a < base + n /\ a \in Span(base, n + m)
  BY DEF Span
<1>4. HostBytes \subseteq Int
  BY BoundsAssumption DEF HostBytes
<1>a. Shifted(base, n, m, ptr)
  BY <1>1, Shift
<1>5. ASSUME NEW h \in HostBytes, h - ptr + 1 \in 1 .. m
      PROVE  /\ base + n + (h - ptr) \in Span(base + n, m)
             /\ base + n + (h - ptr) \in Span(base, n + m)
             /\ Backing(rs, base + n + (h - ptr)) = h
             /\ base + n <= base + n + (h - ptr)
  <2>1. h \in Int /\ ptr \in Nat
    BY <1>1, <1>4
  <2> DEFINE b == base + n + (h - ptr)
  <2>2. b \in Span(base + n, m) /\ b \in Span(base, n + m) /\ ptr + (b - (base + n)) = h /\ base + n <= b
    BY <1>5, <1>a, <2>1 DEF Shifted
  <2>3. Backing(rs, b) = h
    BY <1>1, <2>2
  <2> QED
    BY <2>2, <2>3
<1>6. ASSUME NEW a \in Span(base, n)
      PROVE  new[Backing(rs, a)] = a - base + 1
  <2>1. a \in Cover(rs) /\ Backing(rs, a) \in HostBytes /\ mem[Backing(rs, a)] = a - base + 1
    <3>1. PICK j \in 1 .. Len(rs) : a \in AddrsOf(rs[j])
      BY DEF Cover
    <3> QED
      BY <3>1, BackingIs DEF Wrote
  <2> DEFINE h == Backing(rs, a)
             b == base + n + (h - ptr)
  <2>2. ASSUME h - ptr + 1 \in 1 .. m PROVE FALSE
    <3>1. b \in Span(base + n, m) /\ Backing(rs, b) = h /\ base + n <= b
      BY <1>5, <2>1, <2>2
    <3>2. a = b
      BY <1>1, <2>1, <3>1, BackingApart
    <3> HIDE DEF b
    <3>3. a \in Int /\ a < base + n
      BY <1>3
    <3> QED
      BY <3>1, <3>2, <3>3
  <2> QED
    BY <2>1, <2>2
<1>7. ASSUME NEW a \in Span(base + n, m)
      PROVE  new[Backing(rs, a)] = a - base + 1
  <2> DEFINE h == Backing(rs, a)
  <2>1. h \in HostBytes /\ h = ptr + (a - (base + n)) /\ a \in Nat /\ ptr \in Nat
    BY <1>1
  <2>2. h - ptr + 1 \in 1 .. m /\ n + (h - ptr + 1) = a - base + 1
    <3> HIDE DEF h
    <3> QED
      BY <1>4, <1>a, <2>1 DEF Shifted
  <2> HIDE DEF h
  <2>3. new[h] = a - base + 1
    BY <2>1, <2>2
  <2> QED
    BY <2>3 DEF h
<1>8. ASSUME NEW h \in HostBytes
      PROVE  new[h] = Untouched(h) \/ \E a \in Span(base, n + m) : Backing(rs, a) = h
  <2>1. CASE h - ptr + 1 \in 1 .. m
    BY <1>5, <2>1
  <2>2. CASE h - ptr + 1 \notin 1 .. m
    <3>1. new[h] = mem[h]
      BY <2>2
    <3> HIDE DEF new
    <3> QED
      BY <1>3, <3>1 DEF Wrote
  <2> QED
    BY <2>1, <2>2
<1> HIDE DEF new
<1>9. Span(base, n + m) \subseteq Cover(rs) /\ Wrote(rs, base, n + m, new)
  BY <1>1, <1>2, <1>6, <1>7, <1>8 DEF Wrote
<1> QED
  BY <1>9 DEF new, Patch

\* The n bytes of mem at ptr, and bytes delivered behind others.
Peek(mem, ptr, n) == [k \in 1 .. n |-> mem[ptr + k - 1]]

Joined(s, t) == s \o t

\* What a callback reads from a region (mmap.rs, read) are the bytes that were
\* there before the call, if none was written.
LEMMA LoadedIs ==
  ASSUME NEW rs \in Layouts, NEW base \in Nat, NEW n \in Nat, NEW mem, NEW i \in 1 .. Len(rs),
         NEW addr \in AddrsOf(rs[i]), addr + n <= rs[i].start + rs[i].size,
         Wrote(rs, base, 0, mem), NEW ptr, ptr = Backing(rs, addr)
  PROVE  Peek(mem, ptr, n) = Fetched(rs, addr, n)
<1>1. \A h \in HostBytes : mem[h] = Untouched(h)
  BY DEF Wrote, Span
<1>2. /\ \A a \in Span(addr, n) : /\ Backing(rs, a) = ptr + (a - addr)
                                  /\ Backing(rs, a) \in HostBytes
      /\ addr \in Nat /\ ptr \in Nat
  BY PartIs
<1>3. ASSUME NEW k \in 1 .. n
      PROVE  mem[ptr + k - 1] = Untouched(Backing(rs, addr + k - 1))
  <2> DEFINE a == addr + k - 1
  <2>1. a \in Span(addr, n) /\ ptr + (a - addr) = ptr + k - 1
    BY <1>2 DEF Span
  <2>2. Backing(rs, a) = ptr + k - 1 /\ Backing(rs, a) \in HostBytes
    BY <1>2, <2>1
  <2> HIDE DEF a
  <2>3. mem[ptr + k - 1] = Untouched(Backing(rs, a))
    BY <1>1, <2>2
  <2> QED
    BY <2>3 DEF a
<1> QED
  BY <1>3 DEF Fetched, Peek

\* A function on 1 .. n is a sequence of length n, as the buffers of
\* guest_memory.rs are.
LEMMA SeqOf ==
  ASSUME NEW n \in Nat, NEW S, NEW f \in [1 .. n -> S]
  PROVE  f \in Seq(S) /\ Len(f) = n
<1>1. f \in Seq(S)
  BY SeqDef
<1>2. Len(f) \in Nat /\ DOMAIN f = 1 .. Len(f)
  BY <1>1, LenProperties
<1>3. \A k, m \in Nat : 1 .. k = 1 .. m => k = m
  <2> SUFFICES ASSUME NEW k \in Nat, NEW m \in Nat, 1 .. k = 1 .. m PROVE k = m
    OBVIOUS
  <2>1. k > 0 => k \in 1 .. m
    OBVIOUS
  <2>2. m > 0 => m \in 1 .. k
    OBVIOUS
  <2> QED
    BY <2>1, <2>2
<1> QED
  BY <1>1, <1>2, <1>3

\* Bytes fetched in two pieces (guest_memory.rs, write_to and read).
LEMMA FetchedMore ==
  ASSUME NEW rs, NEW base \in Nat, NEW m \in Nat, NEW n \in Nat, NEW addr, addr = base + m
  PROVE  Joined(Fetched(rs, base, m), Fetched(rs, addr, n)) = Fetched(rs, base, m + n)
<1> DEFINE S == {Untouched(Backing(rs, x)) : x \in Int}
           f == Fetched(rs, base, m)
           g == Fetched(rs, base + m, n)
           w == Fetched(rs, base, m + n)
<1>1. /\ f \in Seq(S) /\ Len(f) = m
      /\ \A i \in 1 .. m : f[i] = Untouched(Backing(rs, base + i - 1))
  <2>1. f \in [1 .. m -> S]
    BY DEF Fetched
  <2> QED
    BY <2>1, SeqOf DEF Fetched
<1>2. /\ g \in Seq(S) /\ Len(g) = n
      /\ \A i \in 1 .. n : g[i] = Untouched(Backing(rs, base + m + i - 1))
  <2>1. g \in [1 .. n -> S]
    BY DEF Fetched
  <2> QED
    BY <2>1, SeqOf DEF Fetched
<1>3. /\ w \in Seq(S) /\ Len(w) = m + n
      /\ \A i \in 1 .. m + n : w[i] = Untouched(Backing(rs, base + i - 1))
  <2>1. w \in [1 .. m + n -> S] /\ m + n \in Nat
    BY DEF Fetched
  <2> QED
    BY <2>1, SeqOf DEF Fetched
<1> HIDE DEF f, g, w, S
<1>4. /\ f \o g \in Seq(S) /\ Len(f \o g) = m + n
      /\ \A i \in 1 .. m + n : (f \o g)[i] = IF i <= m THEN f[i] ELSE g[i - m]
  BY <1>1, <1>2, ConcatProperties, Zenon
<1>5. ASSUME NEW i \in 1 .. m + n
      PROVE  (f \o g)[i] = w[i]
  <2>1. CASE i <= m
    <3>1. i \in 1 .. m
      BY <2>1
    <3> QED
      BY <1>1, <1>3, <1>4, <2>1, <3>1
  <2>2. CASE ~ (i <= m)
    <3>1. i - m \in 1 .. n /\ base + m + (i - m) - 1 = base + i - 1
      BY <2>2
    <3>2. g[i - m] = Untouched(Backing(rs, base + m + (i - m) - 1))
      BY <1>2, <3>1
    <3> QED
      BY <1>3, <1>4, <2>2, <3>1, <3>2, Zenon
  <2> QED
    BY <2>1, <2>2, Zenon
<1>6. f \o g = w
  BY <1>3, <1>4, <1>5, SeqEqual, Zenon
<1> QED
  BY <1>6 DEF f, g, w, Joined

\* The search finds no region exactly where the map has a hole (mmap.rs,
\* find_region).
LEMMA HoldingIs ==
  ASSUME NEW rs \in Layouts, NEW addr
  PROVE  /\ Holding(rs, addr) = {} <=> addr \notin Cover(rs)
         /\ \A i \in Holding(rs, addr) : i \in 1 .. Len(rs) /\ addr \in AddrsOf(rs[i])
<1> QED
  BY DEF Holding, Cover

----------------------------------------------------------------------------
(* The system calls                                                        *)

\* process_vm_readv and process_vm_writev (remote_mem.rs) move the bytes in
\* front of the first page that is not mapped.
LEMMA ReachIs ==
  ASSUME NEW ptr \in Nat, NEW n \in Nat
  PROVE  /\ Reach(ptr, n) \in 0 .. n
         /\ \A j \in 0 .. Reach(ptr, n) - 1 : Present(ptr + j)
         /\ Reach(ptr, n) < n => ~ Present(ptr + Reach(ptr, n))
<1> DEFINE T == {k \in 0 .. n : k < n => ~ Present(ptr + k)}
<1>1. T \in SUBSET Nat /\ n \in T
  OBVIOUS
<1>2. PICK x \in T : \A y \in T : x <= y
  BY <1>1, Least, Zenon
<1>3. x \in 0 .. n /\ (x < n => ~ Present(ptr + x))
  OBVIOUS
<1>4. ASSUME NEW j \in 0 .. x - 1 PROVE Present(ptr + j)
  <2>1. j \in 0 .. n /\ j < n /\ ~ (x <= j)
    BY <1>3
  <2>2. j \notin T
    BY <1>2, <2>1
  <2> QED
    BY <2>1, <2>2
<1> HIDE DEF T
<1>5. \E k \in 0 .. n : /\ \A j \in 0 .. k - 1 : Present(ptr + j)
                        /\ k < n => ~ Present(ptr + k)
  BY <1>3, <1>4
<1> QED
  BY <1>5, Zenon DEF Reach

\* With every page mapped they move all of them.
LEMMA ReachAll ==
  ASSUME NEW ptr \in Nat, NEW n \in Nat, DOMAIN host = HostBytes, pages = AllPages,
         ptr + n <= HostSize
  PROVE  Reach(ptr, n) = n
<1>1. Reach(ptr, n) \in 0 .. n /\ (Reach(ptr, n) < n => ~ Present(ptr + Reach(ptr, n)))
  BY ReachIs
<1>2. ASSUME NEW k \in 0 .. n - 1 PROVE Present(ptr + k)
  <2>1. ptr + k \in 0 .. HostSize - 1
    BY BoundsAssumption
  <2>2. (ptr + k) \div PageSize \in AllPages
    BY <2>1, Zenon DEF AllPages
  <2> QED
    BY <2>1, <2>2 DEF Present, HostBytes
<1>3. ~ (Reach(ptr, n) < n)
  <2> DEFINE k == Reach(ptr, n)
  <2> HIDE DEF k
  <2>1. k \in 0 .. n /\ (k < n => ~ Present(ptr + k))
    BY <1>1 DEF k
  <2>2. ~ (k < n)
    BY <1>2, <2>1
  <2> QED
    BY <2>2 DEF k
<1> QED
  BY <1>1, <1>3

----------------------------------------------------------------------------
(* The inductive invariant                                                 *)

Into   == StreamIn \cup Writes
Out    == StreamOut \cup Reads
Put(n) == IF req.kind \in Into THEN n ELSE 0

\* What never changes.
Request ==
  /\ regions \in Layouts
  /\ req \in [kind : Kinds, addr : Addrs, count : Counts, slice : {FALSE}]
              \cup [kind : SliceKinds, addr : Addrs, count : Counts, slice : {TRUE}]

\* The loop of try_access has moved the first total bytes of the request.
LoopInv ==
  /\ pc \in {"loop", "callback", "put", "sink"} /\ res = Err("Running")
  /\ host = [h \in HostBytes |-> host[h]]
  /\ pages \subseteq AllPages /\ (req.slice => pages = AllPages)
  /\ total \in Nat /\ (total = 0 \/ total < req.count)
  /\ req.kind \in RegionKinds => total = 0
  /\ cur = req.addr + total /\ cur \in Raw
  /\ Span(req.addr, total) \subseteq Cover(regions)
  /\ src \in Nat /\ (req.kind \in StreamIn => src <= SrcLen)
  /\ req.kind \in Into /\ pc # "put" => src = total
  /\ Wrote(regions, req.addr, Put(total), host)
  /\ req.kind \in Out => dst = Fetched(regions, req.addr, total)

\* The callback was given a part of the region that holds cur.
CallbackInv ==
  /\ cb.region \in 1 .. Len(regions) /\ cur \in AddrsOf(regions[cb.region])
  /\ cb.start = cur - regions[cb.region].start
  /\ cb.len \in Nat /\ cb.len <= regions[cb.region].size - cb.start
  /\ total + cb.len <= req.count
  /\ cb.len = 0 => total = req.count
  /\ req.kind \in Writes \cup Reads => cb.len = req.count - total
  /\ req.kind \notin Unimplemented

\* The bounce buffer holds the next bytes of the source.
PutInv ==
  /\ req.kind \in StreamIn /\ ~ req.slice
  /\ \E n \in 0 .. cb.len :
       /\ chunk = Given(total, n) /\ src = total + n
       /\ n = 0 => src = SrcLen \/ total = req.count

\* The bounce buffer holds the next bytes of the guest memory.
SinkInv ==
  /\ req.kind \in StreamOut /\ ~ req.slice
  /\ chunk = Fetched(regions, cur, min(cb.len, MAX_ACCESS_CHUNK))

\* What a call that has returned has done: it moved the first n bytes.
DoneInv ==
  /\ res.tag \in {"Ok", "Err", "Panic"} /\ DOMAIN host = HostBytes
  /\ \E n \in 0 .. req.count :
       /\ Span(req.addr, n) \subseteq Cover(regions)
       /\ Wrote(regions, req.addr, Put(n), host)
       /\ res.tag = "Ok" =>
            /\ res.val = n
            /\ req.kind \in Into => src = n
            /\ req.kind \in Out => dst = Fetched(regions, req.addr, n)
            /\ \/ n = req.count
               \/ req.addr + n \notin Cover(regions)
               \/ req.kind \in StreamIn /\ src = SrcLen
               \/ req.kind \in StreamOut /\ req.slice
               \/ req.kind \in RegionBytes /\ req.addr + n \in Cover(regions)
                    /\ ~ Present(Backing(regions, req.addr + n))
  /\ req.kind = "check_range" =>
       (res = Ok(req.count) <=> Span(req.addr, req.count) \cup {req.addr} \subseteq Cover(regions))
  /\ res.tag = "Panic" => pages # AllPages \/ req.kind \in Unimplemented
  /\ req.kind \in Unimplemented => (res.tag = "Panic" <=> req.addr \in Cover(regions))

\* The inductive invariant.
AccessInv ==
  /\ Request
  /\ KeepsToLen =>
       /\ pc # "done" => LoopInv
       /\ pc \in {"callback", "put", "sink"} => CallbackInv
       /\ pc = "put" => PutInv
       /\ pc = "sink" => SinkInv
       /\ pc = "done" => DoneInv

\* What the arguments of a call are.
LEMMA RequestIs ==
  ASSUME Request
  PROVE  /\ regions \in Layouts /\ req.addr \in Nat /\ req.addr \in Raw /\ req.count \in Nat
         /\ req.slice \in BOOLEAN
         /\ req.slice => req.kind \in StreamIn \cup StreamOut
<1>1. /\ regions \in Layouts /\ req.addr \in Addrs /\ req.count \in Counts
      /\ req.slice \in BOOLEAN /\ (req.slice => req.kind \in SliceKinds)
  BY Zenon DEF Request
<1>2. req.addr \in Raw /\ req.count \in Raw
  BY <1>1, CountsAssumption
<1>3. Raw \subseteq Nat
  BY AddrSpaceAssumption DEF Raw
<1>4. req.slice => req.kind \in StreamIn \cup StreamOut
  BY <1>1, BoundsAssumption
<1> QED
  BY <1>1, <1>2, <1>3, <1>4, Zenon

\* How a call ends (guest_memory.rs, mmap.rs).
LEMMA FinishIs ==
  ASSUME NEW n
  PROVE  /\ finish(Ok(n)) =>
              /\ pc' = "done" /\ (res' = Ok(n) \/ (res'.tag = "Err" /\ n # req.count))
              /\ req.kind \notin Exact => res' = Ok(n)
         /\ finish(Err(n)) => pc' = "done" /\ res' = Err(n)
         /\ finish(panic(n)) => pc' = "done" /\ res' = panic(n)
<1> QED
  BY DEF finish, Ok, Err, panic

\* Room in a region behind an address in it (guest_memory.rs, cap).
LEMMA Room ==
  ASSUME NEW a \in Nat, NEW s \in Nat, NEW z \in Nat, NEW h \in Nat, NEW n \in Nat,
         s <= a, n <= z - (a - s), a < s + z
  PROVE  /\ a + n <= s + z /\ ~ (a - s >= z)
         /\ h + (a - s) \in Nat /\ (h + (a - s)) + n <= h + z
<1> QED
  OBVIOUS

\* The address behind a part of a region (guest_memory.rs, overflowing_add of
\* cur and the number of bytes moved) does not overflow.
LEMMA NoOverflow ==
  ASSUME NEW a \in Nat, NEW t \in Nat, NEW n \in Nat, a + t + n < AddrSpace
  PROVE  /\ a + t + n = a + (t + n) /\ a + (t + n) \in Raw
         /\ ~ overflowing_add(a + t, n).overflow
         /\ overflowing_add(a + t, n).value = a + (t + n)
<1>1. a + (t + n) \in Nat /\ a + (t + n) < AddrSpace /\ a + t + n = a + (t + n)
  BY AddrSpaceAssumption
<1>2. \A x \in Nat : x < AddrSpace => x % AddrSpace = x /\ x \in Raw
  BY AddrSpaceAssumption DEF Raw
<1>3. /\ overflowing_add(a + t, n).value = (a + t + n) % AddrSpace
      /\ overflowing_add(a + t, n).overflow = (a + t + n >= AddrSpace)
  BY Zenon DEF overflowing_add
<1>4. (a + t + n) % AddrSpace = a + (t + n) /\ ~ (a + t + n >= AddrSpace) /\ a + (t + n) \in Raw
  <2> DEFINE x == a + (t + n)
  <2>1. x \in Nat /\ x < AddrSpace /\ a + t + n = x
    BY <1>1
  <2> HIDE DEF x
  <2>2. x % AddrSpace = x /\ ~ (x >= AddrSpace) /\ x \in Raw
    BY <1>2, <2>1, AddrSpaceAssumption
  <2> QED
    BY <2>1, <2>2 DEF x
<1>5. ~ overflowing_add(a + t, n).overflow
  BY <1>3, <1>4, Zenon
<1> QED
  BY <1>1, <1>3, <1>4, <1>5

\* The part of a region that a callback (guest_memory.rs) may use.
LEMMA CallbackIs ==
  ASSUME Request, LoopInv, CallbackInv
  PROVE  /\ regions \in Layouts /\ cb.region \in 1 .. Len(regions)
         /\ req.addr \in Nat /\ total \in Nat /\ cb.len \in Nat /\ req.count \in Nat
         /\ req.addr + total \in AddrsOf(regions[cb.region])
         /\ Region = regions[cb.region]
         /\ Region.start \in Nat /\ Region.size \in Nat
         /\ req.addr + total + cb.len <= regions[cb.region].start + regions[cb.region].size
         /\ Region.start + Region.size < AddrSpace
         /\ Ptr = Backing(regions, req.addr + total)
         /\ Ptr \in Nat /\ Ptr + cb.len <= HostSize
         /\ ~ (cb.start >= Region.size)
<1>1. /\ regions \in Layouts /\ cb.region \in 1 .. Len(regions) /\ req.addr \in Nat
      /\ req.count \in Nat /\ total \in Nat /\ cb.len \in Nat /\ cur = req.addr + total
  BY RequestIs DEF LoopInv, CallbackInv
<1> DEFINE r == regions[cb.region]
<1>2. /\ r.start \in Nat /\ r.size \in Nat /\ r.host \in Nat
      /\ r.start + r.size < AddrSpace /\ r.host + r.size <= HostSize
  BY <1>1, LayoutIs
<1>3. /\ cur \in AddrsOf(r) /\ cb.start = cur - r.start /\ cb.len <= r.size - cb.start
  BY DEF CallbackInv
<1>4. cur \in Nat /\ r.start <= cur /\ cur < r.start + r.size /\ Backing(regions, cur) = r.host + (cur - r.start)
  BY <1>1, <1>3, BackingIs
<1>5. /\ Region = r /\ Ptr = Backing(regions, cur)
  BY <1>3, <1>4 DEF Ptr, Region
<1> HIDE DEF r
<1>6. /\ cur + cb.len <= r.start + r.size /\ ~ (cur - r.start >= r.size)
      /\ r.host + (cur - r.start) \in Nat
      /\ (r.host + (cur - r.start)) + cb.len <= r.host + r.size
  <2>1. cb.len <= r.size - (cur - r.start) /\ cb.len \in Nat
    BY <1>1, <1>3
  <2>2. cur \in Nat /\ r.start \in Nat /\ r.size \in Nat /\ r.host \in Nat
    BY <1>2, <1>4
  <2>3. r.start <= cur /\ cur < r.start + r.size
    BY <1>4
  <2> QED
    BY <2>1, <2>2, <2>3, Room
<1>7. Ptr \in Nat /\ Ptr + cb.len <= r.host + r.size
  BY <1>3, <1>4, <1>5, <1>6
<1>8. \A p, n, m \in Nat : p + n <= m /\ m <= HostSize => p + n <= HostSize
  BY BoundsAssumption
<1>9. r.host + r.size \in Nat
  BY <1>2
<1>10. Ptr + cb.len <= HostSize
  BY <1>1, <1>2, <1>7, <1>8, <1>9, Zenon
<1> QED
  BY <1>1, <1>2, <1>3, <1>5, <1>6, <1>7, <1>10 DEF r

\* After a callback has moved n bytes, try_access (guest_memory.rs) either ends
\* or goes on behind them; the address it goes on at does not overflow.
LEMMA ReturnedIs ==
  ASSUME Request, LoopInv, CallbackInv, NEW n \in Nat, n <= cb.len, returned(n)
  PROVE  \/ /\ pc' = "done" /\ (res' = Ok(total + n) \/ (res'.tag = "Err" /\ total + n # req.count))
            /\ req.kind = "check_range" => res' = Ok(total + n)
            /\ n = 0 \/ total + n = req.count \/ req.kind \in RegionKinds
         \/ /\ pc' = "loop" /\ res' = res /\ total' = total + n
            /\ cur' = req.addr + (total + n) /\ cur' \in Raw
            /\ n > 0 /\ total + n < req.count /\ req.kind \notin RegionKinds
<1>1. /\ req.addr \in Nat /\ total \in Nat /\ cb.len \in Nat /\ req.count \in Nat
      /\ req.addr + total + cb.len <= Region.start + Region.size
      /\ Region.start \in Nat /\ Region.size \in Nat /\ Region.start + Region.size < AddrSpace
  BY CallbackIs
<1>2. cur = req.addr + total /\ total + cb.len <= req.count
  BY DEF LoopInv, CallbackInv
<1>3. CASE req.kind \in RegionKinds
  <2>1. total = 0
    BY <1>3 DEF LoopInv
  <2>2. finish(Ok(n)) /\ total + n = n
    BY <1>3, <2>1 DEF returned, fail
  <2>3. req.kind # "check_range"
    BY <1>3 DEF RegionKinds, RegionBytes, Unimplemented
  <2> QED
    BY <1>3, <2>2, <2>3, FinishIs
<1>4. CASE req.kind \notin RegionKinds
  <2>1. advance(n)
    BY <1>4 DEF returned
  <2>2. req.kind = "check_range" => req.kind \notin Exact
    BY DEF Exact
  <2>3. CASE n = 0
    <3>1. finish(Ok(total)) /\ total = total + n
      BY <1>1, <2>1, <2>3 DEF advance
    <3> QED
      BY <2>2, <2>3, <3>1, FinishIs
  <2>4. CASE n # 0 /\ total + n = req.count
    <3>1. finish(Ok(total + n))
      BY <2>1, <2>4, Zenon DEF advance
    <3> QED
      BY <2>2, <2>4, <3>1, FinishIs
  <2>5. CASE n # 0 /\ total + n # req.count
    <3>1. /\ ~ overflowing_add(cur, n).overflow
          /\ overflowing_add(cur, n).value = req.addr + (total + n)
          /\ req.addr + (total + n) \in Raw
      <4>1. req.addr + total + n < AddrSpace
        <5>1. \A a, t, m, s, z \in Nat :
                n <= m /\ a + t + m <= s + z /\ s + z < AddrSpace => a + t + n < AddrSpace
          BY AddrSpaceAssumption
        <5> QED
          BY <1>1, <5>1, Zenon
      <4>2. /\ ~ overflowing_add(req.addr + total, n).overflow
            /\ overflowing_add(req.addr + total, n).value = req.addr + (total + n)
            /\ req.addr + (total + n) \in Raw
        BY <1>1, <4>1, NoOverflow
      <4> QED
        BY <1>2, <4>2
    <3>2. pc' = "loop" /\ res' = res /\ total' = total + n /\ cur' = req.addr + (total + n)
      BY <2>1, <2>5, <3>1 DEF advance
    <3>3. total + n < req.count
      BY <1>1, <1>2, <2>5
    <3> QED
      BY <1>4, <2>5, <3>1, <3>2, <3>3
  <2> QED
    BY <2>3, <2>4, <2>5
<1> QED
  BY <1>3, <1>4

\* The addresses that a callback (guest_memory.rs) gets to are in the map.
LEMMA SpanMore ==
  ASSUME Request, LoopInv, CallbackInv, NEW n \in Nat, n <= cb.len
  PROVE  /\ Span(req.addr, total + n) \subseteq Cover(regions) /\ req.addr \in Cover(regions)
         /\ n < cb.len => req.addr + (total + n) \in Cover(regions)
         /\ total + n \in 0 .. req.count
<1>1. /\ regions \in Layouts /\ cb.region \in 1 .. Len(regions)
      /\ req.addr \in Nat /\ total \in Nat /\ cb.len \in Nat /\ req.count \in Nat
      /\ req.addr + total \in AddrsOf(regions[cb.region])
      /\ req.addr + total + cb.len <= regions[cb.region].start + regions[cb.region].size
  BY CallbackIs
<1>2. Span(req.addr, total) \subseteq Cover(regions) /\ total + cb.len <= req.count
  BY DEF LoopInv, CallbackInv
<1>3. Span(req.addr + total, cb.len) \subseteq Cover(regions)
  BY <1>1, PartIs, Zenon
<1>4. req.addr + total \in Cover(regions)
  BY <1>1, BackingIs
<1>5. ASSUME NEW a \in Nat, NEW t \in Nat, NEW m \in Nat, n <= m
      PROVE  /\ \A x \in Span(a, t + n) : x \in Span(a, t) \/ x \in Span(a + t, m)
             /\ n < m => a + (t + n) \in Span(a + t, m)
             /\ a \in Span(a, t) \/ (t = 0 /\ a = a + t)
             /\ \A c \in Nat : t + m <= c => t + n \in 0 .. c
  BY <1>5 DEF Span
<1>6. /\ \A x \in Span(req.addr, total + n) :
           x \in Span(req.addr, total) \/ x \in Span(req.addr + total, cb.len)
      /\ n < cb.len => req.addr + (total + n) \in Span(req.addr + total, cb.len)
      /\ req.addr \in Span(req.addr, total) \/ req.addr = req.addr + total
      /\ total + n \in 0 .. req.count
  BY <1>1, <1>2, <1>5, Zenon
<1> QED
  BY <1>2, <1>3, <1>4, <1>6

\* A call that fails or panics (guest_memory.rs, mmap.rs).
LEMMA FailInv ==
  ASSUME Request, KeepsToLen, regions' = regions, req' = req, pages' = pages, pc' = "done",
         res'.tag \in {"Err", "Panic"}, res'.tag = "Panic" => pages # AllPages,
         DOMAIN host' = HostBytes, req.kind # "check_range", req.kind \notin Unimplemented,
         \E n \in 0 .. req.count : /\ Span(req.addr, n) \subseteq Cover(regions)
                                   /\ Wrote(regions, req.addr, Put(n), host')
  PROVE  AccessInv'
<1>1. Request' /\ AllPages' = AllPages
  BY Zenon DEF Request, AllPages
<1>2. \A n : Put(n)' = Put(n)
  BY DEF Put
<1>3. DoneInv'
  BY <1>1, <1>2 DEF DoneInv
<1> QED
  BY <1>1, <1>3 DEF AccessInv

\* After a callback has moved n bytes as it should, the loop of try_access
\* (guest_memory.rs) goes on or ends with the right count.
LEMMA MovedInv ==
  ASSUME Request, KeepsToLen, LoopInv, CallbackInv, NEW n \in Nat, n <= cb.len, returned(n),
         regions' = regions, req' = req, pages' = pages,
         host' = [h \in HostBytes |-> host'[h]],
         Wrote(regions, req.addr, Put(total + n), host'),
         src' \in Nat, req.kind \in StreamIn => src' <= SrcLen,
         req.kind \in Into => src' = total + n,
         req.kind \in Out => dst' = Fetched(regions, req.addr, total + n),
         n = 0 => \/ total = req.count
                  \/ req.kind \in StreamIn /\ src' = SrcLen
                  \/ req.kind \in StreamOut /\ req.slice,
         req.kind \in RegionBytes /\ n < cb.len => ~ Present(Backing(regions, req.addr + (total + n)))
  PROVE  AccessInv'
<1>1. Request' /\ AllPages' = AllPages
  BY Zenon DEF Request, AllPages
<1>2. \A k : Put(k)' = Put(k)
  BY DEF Put
<1>3. /\ Span(req.addr, total + n) \subseteq Cover(regions) /\ req.addr \in Cover(regions)
      /\ n < cb.len => req.addr + (total + n) \in Cover(regions)
      /\ total + n \in 0 .. req.count
  BY SpanMore
<1>4. /\ total \in Nat /\ cb.len \in Nat /\ req.count \in Nat
      /\ req.kind \notin Unimplemented
  BY CallbackIs DEF CallbackInv
<1>5. CASE /\ pc' = "loop" /\ res' = res /\ total' = total + n
           /\ cur' = req.addr + (total + n) /\ cur' \in Raw
           /\ n > 0 /\ total + n < req.count /\ req.kind \notin RegionKinds
  <2>1. /\ res' = Err("Running") /\ pages' \subseteq AllPages /\ (req.slice => pages' = AllPages)
        /\ total' \in Nat
    BY <1>4, <1>5 DEF LoopInv
  <2>2. LoopInv'
    BY <1>1, <1>2, <1>3, <1>5, <2>1 DEF LoopInv
  <2> QED
    BY <1>1, <1>5, <2>2 DEF AccessInv
<1>6. CASE /\ pc' = "done" /\ (res' = Ok(total + n) \/ (res'.tag = "Err" /\ total + n # req.count))
           /\ req.kind = "check_range" => res' = Ok(total + n)
           /\ n = 0 \/ total + n = req.count \/ req.kind \in RegionKinds
  <2> DEFINE m == total + n
  <2>1. DOMAIN host' = HostBytes /\ DOMAIN host = HostBytes
    BY DEF LoopInv
  <2>2. \A h : Present(h)' = Present(h)
    BY <2>1 DEF Present
  <2>3. res'.tag \in {"Ok", "Err"} /\ (res'.tag = "Ok" => res' = Ok(m) /\ res'.val = m)
    BY <1>6 DEF Ok
  <2>4. n = 0 => m = total
    BY <1>4
  <2>5. req.kind \in RegionKinds => req.kind \in RegionBytes /\ cb.len = req.count - total
    BY <1>4 DEF RegionKinds, RegionBytes, Writes, Reads, CallbackInv
  <2>6. req.kind \in RegionKinds => m = req.count \/ n < cb.len
    BY <1>4, <2>5
  <2>7. \/ m = req.count
        \/ req.kind \in StreamIn /\ src' = SrcLen
        \/ req.kind \in StreamOut /\ req.slice
        \/ req.kind \in RegionBytes /\ req.addr + m \in Cover(regions)
             /\ ~ Present(Backing(regions, req.addr + m))
    BY <1>3, <1>6, <2>4, <2>5, <2>6
  <2>8. req.kind = "check_range" =>
          (res' = Ok(req.count) <=> Span(req.addr, req.count) \cup {req.addr} \subseteq Cover(regions))
    <3> SUFFICES ASSUME req.kind = "check_range"
                 PROVE  res' = Ok(m) /\ m = req.count
      BY <1>3
    <3> QED
      BY <1>6, <2>7 DEF StreamIn, StreamOut, RegionBytes
  <2>9. DoneInv'
    <3> HIDE DEF m
    <3>1. /\ m \in 0 .. req.count /\ Span(req.addr, m) \subseteq Cover(regions)
          /\ Wrote(regions, req.addr, Put(m), host')
          /\ req.kind \in Into => src' = m
          /\ req.kind \in Out => dst' = Fetched(regions, req.addr, m)
      BY <1>3 DEF m
    <3> QED
      BY <1>1, <1>2, <1>4, <2>1, <2>2, <2>3, <2>7, <2>8, <3>1 DEF DoneInv
  <2> QED
    BY <1>1, <1>6, <2>9 DEF AccessInv
<1> QED
  BY <1>5, <1>6, ReturnedIs

\* A call that fails before it has changed anything more (guest_memory.rs).
LEMMA FailHere ==
  ASSUME Request, KeepsToLen, LoopInv, CallbackInv,
         regions' = regions, req' = req, pages' = pages, host' = host, pc' = "done",
         res'.tag \in {"Err", "Panic"}, res'.tag = "Panic" => pages # AllPages,
         req.kind # "check_range"
  PROVE  AccessInv'
<1>1. DOMAIN host' = HostBytes /\ req.kind \notin Unimplemented
  BY DEF LoopInv, CallbackInv
<1>2. total + 0 \in 0 .. req.count /\ total + 0 = total
  <2>1. 0 \in Nat /\ 0 <= cb.len /\ total \in Nat
    BY CallbackIs
  <2> QED
    BY <2>1, SpanMore
<1>3. Span(req.addr, total) \subseteq Cover(regions) /\ Wrote(regions, req.addr, Put(total), host')
  BY DEF LoopInv
<1> QED
  BY <1>1, <1>2, <1>3, FailInv

\* An access to the rest of a region (mmap.rs, GuestRegionMmap::write and read).
LEMMA RegionBytesIs ==
  ASSUME Request, LoopInv, CallbackInv, NEW n \in Nat, n <= cb.len,
         NEW r, r = region_bytes(Region, cb.start, n), NEW k, k = Reach(Ptr, n)
  PROVE  /\ r = Ok(k) \/ (\E e : r = Err(e))
         /\ r = Ok(k) => (k = 0 => n = 0)
         /\ k \in Nat /\ k <= n /\ k <= cb.len
         /\ k < n => ~ Present(Backing(regions, req.addr + (total + k)))
         /\ pages = AllPages => r = Ok(n) /\ k = n
<1>1. /\ regions \in Layouts /\ cb.region \in 1 .. Len(regions)
      /\ req.addr \in Nat /\ total \in Nat /\ cb.len \in Nat
      /\ req.addr + total \in AddrsOf(regions[cb.region])
      /\ req.addr + total + cb.len <= regions[cb.region].start + regions[cb.region].size
      /\ Ptr = Backing(regions, req.addr + total)
      /\ Ptr \in Nat /\ Ptr + cb.len <= HostSize /\ ~ (cb.start >= Region.size)
  BY CallbackIs
<1>2. r = IF n > 0 /\ k = 0 THEN Err("RemoteMemError") ELSE Ok(k)
  BY <1>1 DEF region_bytes, process_bytes, Ptr
<1>3. /\ k \in 0 .. n /\ (k < n => ~ Present(Ptr + k))
  BY <1>1, ReachIs
<1>4. k \in Nat /\ k <= n /\ k <= cb.len
  BY <1>1, <1>3
<1>5. ASSUME k < n PROVE Backing(regions, req.addr + (total + k)) = Ptr + k
  <2>1. \A a \in Span(req.addr + total, cb.len) :
          Backing(regions, a) = Ptr + (a - (req.addr + total))
    BY <1>1, PartIs, Zenon
  <2> DEFINE a == req.addr
             t == total
             c == cb.len
             p == Ptr
  <2>2. a \in Nat /\ t \in Nat /\ c \in Nat /\ p \in Nat /\ k < c
    <3>1. \A x, y, z \in Nat : x < y /\ y <= z => x < z
      OBVIOUS
    <3> QED
      BY <1>1, <1>4, <1>5, <3>1
  <2>3. a + (t + k) \in Span(a + t, c) /\ p + ((a + (t + k)) - (a + t)) = p + k
    <3> HIDE DEF a, t, c, p
    <3> QED
      BY <1>4, <2>2 DEF Span
  <2> QED
    BY <2>1, <2>3
<1>6. ASSUME pages = AllPages PROVE k = n
  <2>1. DOMAIN host = HostBytes
    BY DEF LoopInv
  <2>2. Ptr + n <= HostSize
    <3>1. \A p, c \in Nat : n <= c /\ p + c <= HostSize => p + n <= HostSize
      BY BoundsAssumption
    <3> QED
      BY <1>1, <3>1
  <2> QED
    BY <1>1, <1>6, <2>1, <2>2, ReachAll
<1>7. Ok(k) # Err("RemoteMemError")
  BY DEF Ok, Err
<1> QED
  BY <1>2, <1>3, <1>4, <1>5, <1>6, <1>7

\* The bytes of the source that a region is given (mmap.rs, write) get behind
\* those before.
LEMMA StoredIs ==
  ASSUME Request, LoopInv, CallbackInv, req.kind \in Into, NEW m \in Nat, m <= cb.len,
         host' = Stored(Ptr, Given(total, m))
  PROVE  /\ host' = [h \in HostBytes |-> host'[h]]
         /\ Wrote(regions, req.addr, Put(total + m), host')
<1>1. /\ regions \in Layouts /\ cb.region \in 1 .. Len(regions)
      /\ req.addr \in Nat /\ total \in Nat /\ cb.len \in Nat
      /\ req.addr + total \in AddrsOf(regions[cb.region])
      /\ req.addr + total + cb.len <= regions[cb.region].start + regions[cb.region].size
      /\ Ptr = Backing(regions, req.addr + total) /\ Ptr \in Nat
      /\ regions[cb.region].start \in Nat /\ regions[cb.region].size \in Nat
  BY CallbackIs
<1>2. req.addr + total + m <= regions[cb.region].start + regions[cb.region].size
  <2>1. \A a, t, c, s, z \in Nat : m <= c /\ a + t + c <= s + z => a + t + m <= s + z
    OBVIOUS
  <2> QED
    BY <1>1, <2>1, Zenon
<1>3. /\ DOMAIN host = HostBytes /\ Put(total) = total /\ Put(total + m) = total + m
      /\ Span(req.addr, total) \subseteq Cover(regions)
      /\ Wrote(regions, req.addr, total, host)
  BY DEF LoopInv, Put
<1>4. Len(Given(total, m)) = m /\ \A i \in 1 .. m : Given(total, m)[i] = total + i
  <2>1. Given(total, m) \in [1 .. m -> Nat]
    BY <1>1, SMTT(30) DEF Given
  <2> QED
    BY <2>1, SeqOf DEF Given
<1>5. host' = Patch(host, Ptr, total, m)
  BY <1>4 DEF Stored, Patch
<1>6. Wrote(regions, req.addr, total + m, Patch(host, Ptr, total, m))
  BY <1>1, <1>2, <1>3, WroteMore, Zenon
<1>7. Patch(host, Ptr, total, m) = [h \in HostBytes |-> Patch(host, Ptr, total, m)[h]]
  BY <1>3 DEF Patch
<1> QED
  BY <1>3, <1>5, <1>6, <1>7

\* The bytes that a region gives (mmap.rs, read) come behind those before.
LEMMA LoadedMore ==
  ASSUME Request, LoopInv, CallbackInv, req.kind \in Out, NEW m \in Nat, m <= cb.len
  PROVE  /\ Loaded(Ptr, m) = Fetched(regions, cur, m)
         /\ dst \o Loaded(Ptr, m) = Fetched(regions, req.addr, total + m)
         /\ Len(Fetched(regions, cur, m)) = m
<1>1. /\ regions \in Layouts /\ cb.region \in 1 .. Len(regions)
      /\ req.addr \in Nat /\ total \in Nat /\ cb.len \in Nat
      /\ req.addr + total \in AddrsOf(regions[cb.region])
      /\ req.addr + total + cb.len <= regions[cb.region].start + regions[cb.region].size
      /\ Ptr = Backing(regions, req.addr + total) /\ Ptr \in Nat
      /\ regions[cb.region].start \in Nat /\ regions[cb.region].size \in Nat
  BY CallbackIs
<1>2. req.addr + total + m <= regions[cb.region].start + regions[cb.region].size
  <2>1. \A a, t, c, s, z \in Nat : m <= c /\ a + t + c <= s + z => a + t + m <= s + z
    OBVIOUS
  <2> QED
    BY <1>1, <2>1, Zenon
<1>3. /\ Put(total) = 0 /\ Wrote(regions, req.addr, 0, host) /\ cur = req.addr + total
      /\ dst = Fetched(regions, req.addr, total)
  BY DEF LoopInv, Put, Into, Out, StreamIn, StreamOut, Writes, Reads
<1>4. Loaded(Ptr, m) = Fetched(regions, cur, m)
  <2>1. /\ cur \in AddrsOf(regions[cb.region])
        /\ cur + m <= regions[cb.region].start + regions[cb.region].size
        /\ Ptr = Backing(regions, cur)
    BY <1>1, <1>2, <1>3
  <2>2. /\ regions \in Layouts /\ req.addr \in Nat /\ cb.region \in 1 .. Len(regions)
        /\ Wrote(regions, req.addr, 0, host)
    BY <1>1, <1>3
  <2>3. Peek(host, Ptr, m) = Fetched(regions, cur, m)
    BY <2>1, <2>2, LoadedIs, ZenonT(60)
  <2> QED
    BY <2>3 DEF Loaded, Peek
<1>5. Len(Fetched(regions, cur, m)) = m
  <2> DEFINE S == {Untouched(Backing(regions, cur + i - 1)) : i \in 1 .. m}
  <2>1. Fetched(regions, cur, m) \in [1 .. m -> S]
    BY DEF Fetched
  <2> QED
    BY <2>1, SeqOf
<1>6. Joined(Fetched(regions, req.addr, total), Fetched(regions, cur, m))
        = Fetched(regions, req.addr, total + m)
  BY <1>1, <1>3, FetchedMore, SMTT(30)
<1> QED
  BY <1>3, <1>4, <1>5, <1>6 DEF Joined

----------------------------------------------------------------------------
(* The steps                                                               *)

\* write and read (guest_memory.rs, mmap.rs) within one region leave the rest of
\* the request in the region that holds cur.
LEMMA OneRegionIs ==
  ASSUME Request, KeepsToLen, LoopInv, req.kind \in Writes \cup Reads,
         NEW i \in 1 .. Len(regions), cur \in AddrsOf(regions[i])
  PROVE  req.count - total <= regions[i].size - (cur - regions[i].start)
<1>1. PICK j \in 1 .. Len(regions) :
        /\ req.addr \in AddrsOf(regions[j])
        /\ req.addr + req.count <= regions[j].start + regions[j].size
  BY DEF KeepsToLen, InOneRegion
<1>2. /\ regions \in Layouts /\ req.addr \in Nat /\ req.count \in Nat /\ total \in Nat
      /\ cur = req.addr + total /\ (total = 0 \/ total < req.count)
  BY RequestIs DEF LoopInv
<1> DEFINE s == regions[j].start
           z == regions[j].size
           a == req.addr
           c == req.count
<1>3. s \in Nat /\ z \in Nat
  BY <1>2, LayoutIs
<1>4. s <= a /\ a < s + z /\ a + c <= s + z
  BY <1>1, <1>2, BackingIs
<1>5. a \in Nat /\ c \in Nat /\ total \in Nat /\ cur = a + total /\ (total = 0 \/ total < c)
  BY <1>2
<1>6. cur \in s .. s + z - 1 /\ c - total <= z - (cur - s)
  <2> HIDE DEF s, z, a, c
  <2> QED
    BY <1>3, <1>4, <1>5
<1>7. i = j
  BY <1>2, <1>6, LayoutIs, AddrsDiffer, Zenon DEF AddrsOf
<1> QED
  BY <1>6, <1>7

\* A step that only passes arguments to a callback (guest_memory.rs).
LEMMA EnterInv ==
  ASSUME Request, KeepsToLen, LoopInv, pc = "loop", NEW i \in 1 .. Len(regions), NEW n \in Nat,
         cur \in AddrsOf(regions[i]), req.kind \notin Unimplemented,
         n <= regions[i].size - (cur - regions[i].start), total + n <= req.count,
         n = 0 => total = req.count, req.kind \in Writes \cup Reads => n = req.count - total,
         cb' = [region |-> i, start |-> cur - regions[i].start, len |-> n], pc' = "callback",
         UNCHANGED <<regions, host, pages, req, cur, total, chunk, src, dst, interrupts, res>>
  PROVE  AccessInv'
<1>1. cb'.region = i /\ cb'.start = cur - regions[i].start /\ cb'.len = n
  BY Zenon
<1>2. CallbackInv'
  BY <1>1 DEF CallbackInv
<1>3. LoopInv'
  BY DEF LoopInv, Put, AllPages
<1> QED
  BY <1>2, <1>3, Zenon DEF AccessInv, Request

\* The head of the loop of try_access (guest_memory.rs).
LEMMA IterateInv ==
  ASSUME Request, KeepsToLen, LoopInv, Iterate
  PROVE  AccessInv'
<1>1. /\ regions \in Layouts /\ req.addr \in Nat /\ req.count \in Nat /\ total \in Nat
      /\ cur = req.addr + total /\ cur \in Raw /\ (total = 0 \/ total < req.count)
  BY RequestIs DEF LoopInv
<1>2. /\ pc = "loop" /\ req.kind \notin RegionKinds /\ req.kind \notin Unimplemented
      /\ UNCHANGED <<regions, host, pages, req, cur, total, chunk, src, dst, interrupts>>
  BY Zenon DEF Iterate, RegionKinds
<1>3. CASE Holding(regions, cur) = {}
  <2>1. find_region(regions, cur) = None /\ cur \notin Cover(regions)
    BY <1>1, <1>3, LayoutIs, LookupIs, HoldingIs
  <2>2. finish(IF total = 0 THEN Err("InvalidGuestAddress") ELSE Ok(total))
    BY <2>1 DEF Iterate
  <2>3. /\ pc' = "done"
        /\ res'.tag = "Err" \/ (res' = Ok(total) /\ total # 0)
    <3>1. CASE total = 0
      BY <2>2, <3>1, FinishIs DEF Err
    <3>2. CASE total # 0
      BY <2>2, <3>2, FinishIs
    <3> QED
      BY <3>1, <3>2
  <2>4. res'.tag \in {"Ok", "Err"} /\ (res'.tag = "Ok" => res'.val = total /\ total # 0)
        /\ (res' = Ok(req.count) => total = req.count /\ total # 0)
    BY <2>3 DEF Ok
  <2>5. total \in 0 .. req.count /\ (total # 0 => total # req.count)
    BY <1>1
  <2>6. cur \in Span(req.addr, req.count) \cup {req.addr}
    <3> DEFINE a == req.addr
               c == req.count
    <3>1. a \in Nat /\ c \in Nat /\ cur = a + total /\ total \in Nat /\ (total = 0 \/ total < c)
      BY <1>1
    <3>2. cur \in Span(a, c) \cup {a}
      <4> HIDE DEF a, c
      <4> QED
        BY <3>1 DEF Span
    <3> QED
      BY <3>2
  <2>7. /\ DOMAIN host' = HostBytes /\ Span(req.addr, total) \subseteq Cover(regions)
        /\ Wrote(regions, req.addr, Put(total)', host')
        /\ req.kind \in Into => src = total
        /\ req.kind \in Out => dst = Fetched(regions, req.addr, total)
    BY <1>2 DEF LoopInv, Put
  <2>8. DoneInv'
    BY <1>1, <1>2, <2>1, <2>4, <2>5, <2>6, <2>7 DEF DoneInv
  <2> QED
    BY <1>2, <2>3, <2>8, Zenon DEF AccessInv, Request
<1>4. CASE Holding(regions, cur) # {}
  <2>1. PICK i \in Holding(regions, cur) : TRUE
    BY <1>4
  <2>2. /\ i \in 1 .. Len(regions) /\ i # None /\ find_region(regions, cur) = i
        /\ to_region_addr(regions[i], cur) = cur - regions[i].start
        /\ cur - regions[i].start \in 0 .. regions[i].size - 1
    BY <1>1, LayoutIs, LookupIs, Zenon
  <2>3. cur \in AddrsOf(regions[i])
    BY <1>1, HoldingIs
  <2> DEFINE cap == regions[i].size - (cur - regions[i].start)
             left == req.count - total
             n == min(cap, left)
  <2>4. cb' = [region |-> i, start |-> cur - regions[i].start, len |-> n] /\ pc' = "callback"
        /\ res' = res
    BY <2>2 DEF Iterate
  <2>5. regions[i].size \in Nat /\ cap \in Nat \ {0} /\ left \in Nat
    <3> DEFINE z == regions[i].size
               d == cur - regions[i].start
               c == req.count
    <3>1. z \in Nat /\ d \in 0 .. z - 1 /\ c \in Nat /\ total \in Nat /\ (total = 0 \/ total < c)
      BY <1>1, <2>2, LayoutIs
    <3>2. z - d \in Nat \ {0} /\ c - total \in Nat
      <4> HIDE DEF z, d, c
      <4> QED
        BY <3>1
    <3> QED
      BY <3>1, <3>2
  <2>6. req.kind \in Writes \cup Reads => left <= cap
    BY <2>2, <2>3, OneRegionIs
  <2>7. n \in Nat /\ n <= cap /\ n <= left /\ (n = 0 => left = 0) /\ (left <= cap => n = left)
    <3> HIDE DEF cap, left
    <3> QED
      BY <2>5 DEF min
  <2>8. total + n <= req.count /\ (n = 0 => total = req.count)
    <3> DEFINE c == req.count
    <3>1. c \in Nat /\ total \in Nat /\ n \in Nat /\ n <= c - total /\ (n = 0 => c - total = 0)
      BY <1>1, <2>7
    <3>2. total + n <= c /\ (n = 0 => total = c)
      <4> HIDE DEF c, n
      <4> QED
        BY <3>1
    <3> QED
      BY <3>2
  <2>9. n <= cap /\ n \in Nat /\ (req.kind \in Writes \cup Reads => n = left)
    BY <2>6, <2>7
  <2> HIDE DEF n
  <2> QED
    BY <1>2, <2>2, <2>3, <2>4, <2>8, <2>9, EnterInv, Zenon
<1> QED
  BY <1>3, <1>4

\* An access to one region finds it (guest_memory.rs, to_region_addr).
LEMMA LocateInv ==
  ASSUME Request, KeepsToLen, LoopInv, Locate
  PROVE  AccessInv'
<1>1. /\ pc = "loop" /\ req.kind \in RegionKinds
      /\ UNCHANGED <<regions, host, pages, req, cur, total, chunk, src, dst, interrupts>>
  BY Zenon DEF Locate
<1>2. /\ regions \in Layouts /\ req.addr \in Nat /\ req.addr \in Raw /\ req.count \in Nat
      /\ total = 0 /\ cur = req.addr
  BY <1>1, RequestIs DEF LoopInv
<1> DEFINE at == memory_to_region_addr(regions, req.addr)
<1>3. ASSUME pc' = "done", res'.tag \in {"Err", "Panic"},
             res'.tag = "Panic" => req.kind \in Unimplemented,
             req.kind \in Unimplemented => (res'.tag = "Panic" <=> req.addr \in Cover(regions))
      PROVE  AccessInv'
  <2>1. /\ DOMAIN host' = HostBytes /\ 0 \in 0 .. req.count
        /\ Span(req.addr, 0) \subseteq Cover(regions)
        /\ Wrote(regions, req.addr, Put(0)', host')
    BY <1>1, <1>2 DEF LoopInv, Put
  <2>2. req.kind # "check_range"
    BY <1>1 DEF RegionKinds, RegionBytes, Unimplemented
  <2>3. DoneInv'
    BY <1>1, <1>3, <2>1, <2>2 DEF DoneInv
  <2> QED
    BY <1>1, <1>3, <2>3, Zenon DEF AccessInv, Request
<1>4. CASE Holding(regions, req.addr) = {}
  <2>1. at = Err("InvalidGuestAddress") /\ at.tag = "Err" /\ req.addr \notin Cover(regions)
    <3>1. regions \in Vectors /\ Ordered(regions) /\ NoneEmpty(regions)
      BY <1>2, LayoutIs
    <3>2. at = Err("InvalidGuestAddress")
      BY <1>2, <1>4, <3>1, LookupIs
    <3>3. req.addr \notin Cover(regions)
      BY <1>2, <1>4, HoldingIs
    <3> QED
      BY <3>2, <3>3 DEF Err
  <2>2. pc' = "done" /\ res' = Err("InvalidGuestAddress")
    BY <2>1, FinishIs DEF Locate
  <2> QED
    BY <1>3, <2>1, <2>2 DEF Err
<1>5. CASE Holding(regions, req.addr) # {}
  <2>1. PICK i \in Holding(regions, req.addr) : TRUE
    BY <1>5
  <2>2. i \in 1 .. Len(regions) /\ at = Ok([region |-> i, addr |-> req.addr - regions[i].start])
    BY <1>2, LayoutIs, LookupIs, Zenon
  <2>3. cur \in AddrsOf(regions[i]) /\ req.addr \in Cover(regions)
    BY <1>2, HoldingIs, BackingIs
  <2>4. at.tag = "Ok" /\ at.val.region = i /\ at.val.addr = req.addr - regions[i].start
    BY <2>2 DEF Ok
  <2>5. CASE req.kind \in Unimplemented
    <3>1. pc' = "done" /\ res' = panic("not implemented")
      BY <2>4, <2>5, FinishIs, Zenon DEF Locate
    <3> QED
      BY <1>3, <2>3, <2>5, <3>1, Zenon DEF panic
  <2>6. CASE req.kind \notin Unimplemented
    <3>1. /\ cb' = [region |-> i, start |-> cur - regions[i].start, len |-> req.count]
          /\ pc' = "callback" /\ res' = res
      BY <1>2, <2>4, <2>6, Zenon DEF Locate
    <3>2. req.kind \in Writes \cup Reads
      BY <1>1, <2>6 DEF RegionKinds, RegionBytes, Writes, Reads
    <3>3. req.count - total <= regions[i].size - (cur - regions[i].start)
      BY <2>2, <2>3, <3>2, OneRegionIs
    <3>4. req.count - total = req.count /\ total + req.count <= req.count
      BY <1>2
    <3> QED
      BY <1>1, <1>2, <2>2, <2>3, <2>6, <3>1, <3>3, <3>4, EnterInv
  <2> QED
    BY <2>5, <2>6
<1> QED
  BY <1>4, <1>5

\* check_range moves nothing and counts (guest_memory.rs).
LEMMA CheckRangeInv ==
  ASSUME Request, KeepsToLen, LoopInv, CallbackInv, CheckRange
  PROVE  AccessInv'
<1>1. /\ req.kind = "check_range" /\ advance(cb.len)
      /\ UNCHANGED <<regions, host, pages, req, cb, chunk, src, dst, interrupts>>
  BY DEF CheckRange
<1>2. /\ req.kind \notin RegionKinds /\ req.kind \notin Into /\ req.kind \notin Out
      /\ req.kind \notin StreamIn /\ req.kind \notin RegionBytes
  BY <1>1 DEF RegionKinds, RegionBytes, Unimplemented, Into, Out, StreamIn, StreamOut, Writes, Reads
<1>3. returned(cb.len)
  BY <1>1, <1>2 DEF returned
<1>4. cb.len \in Nat /\ cb.len <= cb.len /\ (cb.len = 0 => total = req.count)
  BY DEF CallbackInv
<1>5. /\ host' = [h \in HostBytes |-> host'[h]] /\ src' \in Nat
      /\ Wrote(regions, req.addr, Put(total + cb.len), host')
  BY <1>1, <1>2 DEF LoopInv, Put
<1> QED
  BY <1>1, <1>2, <1>3, <1>4, <1>5, MovedInv

\* write and write_slice, on the map or on a region (guest_memory.rs, mmap.rs).
LEMMA WriteInv ==
  ASSUME Request, KeepsToLen, LoopInv, CallbackInv, pc = "callback", Write
  PROVE  AccessInv'
<1>1. /\ req.kind \in Writes
      /\ UNCHANGED <<regions, pages, req, cb, chunk, dst, interrupts>>
  BY DEF Write
<1>2. /\ req.kind \in Into /\ req.kind \notin Out /\ req.kind \notin StreamIn
      /\ req.kind # "check_range"
  BY <1>1 DEF Into, Out, StreamIn, StreamOut, Writes, Reads
<1>3. /\ cb.len = req.count - total /\ cb.len \in Nat /\ (cb.len = 0 => total = req.count)
      /\ src = total /\ total \in Nat
  BY <1>1, <1>2 DEF CallbackInv, LoopInv
<1> DEFINE r == region_bytes(Region, cb.start, cb.len)
           k == Reach(Ptr, cb.len)
<1>4. /\ r = Ok(k) \/ (\E e : r = Err(e))
      /\ r = Ok(k) => (k = 0 => cb.len = 0)
      /\ k \in Nat /\ k <= cb.len
      /\ k < cb.len => ~ Present(Backing(regions, req.addr + (total + k)))
  <2>1. cb.len <= cb.len
    BY <1>3
  <2> QED
    BY <1>3, <2>1, RegionBytesIs
<1>5. IF r.tag = "Err" THEN fail(r) /\ UNCHANGED <<host, src>>
      ELSE /\ host' = Stored(Ptr, Given(total, r.val)) /\ src' = src + r.val /\ returned(r.val)
  BY <1>3 DEF Write
<1> HIDE DEF r, k
<1>6. CASE \E e : r = Err(e)
  <2>1. PICK e : r = Err(e)
    BY <1>6
  <2>2. r.tag = "Err"
    BY <2>1 DEF Err
  <2>3. finish(Err(e)) /\ host' = host
    BY <1>5, <2>1, <2>2 DEF fail
  <2>4. pc' = "done" /\ res'.tag = "Err"
    BY <2>3, FinishIs DEF Err
  <2> QED
    BY <1>1, <1>2, <2>3, <2>4, FailHere
<1>7. CASE r = Ok(k)
  <2>1. r.tag = "Ok" /\ r.val = k
    BY <1>7 DEF Ok
  <2>2. host' = Stored(Ptr, Given(total, k)) /\ src' = total + k /\ returned(k)
    BY <1>3, <1>5, <2>1
  <2>3. /\ host' = [h \in HostBytes |-> host'[h]]
        /\ Wrote(regions, req.addr, Put(total + k), host')
    BY <1>2, <1>4, <2>2, StoredIs
  <2>4. k = 0 => total = req.count
    BY <1>3, <1>4, <1>7
  <2>5. src' \in Nat
    BY <1>3, <1>4, <2>2
  <2> QED
    BY <1>1, <1>2, <1>4, <2>2, <2>3, <2>4, <2>5, MovedInv
<1> QED
  BY <1>4, <1>6, <1>7

\* read and read_slice, on the map or on a region (guest_memory.rs, mmap.rs).
LEMMA ReadInv ==
  ASSUME Request, KeepsToLen, LoopInv, CallbackInv, pc = "callback", Read
  PROVE  AccessInv'
<1>1. /\ req.kind \in Reads
      /\ UNCHANGED <<regions, host, pages, req, cb, chunk, src, interrupts>>
  BY DEF Read
<1>2. /\ req.kind \in Out /\ req.kind \notin Into /\ req.kind \notin StreamIn
      /\ req.kind # "check_range"
  BY <1>1 DEF Into, Out, StreamIn, StreamOut, Writes, Reads
<1>3. /\ cb.len = req.count - total /\ cb.len \in Nat /\ (cb.len = 0 => total = req.count)
      /\ src \in Nat
  BY <1>1, <1>2 DEF CallbackInv, LoopInv
<1> DEFINE r == region_bytes(Region, cb.start, cb.len)
           k == Reach(Ptr, cb.len)
<1>4. /\ r = Ok(k) \/ (\E e : r = Err(e))
      /\ r = Ok(k) => (k = 0 => cb.len = 0)
      /\ k \in Nat /\ k <= cb.len
      /\ k < cb.len => ~ Present(Backing(regions, req.addr + (total + k)))
  <2>1. cb.len <= cb.len
    BY <1>3
  <2> QED
    BY <1>3, <2>1, RegionBytesIs
<1>5. IF r.tag = "Err" THEN fail(r) /\ UNCHANGED dst
      ELSE dst' = dst \o Loaded(Ptr, r.val) /\ returned(r.val)
  BY <1>3 DEF Read
<1> HIDE DEF r, k
<1>6. CASE \E e : r = Err(e)
  <2>1. PICK e : r = Err(e)
    BY <1>6
  <2>2. r.tag = "Err"
    BY <2>1 DEF Err
  <2>3. finish(Err(e))
    BY <1>5, <2>1, <2>2 DEF fail
  <2>4. pc' = "done" /\ res'.tag = "Err"
    BY <2>3, FinishIs DEF Err
  <2> QED
    BY <1>1, <1>2, <2>4, FailHere
<1>7. CASE r = Ok(k)
  <2>1. r.tag = "Ok" /\ r.val = k
    BY <1>7 DEF Ok
  <2>2. dst' = dst \o Loaded(Ptr, k) /\ returned(k)
    BY <1>5, <2>1
  <2>3. dst' = Fetched(regions, req.addr, total + k)
    BY <1>2, <1>4, <2>2, LoadedMore
  <2>4. k = 0 => total = req.count
    BY <1>3, <1>4, <1>7
  <2>5. /\ host' = [h \in HostBytes |-> host'[h]]
        /\ Wrote(regions, req.addr, Put(total + k), host')
    BY <1>1, <1>2 DEF LoopInv, Put
  <2> QED
    BY <1>1, <1>2, <1>3, <1>4, <2>2, <2>3, <2>4, <2>5, MovedInv
<1> QED
  BY <1>4, <1>6, <1>7

\* The part of the region that one turn of read_from or write_to handles
\* (guest_memory.rs, MAX_ACCESS_CHUNK).
LEMMA ChunkIs ==
  ASSUME CallbackInv, NEW n, n = min(cb.len, MAX_ACCESS_CHUNK)
  PROVE  n \in Nat /\ n <= cb.len /\ (n = 0 => cb.len = 0)
<1>1. cb.len \in Nat
  BY DEF CallbackInv
<1> QED
  BY <1>1, BoundsAssumption DEF min

\* What src.read returns (guest_memory.rs, read_from).
LEMMA ReadCountIs ==
  ASSUME NEW len \in Nat, src \in Nat, src <= SrcLen, NEW n \in ReadCounts(len)
  PROVE  n \in Nat /\ n <= len /\ src + n <= SrcLen /\ (n = 0 => len = 0 \/ src = SrcLen)
<1> DEFINE most == min(len, SrcLen - src)
<1>1. SrcLen - src \in Nat /\ SrcLen \in Nat
  BY BoundsAssumption
<1>2. most \in Nat /\ most <= len /\ most <= SrcLen - src /\ (most = 0 => len = 0 \/ SrcLen - src = 0)
  BY <1>1 DEF min
<1>3. n \in IF most = 0 THEN {0} ELSE 1 .. most
  BY DEF ReadCounts
<1> HIDE DEF most
<1> QED
  BY <1>1, <1>2, <1>3

\* read_from, first step (guest_memory.rs).
LEMMA ReadFromSrcInv ==
  ASSUME Request, KeepsToLen, LoopInv, CallbackInv, ReadFromSrc
  PROVE  AccessInv'
<1>1. /\ pc = "callback" /\ req.kind \in StreamIn
      /\ UNCHANGED <<regions, pages, req, cb, dst, interrupts>>
  BY DEF ReadFromSrc
<1>2. /\ req.kind \in Into /\ req.kind \notin Out /\ req.kind \notin RegionKinds
      /\ req.kind \notin RegionBytes
  BY <1>1 DEF Into, Out, StreamIn, StreamOut, Writes, Reads, RegionKinds, RegionBytes, Unimplemented
<1>3. /\ src = total /\ total \in Nat /\ src <= SrcLen /\ cb.len \in Nat
      /\ cb.len = 0 => total = req.count
  BY <1>1, <1>2 DEF LoopInv, CallbackInv
<1> DEFINE len == IF req.slice THEN cb.len ELSE min(cb.len, MAX_ACCESS_CHUNK)
<1>4. len \in Nat /\ len <= cb.len /\ (len = 0 => cb.len = 0)
  BY <1>3, ChunkIs
<1>5. PICK n \in ReadCounts(len) :
        /\ src' = src + n
        /\ IF req.slice
           THEN host' = Stored(Ptr, Given(src, n)) /\ advance(n) /\ UNCHANGED chunk
           ELSE /\ chunk' = Given(src, n) /\ pc' = "put"
                /\ UNCHANGED <<host, cur, total, res>>
  BY DEF ReadFromSrc
<1> HIDE DEF len
<1>6. n \in Nat /\ n <= len /\ src + n <= SrcLen /\ (n = 0 => len = 0 \/ src = SrcLen)
  BY <1>3, <1>4, ReadCountIs
<1>7. /\ n <= cb.len /\ src' = total + n /\ src' \in Nat /\ src' <= SrcLen
      /\ n = 0 => src' = SrcLen \/ total = req.count
  BY <1>3, <1>4, <1>5, <1>6
<1>8. CASE req.slice
  <2>1. host' = Stored(Ptr, Given(total, n)) /\ returned(n)
    BY <1>2, <1>3, <1>5, <1>8 DEF returned
  <2>2. /\ host' = [h \in HostBytes |-> host'[h]]
        /\ Wrote(regions, req.addr, Put(total + n), host')
    BY <1>2, <1>6, <1>7, <2>1, StoredIs
  <2> QED
    BY <1>1, <1>2, <1>6, <1>7, <2>1, <2>2, MovedInv
<1>9. CASE ~ req.slice
  <2>1. chunk' = Given(total, n) /\ pc' = "put" /\ UNCHANGED <<host, cur, total, res>>
    BY <1>3, <1>5, <1>9
  <2>2. CallbackInv'
    BY <1>1, <2>1 DEF CallbackInv
  <2>3. LoopInv'
    BY <1>1, <1>2, <1>7, <2>1 DEF LoopInv, Put, AllPages
  <2>4. n \in 0 .. cb.len
    BY <1>3, <1>6, <1>7
  <2>5. PutInv'
    BY <1>1, <1>7, <1>9, <2>1, <2>4 DEF PutInv, Given
  <2> QED
    BY <1>1, <2>1, <2>2, <2>3, <2>5, Zenon DEF AccessInv, Request
<1> QED
  BY <1>8, <1>9

\* read_from, second step (guest_memory.rs).
LEMMA PutToRegionInv ==
  ASSUME Request, KeepsToLen, LoopInv, CallbackInv, PutInv, PutToRegion
  PROVE  AccessInv'
<1>1. /\ req.kind \in StreamIn
      /\ UNCHANGED <<regions, pages, req, cb, chunk, src, dst, interrupts>>
  BY DEF PutToRegion, PutInv
<1>2. /\ req.kind \in Into /\ req.kind \notin Out /\ req.kind \notin RegionKinds
      /\ req.kind \notin RegionBytes /\ req.kind # "check_range" /\ req.kind \notin Unimplemented
  BY <1>1 DEF Into, Out, StreamIn, StreamOut, Writes, Reads, RegionKinds, RegionBytes, Unimplemented
<1>3. PICK n \in 0 .. cb.len : /\ chunk = Given(total, n) /\ src = total + n
                               /\ n = 0 => src = SrcLen \/ total = req.count
  BY DEF PutInv
<1>4. /\ n \in Nat /\ n <= cb.len /\ total \in Nat /\ src \in Nat /\ src <= SrcLen
      /\ DOMAIN host = HostBytes
  BY <1>1, <1>3 DEF LoopInv, CallbackInv
<1>5. Len(chunk) = n /\ \A i \in 1 .. n : chunk[i] = total + i
  <2>1. chunk \in [1 .. n -> Nat]
    BY <1>3, <1>4 DEF Given
  <2> QED
    BY <1>3, <1>4, <2>1, SeqOf DEF Given
<1> DEFINE r == region_bytes(Region, cb.start, n)
           k == Reach(Ptr, n)
<1>6. /\ r = Ok(k) \/ (\E e : r = Err(e))
      /\ k \in Nat /\ k <= n /\ k <= cb.len
      /\ pages = AllPages => k = n
  BY <1>4, RegionBytesIs
<1>7. IF r.tag = "Err" THEN fail(r) /\ UNCHANGED host
      ELSE /\ host' = Stored(Ptr, SubSeq(chunk, 1, r.val))
           /\ IF r.val # n THEN fail(panic("bytes_written")) ELSE advance(r.val)
  BY <1>5 DEF PutToRegion
<1> HIDE DEF r, k
<1>8. CASE \E e : r = Err(e)
  <2>1. PICK e : r = Err(e)
    BY <1>8
  <2>2. r.tag = "Err"
    BY <2>1 DEF Err
  <2>3. finish(Err(e)) /\ host' = host
    BY <1>7, <2>1, <2>2 DEF fail
  <2>4. pc' = "done" /\ res'.tag = "Err"
    BY <2>3, FinishIs DEF Err
  <2> QED
    BY <1>1, <1>2, <2>3, <2>4, FailHere
<1>9. CASE r = Ok(k)
  <2>1. r.tag = "Ok" /\ r.val = k
    BY <1>9 DEF Ok
  <2>2. SubSeq(chunk, 1, k) = Given(total, k)
    <3>1. SubSeq(chunk, 1, k) = [i \in 1 .. k - 1 + 1 |-> chunk[1 + i - 1]]
      <4>1. 1 \in Int /\ k \in Int /\ 1 <= k + 1
        BY <1>6
      <4> QED
        BY <4>1, SubSeqIs
    <3>2. k - 1 + 1 = k /\ \A i \in 1 .. k : 1 + i - 1 = i /\ i \in 1 .. n
      BY <1>4, <1>6
    <3> QED
      BY <1>5, <3>1, <3>2 DEF Given
  <2>3. /\ host' = Stored(Ptr, Given(total, k))
        /\ IF k # n THEN fail(panic("bytes_written")) ELSE advance(k)
    BY <1>7, <2>1, <2>2, Zenon
  <2>4. /\ host' = [h \in HostBytes |-> host'[h]]
        /\ Wrote(regions, req.addr, Put(total + k), host')
    BY <1>2, <1>6, <2>3, StoredIs
  <2>5. CASE k = n
    <3>1. returned(n)
      BY <1>2, <2>3, <2>5 DEF returned
    <3> QED
      BY <1>1, <1>2, <1>3, <1>4, <2>4, <2>5, <3>1, MovedInv
  <2>6. CASE k # n
    <3>1. finish(panic("bytes_written"))
      BY <2>3, <2>6 DEF fail
    <3>2. pc' = "done" /\ res'.tag = "Panic" /\ pages # AllPages
      BY <1>6, <2>6, <3>1, FinishIs DEF panic
    <3>3. total + k \in 0 .. req.count /\ Span(req.addr, total + k) \subseteq Cover(regions)
      BY <1>6, SpanMore
    <3>4. DOMAIN host' = HostBytes
      BY <2>4
    <3> QED
      BY <1>1, <1>2, <2>4, <3>2, <3>3, <3>4, FailInv
  <2> QED
    BY <2>5, <2>6
<1> QED
  BY <1>6, <1>8, <1>9

\* write_to, first step (guest_memory.rs).
LEMMA GetFromRegionInv ==
  ASSUME Request, KeepsToLen, LoopInv, CallbackInv, GetFromRegion
  PROVE  AccessInv'
<1>1. /\ pc = "callback" /\ req.kind \in StreamOut /\ ~ req.slice
      /\ UNCHANGED <<regions, host, pages, req, cb, src, dst, interrupts>>
  BY DEF GetFromRegion
<1>2. req.kind \in Out /\ req.kind \notin Into /\ req.kind # "check_range"
  BY <1>1 DEF Into, Out, StreamIn, StreamOut, Writes, Reads
<1> DEFINE len == min(cb.len, MAX_ACCESS_CHUNK)
           r == region_bytes(Region, cb.start, len)
           k == Reach(Ptr, len)
<1>3. len \in Nat /\ len <= cb.len
  BY ChunkIs
<1>4. IF r.tag = "Err" THEN fail(r) /\ UNCHANGED chunk
      ELSE IF r.val # len THEN fail(panic("bytes_read")) /\ UNCHANGED chunk
      ELSE /\ chunk' = Loaded(Ptr, len) /\ pc' = "sink"
           /\ UNCHANGED <<cur, total, res>>
  BY DEF GetFromRegion
<1>5. len = min(cb.len, MAX_ACCESS_CHUNK)
  OBVIOUS
<1> HIDE DEF len
<1>6. /\ r = Ok(k) \/ (\E e : r = Err(e))
      /\ pages = AllPages => k = len
  BY <1>3, RegionBytesIs
<1> HIDE DEF r, k
<1>7. CASE \E e : r = Err(e)
  <2>1. PICK e : r = Err(e)
    BY <1>7
  <2>2. r.tag = "Err"
    BY <2>1 DEF Err
  <2>3. finish(Err(e))
    BY <1>4, <2>1, <2>2 DEF fail
  <2>4. pc' = "done" /\ res'.tag = "Err"
    BY <2>3, FinishIs DEF Err
  <2> QED
    BY <1>1, <1>2, <2>4, FailHere
<1>8. CASE r = Ok(k) /\ k # len
  <2>1. r.tag = "Ok" /\ r.val = k
    BY <1>8 DEF Ok
  <2>2. finish(panic("bytes_read"))
    BY <1>4, <1>8, <2>1 DEF fail
  <2>3. pc' = "done" /\ res'.tag = "Panic" /\ pages # AllPages
    BY <1>6, <1>8, <2>2, FinishIs DEF panic
  <2> QED
    BY <1>1, <1>2, <2>3, FailHere
<1>9. CASE r = Ok(k) /\ k = len
  <2>1. r.tag = "Ok" /\ r.val = len
    BY <1>9 DEF Ok
  <2>2. chunk' = Loaded(Ptr, len) /\ pc' = "sink" /\ UNCHANGED <<cur, total, res>>
    BY <1>4, <2>1
  <2>3. Loaded(Ptr, len) = Fetched(regions, cur, len)
    BY <1>2, <1>3, LoadedMore
  <2>4. CallbackInv'
    BY <1>1, <2>2 DEF CallbackInv
  <2>5. LoopInv'
    BY <1>1, <1>2, <2>2 DEF LoopInv, Put, AllPages
  <2>6. SinkInv'
    BY <1>1, <1>5, <2>2, <2>3 DEF SinkInv
  <2> QED
    BY <1>1, <2>2, <2>4, <2>5, <2>6, Zenon DEF AccessInv, Request
<1> QED
  BY <1>6, <1>7, <1>8, <1>9

\* write_to, second step (guest_memory.rs).
LEMMA SinkAllInv ==
  ASSUME Request, KeepsToLen, LoopInv, CallbackInv, SinkInv, SinkAll
  PROVE  AccessInv'
<1>1. /\ req.kind \in StreamOut /\ dst' = dst \o chunk /\ advance(Len(chunk))
      /\ UNCHANGED <<regions, host, pages, req, cb, chunk, src, interrupts>>
  BY DEF SinkAll, SinkInv
<1>2. /\ req.kind \in Out /\ req.kind \notin Into /\ req.kind \notin StreamIn
      /\ req.kind \notin RegionKinds /\ req.kind \notin RegionBytes
  BY <1>1 DEF Into, Out, StreamIn, StreamOut, Writes, Reads, RegionKinds, RegionBytes, Unimplemented
<1> DEFINE n == min(cb.len, MAX_ACCESS_CHUNK)
<1>3. n \in Nat /\ n <= cb.len /\ (n = 0 => cb.len = 0)
  BY ChunkIs
<1>4. chunk = Fetched(regions, cur, n)
  BY DEF SinkInv
<1> HIDE DEF n
<1>5. /\ Len(chunk) = n /\ chunk = Loaded(Ptr, n)
      /\ dst \o Loaded(Ptr, n) = Fetched(regions, req.addr, total + n)
  BY <1>2, <1>3, <1>4, LoadedMore
<1>6. returned(n) /\ dst' = Fetched(regions, req.addr, total + n)
  BY <1>1, <1>2, <1>5 DEF returned
<1>7. n = 0 => total = req.count
  BY <1>3 DEF CallbackInv
<1>8. /\ host' = [h \in HostBytes |-> host'[h]] /\ src' \in Nat
      /\ Wrote(regions, req.addr, Put(total + n), host')
  BY <1>1, <1>2 DEF LoopInv, Put
<1> QED
  BY <1>1, <1>2, <1>3, <1>6, <1>7, <1>8, MovedInv

\* write_to from a slice (volatile_memory.rs).
LEMMA SinkSliceInv ==
  ASSUME Request, KeepsToLen, LoopInv, CallbackInv, SinkSlice
  PROVE  AccessInv'
<1>1. /\ req.kind \in StreamOut /\ req.slice
      /\ UNCHANGED <<regions, host, pages, req, cb, chunk, src, interrupts>>
  BY DEF SinkSlice
<1>2. /\ req.kind \in Out /\ req.kind \notin Into /\ req.kind \notin StreamIn
      /\ req.kind \notin RegionKinds /\ req.kind \notin RegionBytes
  BY <1>1 DEF Into, Out, StreamIn, StreamOut, Writes, Reads, RegionKinds, RegionBytes, Unimplemented
<1>3. PICK n \in 0 .. cb.len : dst' = dst \o Loaded(Ptr, n) /\ advance(n)
  BY DEF SinkSlice
<1>4. n \in Nat /\ n <= cb.len
  BY DEF CallbackInv
<1>5. dst \o Loaded(Ptr, n) = Fetched(regions, req.addr, total + n)
  BY <1>2, <1>4, LoadedMore
<1>6. returned(n) /\ dst' = Fetched(regions, req.addr, total + n)
  BY <1>2, <1>3, <1>5 DEF returned
<1>7. /\ host' = [h \in HostBytes |-> host'[h]] /\ src' \in Nat
      /\ Wrote(regions, req.addr, Put(total + n), host')
  BY <1>1, <1>2 DEF LoopInv, Put
<1> QED
  BY <1>1, <1>2, <1>4, <1>6, <1>7, MovedInv

\* A stream that fails (guest_memory.rs, volatile_memory.rs).
LEMMA StreamErrorInv ==
  ASSUME Request, KeepsToLen, LoopInv, CallbackInv, pc = "sink" => SinkInv, StreamError
  PROVE  AccessInv'
<1>1. /\ req.kind \in StreamIn \cup StreamOut /\ finish(Err("IOError"))
      /\ UNCHANGED <<regions, host, pages, req>>
  BY DEF StreamError, SinkInv, fail
<1>2. pc' = "done" /\ res'.tag = "Err"
  BY <1>1, FinishIs DEF Err
<1>3. req.kind # "check_range"
  BY <1>1 DEF StreamIn, StreamOut
<1> QED
  BY <1>1, <1>2, <1>3, FailHere

\* A page of the other process that goes away, and an interrupted call, leave
\* the loop where it is (guest_memory.rs).
LEMMA ElsewhereInv ==
  ASSUME AccessInv, pc # "done",
         UNCHANGED <<regions, host, req, pc, cur, total, cb, chunk, src, dst, res>>,
         \/ pages' = pages
         \/ pages' \subseteq pages /\ ~ req.slice
  PROVE  AccessInv'
<1>1. Request' /\ (KeepsToLen' <=> KeepsToLen)
  BY Zenon DEF AccessInv, Request, KeepsToLen, InOneRegion
<1>2. LoopInv => LoopInv'
  BY DEF LoopInv, Put, AllPages
<1>3. (CallbackInv => CallbackInv') /\ (PutInv => PutInv') /\ (SinkInv => SinkInv')
  BY Zenon DEF CallbackInv, PutInv, SinkInv
<1> QED
  BY <1>1, <1>2, <1>3 DEF AccessInv

\* Nothing in guest_memory.rs changes the map or the arguments of a call.
LEMMA RequestKept ==
  ASSUME [Next]_vars
  PROVE  regions' = regions /\ req' = req
<1> QED
  BY Zenon DEF Next, Step, vars, Iterate, Locate, CheckRange, Write, Read, Interrupted, StreamError,
         ReadFromSrc, PutToRegion, GetFromRegion, SinkAll, SinkSlice, Unmap, Done

\* The inductive step (guest_memory.rs, mmap.rs).
LEMMA NextInv ==
  ASSUME AccessInv, [Next]_vars
  PROVE  AccessInv'
<1>1. /\ regions' = regions /\ req' = req
      /\ Request /\ Request' /\ (KeepsToLen' <=> KeepsToLen)
  BY RequestKept, Zenon DEF AccessInv, Request, KeepsToLen, InOneRegion
<1>2. CASE ~ KeepsToLen
  BY <1>1, <1>2 DEF AccessInv
<1>3. CASE UNCHANGED vars
  <2>1. /\ host' = host /\ pages' = pages /\ cur' = cur /\ total' = total /\ cb' = cb
        /\ chunk' = chunk /\ src' = src /\ dst' = dst /\ res' = res /\ pc' = pc
    BY <1>3 DEF vars
  <2>2. LoopInv => LoopInv'
    BY <1>1, <2>1 DEF LoopInv, Put, AllPages
  <2>3. (CallbackInv => CallbackInv') /\ (PutInv => PutInv') /\ (SinkInv => SinkInv')
    BY <1>1, <2>1, Zenon DEF CallbackInv, PutInv, SinkInv
  <2>4. DoneInv => DoneInv'
    BY <1>1, <2>1, Zenon DEF DoneInv, Put, AllPages, Present
  <2> QED
    BY <1>1, <2>1, <2>2, <2>3, <2>4 DEF AccessInv
<1>4. CASE KeepsToLen /\ Next
  <2>1. /\ pc # "done" => LoopInv
        /\ pc \in {"callback", "put", "sink"} => CallbackInv
        /\ pc = "put" => PutInv
        /\ pc = "sink" => SinkInv
    BY <1>4 DEF AccessInv
  <2>2. CASE Iterate
    <3>1. pc = "loop"
      BY <2>2 DEF Iterate
    <3> QED
      BY <1>1, <1>4, <2>1, <2>2, <3>1, IterateInv
  <2>3. CASE Locate
    <3>1. pc = "loop"
      BY <2>3, Zenon DEF Locate
    <3> QED
      BY <1>1, <1>4, <2>1, <2>3, <3>1, LocateInv
  <2>4. CASE CheckRange
    <3>1. pc = "callback"
      BY <2>4 DEF CheckRange
    <3> QED
      BY <1>1, <1>4, <2>1, <2>4, <3>1, CheckRangeInv
  <2>5. CASE Write
    <3>1. pc = "callback"
      BY <2>5 DEF Write
    <3> QED
      BY <1>1, <1>4, <2>1, <2>5, <3>1, WriteInv
  <2>6. CASE Read
    <3>1. pc = "callback"
      BY <2>6 DEF Read
    <3> QED
      BY <1>1, <1>4, <2>1, <2>6, <3>1, ReadInv
  <2>7. CASE Interrupted
    <3>1. /\ pc # "done" /\ pages' = pages
          /\ UNCHANGED <<regions, host, req, pc, cur, total, cb, chunk, src, dst, res>>
      BY <2>7 DEF Interrupted
    <3> QED
      BY <3>1, ElsewhereInv
  <2>8. CASE StreamError
    <3>1. pc \in {"callback", "sink"}
      BY <2>8 DEF StreamError
    <3> QED
      BY <1>1, <1>4, <2>1, <2>8, <3>1, StreamErrorInv
  <2>9. CASE ReadFromSrc
    <3>1. pc = "callback"
      BY <2>9 DEF ReadFromSrc
    <3> QED
      BY <1>1, <1>4, <2>1, <2>9, <3>1, ReadFromSrcInv
  <2>10. CASE PutToRegion
    <3>1. pc = "put"
      BY <2>10 DEF PutToRegion
    <3> QED
      BY <1>1, <1>4, <2>1, <2>10, <3>1, PutToRegionInv
  <2>11. CASE GetFromRegion
    <3>1. pc = "callback"
      BY <2>11 DEF GetFromRegion
    <3> QED
      BY <1>1, <1>4, <2>1, <2>11, <3>1, GetFromRegionInv
  <2>12. CASE SinkAll
    <3>1. pc = "sink"
      BY <2>12 DEF SinkAll
    <3> QED
      BY <1>1, <1>4, <2>1, <2>12, <3>1, SinkAllInv
  <2>13. CASE SinkSlice
    <3>1. pc = "callback"
      BY <2>13 DEF SinkSlice
    <3> QED
      BY <1>1, <1>4, <2>1, <2>13, <3>1, SinkSliceInv
  <2>14. CASE \E p \in pages : Unmap(p)
    <3>1. /\ pc # "done" /\ ~ req.slice /\ pages' \subseteq pages
          /\ UNCHANGED <<regions, host, req, pc, cur, total, cb, chunk, src, dst, res>>
      BY <2>14 DEF Unmap
    <3> QED
      BY <3>1, ElsewhereInv
  <2>15. CASE Done
    BY <1>3, <2>15 DEF Done
  <2> QED
    BY <1>4, <2>2, <2>3, <2>4, <2>5, <2>6, <2>7, <2>8, <2>9, <2>10, <2>11, <2>12, <2>13,
       <2>14, <2>15 DEF Next, Step
<1> QED
  BY <1>2, <1>3, <1>4

\* A call has moved nothing when it starts (guest_memory.rs).
LEMMA InitInv == Init => AccessInv
<1> SUFFICES ASSUME Init PROVE AccessInv
  OBVIOUS
<1>1. Request
  BY Zenon DEF Init, Request
<1>2. req.addr \in Nat /\ req.addr \in Raw
  BY <1>1, RequestIs
<1>3. /\ pc = "loop" /\ cur = req.addr /\ total = 0 /\ src = 0 /\ dst = << >>
      /\ res = Err("Running") /\ pages = AllPages
      /\ host = [h \in HostBytes |-> Untouched(h)]
  BY DEF Init, HostBytes
<1>4. Span(req.addr, 0) = {} /\ Put(0) = 0
  BY <1>2 DEF Span, Put
<1>5. Wrote(regions, req.addr, Put(0), host)
  BY <1>3, <1>4 DEF Wrote
<1>6. Fetched(regions, req.addr, 0) = << >>
  BY DEF Fetched
<1>7. src <= SrcLen /\ cur = req.addr + total
  BY <1>2, <1>3, BoundsAssumption
<1>8. LoopInv
  BY <1>2, <1>3, <1>4, <1>5, <1>6, <1>7 DEF LoopInv
<1> QED
  BY <1>1, <1>3, <1>8 DEF AccessInv

\* Every call, at every step, has moved exactly the first bytes of its request
\* (guest_memory.rs, try_access and its callbacks; mmap.rs, write and read).
LEMMA AccessInvariant == Spec => []AccessInv
<1>1. AccessInv /\ [Next]_vars => AccessInv'
  BY NextInv
<1> QED
  BY <1>1, InitInv, PTL DEF Spec

----------------------------------------------------------------------------
(* The properties                                                          *)

\* Covered, HostOf and Asked in the terms of the invariant.
LEMMA TermsAre ==
  /\ Covered = Cover(regions)
  /\ \A addr : HostOf(addr) = Backing(regions, addr)
  /\ \A n : Asked(n) = Span(req.addr, n)
<1> QED
  BY DEF Covered, Cover, HostOf, Backing, Asked, Span

\* What a call that returned Ok(n) did (guest_memory.rs, mmap.rs).
LEMMA SucceededIs ==
  ASSUME AccessInv, Succeeded, KeepsToLen
  PROVE  /\ res.val \in Nat /\ res.val <= req.count
         /\ Span(req.addr, res.val) \subseteq Cover(regions)
         /\ Wrote(regions, req.addr, Put(res.val), host)
         /\ req.kind \in Into => src = res.val
         /\ req.kind \in Out => dst = Fetched(regions, req.addr, res.val)
         /\ \/ res.val = req.count
            \/ req.addr + res.val \notin Cover(regions)
            \/ req.kind \in StreamIn /\ src = SrcLen
            \/ req.kind \in StreamOut /\ req.slice
            \/ req.kind \in RegionBytes /\ ~ Present(Backing(regions, req.addr + res.val))
<1>1. DoneInv /\ res.tag = "Ok" /\ Request
  BY DEF AccessInv, Succeeded
<1>2. PICK n \in 0 .. req.count :
        /\ Span(req.addr, n) \subseteq Cover(regions)
        /\ Wrote(regions, req.addr, Put(n), host)
        /\ res.val = n
        /\ req.kind \in Into => src = n
        /\ req.kind \in Out => dst = Fetched(regions, req.addr, n)
        /\ \/ n = req.count
           \/ req.addr + n \notin Cover(regions)
           \/ req.kind \in StreamIn /\ src = SrcLen
           \/ req.kind \in StreamOut /\ req.slice
           \/ req.kind \in RegionBytes /\ ~ Present(Backing(regions, req.addr + n))
  BY <1>1 DEF DoneInv
<1>3. n \in Nat /\ n <= req.count
  BY <1>1, RequestIs
<1> QED
  BY <1>2, <1>3

\* The n bytes that a call reports as written are the first n of the source, at
\* the n guest addresses asked for, and exactly those n were taken from it, for
\* every map, request, chunk size and page size (guest_memory.rs, mmap.rs).
THEOREM WritesLand == Spec => []WrittenInPlace
<1>1. AccessInv => WrittenInPlace
  <2> SUFFICES ASSUME AccessInv, Succeeded, req.kind \in StreamIn \cup Writes, KeepsToLen
               PROVE  /\ src = res.val
                      /\ Asked(res.val) \subseteq Covered
                      /\ \A addr \in Asked(res.val) : host[HostOf(addr)] = addr - req.addr + 1
    BY DEF WrittenInPlace
  <2>1. req.kind \in Into /\ Put(res.val) = res.val
    BY DEF Into, Put
  <2>2. /\ src = res.val /\ Span(req.addr, res.val) \subseteq Cover(regions)
        /\ Wrote(regions, req.addr, res.val, host)
    BY <2>1, SucceededIs
  <2> QED
    BY <2>2, TermsAre DEF Wrote
<1> QED
  BY <1>1, AccessInvariant, PTL

\* The n bytes that a call reports as read are those of the n guest addresses
\* asked for, in order, none missing or doubled, for every map, request, chunk
\* size and page size (guest_memory.rs, mmap.rs).
THEOREM ReadsArrive == Spec => []ReadInPlace
<1>1. AccessInv => ReadInPlace
  <2> SUFFICES ASSUME AccessInv, Succeeded, req.kind \in StreamOut \cup Reads, KeepsToLen
               PROVE  /\ Len(dst) = res.val
                      /\ \A i \in 1 .. res.val : dst[i] = Untouched(HostOf(req.addr + i - 1))
    BY DEF ReadInPlace
  <2> DEFINE n == res.val
             S == {Untouched(Backing(regions, x)) : x \in Int}
  <2>1. n \in Nat /\ dst = Fetched(regions, req.addr, n) /\ req.addr \in Nat
    BY SucceededIs, RequestIs DEF Out, AccessInv
  <2> HIDE DEF n
  <2>2. dst \in [1 .. n -> S]
    <3>1. \A i \in 1 .. n : req.addr + i - 1 \in Int
      BY <2>1
    <3> QED
      BY <2>1, <3>1 DEF Fetched
  <2>3. Len(dst) = n
    BY <2>1, <2>2, SeqOf
  <2>4. \A i \in 1 .. n : dst[i] = Untouched(HostOf(req.addr + i - 1))
    BY <2>1, TermsAre DEF Fetched
  <2> QED
    BY <2>3, <2>4 DEF n
<1> QED
  BY <1>1, AccessInvariant, PTL

\* A count short of the request is returned only when the range runs into a
\* hole, the source is at its end, the writer took nothing or, from a region
\* itself, the next byte is no longer mapped (guest_memory.rs, mmap.rs).
THEOREM ShortWithReason == Spec => []ShortForAReason
<1>1. AccessInv => ShortForAReason
  <2> SUFFICES ASSUME AccessInv, Succeeded, res.val < req.count, KeepsToLen
               PROVE  \/ req.addr + res.val \notin Covered
                      \/ req.kind \in StreamIn /\ src = SrcLen
                      \/ req.kind \in StreamOut /\ req.slice
                      \/ req.kind \in RegionBytes /\ ~ Present(HostOf(req.addr + res.val))
    BY DEF ShortForAReason
  <2>1. res.val # req.count
    BY SucceededIs
  <2> QED
    BY <2>1, SucceededIs, TermsAre
<1> QED
  BY <1>1, AccessInvariant, PTL

\* What holds of the host memory at every step of a call (guest_memory.rs).
LEMMA HostIs ==
  ASSUME AccessInv, KeepsToLen
  PROVE  /\ DOMAIN host = HostBytes
         /\ \E n \in 0 .. req.count : /\ Span(req.addr, n) \subseteq Cover(regions)
                                      /\ Wrote(regions, req.addr, Put(n), host)
<1>1. CASE pc = "done"
  BY <1>1 DEF AccessInv, DoneInv
<1>2. CASE pc # "done"
  <2>1. LoopInv /\ req.count \in Nat
    BY <1>2, RequestIs DEF AccessInv
  <2>2. /\ DOMAIN host = HostBytes /\ Span(req.addr, total) \subseteq Cover(regions)
        /\ Wrote(regions, req.addr, Put(total), host) /\ total \in Nat
        /\ total = 0 \/ total < req.count
    BY <2>1 DEF LoopInv
  <2>3. total \in 0 .. req.count
    BY <2>1, <2>2
  <2> QED
    BY <2>2, <2>3
<1> QED
  BY <1>1, <1>2

\* No access, however far it got and however it ends, changes a host byte that
\* does not back one of the guest addresses asked for (guest_memory.rs,
\* mmap.rs), whatever the map and the request are.
THEOREM WritesConfined == Spec => []NoStrayWrite
<1>1. AccessInv => NoStrayWrite
  <2> SUFFICES ASSUME AccessInv, KeepsToLen, NEW h \in DOMAIN host, host[h] # Untouched(h)
               PROVE  \E addr \in Asked(req.count) \cap Covered : HostOf(addr) = h
    BY DEF NoStrayWrite
  <2>1. req.addr \in Nat /\ req.count \in Nat
    BY RequestIs DEF AccessInv
  <2>2. PICK n \in 0 .. req.count : /\ Span(req.addr, n) \subseteq Cover(regions)
                                    /\ Wrote(regions, req.addr, Put(n), host)
    BY HostIs
  <2>3. PICK addr \in Span(req.addr, Put(n)) : Backing(regions, addr) = h
    BY <2>2, HostIs DEF Wrote
  <2>4. addr \in Span(req.addr, n) /\ addr \in Span(req.addr, req.count)
    <3>1. Put(n) \in Nat /\ Put(n) <= n /\ n \in Nat /\ n <= req.count
      BY <2>1 DEF Put
    <3>2. \A a, m, k \in Nat : m <= k => a .. a + m - 1 \subseteq a .. a + k - 1
      OBVIOUS
    <3> QED
      BY <2>1, <2>3, <3>1, <3>2 DEF Span
  <2>5. addr \in Asked(req.count) /\ addr \in Covered /\ HostOf(addr) = h
    BY <2>2, <2>3, <2>4, TermsAre
  <2> QED
    BY <2>5
<1> QED
  BY <1>1, AccessInvariant, PTL

\* check_range accepts a range exactly when every address of it, and its base,
\* is in some region, whatever the map is (guest_memory.rs).
THEOREM RangeChecked == Spec => []CheckRangeExact
<1>1. AccessInv => CheckRangeExact
  <2> SUFFICES ASSUME AccessInv, pc = "done", req.kind = "check_range"
               PROVE  res = Ok(req.count) <=> /\ Asked(req.count) \subseteq Covered
                                              /\ req.addr \in Covered
    BY DEF CheckRangeExact
  <2>1. KeepsToLen
    BY DEF KeepsToLen, Writes, Reads
  <2>2. res = Ok(req.count) <=> Span(req.addr, req.count) \cup {req.addr} \subseteq Cover(regions)
    BY <2>1 DEF AccessInv, DoneInv
  <2> QED
    BY <2>2, TermsAre
<1> QED
  BY <1>1, AccessInvariant, PTL

\* No access whose callback keeps to its length panics while the other process
\* keeps its pages; what is not implemented panics exactly when it gets to a
\* region (guest_memory.rs, mmap.rs).
THEOREM PanicsExplained == Spec => []NoPanicWhileMapped
<1>1. AccessInv => NoPanicWhileMapped
  <2>1. ASSUME AccessInv, res.tag = "Panic", KeepsToLen
        PROVE  pages # AllPages \/ req.kind \in Unimplemented
    <3>1. CASE pc = "done"
      BY <2>1, <3>1 DEF AccessInv, DoneInv
    <3>2. CASE pc # "done"
      BY <2>1, <3>2 DEF AccessInv, LoopInv, Err
    <3> QED
      BY <3>1, <3>2
  <2>2. ASSUME AccessInv, pc = "done", req.kind \in Unimplemented
        PROVE  res.tag = "Panic" <=> req.addr \in Covered
    <3>1. KeepsToLen
      BY <2>2 DEF KeepsToLen, Writes, Reads, Unimplemented
    <3>2. res.tag = "Panic" <=> req.addr \in Cover(regions)
      BY <2>2, <3>1 DEF AccessInv, DoneInv
    <3> QED
      BY <3>2, TermsAre
  <2> QED
    BY <2>1, <2>2 DEF NoPanicWhileMapped
<1> QED
  BY <1>1, AccessInvariant, PTL

----------------------------------------------------------------------------
(* Every call comes to an end                                              *)

\* The bounds that the loop keeps to in every call, those included that do not
\* keep to the length of a region.
LoopBound ==
  /\ Request
  /\ pc \in {"loop", "callback", "put", "sink", "done"}
  /\ interrupts \in 0 .. MaxInterrupts
  /\ pc # "done" =>
       /\ total \in Nat /\ total <= req.count /\ cur \in Raw
       /\ src \in Nat /\ (req.kind \in StreamIn => src <= SrcLen)
  /\ pc \in {"callback", "put", "sink"} =>
       /\ cb.region \in 1 .. Len(regions) /\ cb.start \in Nat /\ cb.len \in Nat
       /\ req.kind \notin RegionKinds => total + cb.len <= req.count
  /\ pc \in {"put", "sink"} => Len(chunk) \in Nat /\ total + Len(chunk) <= req.count

\* What is left to do of a call: bytes, the steps of one turn of the loop, and
\* interrupted system calls that are tried again.
Phase == IF pc = "loop" THEN 3 ELSE IF pc = "callback" THEN 2 ELSE 1

Remaining ==
  IF pc = "done" THEN 0
  ELSE 4 * (req.count - total) + Phase + (MaxInterrupts - interrupts)

\* A step that leaves less to do.
Less == LoopBound' /\ Remaining' \in Nat /\ Remaining' < Remaining

\* There is something left until the call returns.
LEMMA RemainingIs ==
  ASSUME LoopBound
  PROVE  Remaining \in Nat /\ (pc # "done" => Remaining > 0 /\ Phase \in 1 .. 3)
<1>1. req.count \in Nat /\ MaxInterrupts \in Nat /\ interrupts \in 0 .. MaxInterrupts
  BY RequestIs, BoundsAssumption DEF LoopBound
<1>2. pc # "done" => total \in Nat /\ total <= req.count
  BY DEF LoopBound
<1>3. Phase \in 1 .. 3
  BY DEF Phase
<1> QED
  BY <1>1, <1>2, <1>3 DEF Remaining

\* A step that ends the call (guest_memory.rs, try_access).
LEMMA EndLess ==
  ASSUME LoopBound, pc # "done", pc' = "done",
         UNCHANGED <<regions, req, interrupts>>
  PROVE  Less
<1>1. LoopBound'
  BY Zenon DEF LoopBound, Request
<1>2. Remaining' = 0
  BY DEF Remaining
<1> QED
  BY <1>1, <1>2, RemainingIs DEF Less

\* A step on to the next turn of the loop, with n bytes moved.
LEMMA TurnLess ==
  ASSUME LoopBound, pc \in {"callback", "put", "sink"}, pc' = "loop",
         UNCHANGED <<regions, req, interrupts>>,
         NEW n \in Nat, n > 0, total + n <= req.count, total' = total + n, cur' \in Raw,
         src' \in Nat, req.kind \in StreamIn => src' <= SrcLen
  PROVE  Less
<1>1. /\ req.count \in Nat /\ MaxInterrupts \in Nat /\ interrupts \in 0 .. MaxInterrupts
      /\ total \in Nat
  BY RequestIs, BoundsAssumption DEF LoopBound
<1>2. LoopBound'
  <2>1. total' \in Nat /\ total' <= req.count
    BY <1>1
  <2>2. Request' /\ interrupts' \in 0 .. MaxInterrupts
    BY <1>1, Zenon DEF LoopBound, Request
  <2> QED
    BY <2>1, <2>2 DEF LoopBound
<1>3. Remaining' = 4 * (req.count - (total + n)) + 3 + (MaxInterrupts - interrupts)
  BY DEF Remaining, Phase
<1>4. /\ Remaining = 4 * (req.count - total) + Phase + (MaxInterrupts - interrupts)
      /\ Phase \in 1 .. 3
  BY DEF Remaining, Phase
<1> QED
  BY <1>1, <1>2, <1>3, <1>4 DEF Less

\* The callback moved n bytes, no more than are left (guest_memory.rs): Ok(0)
\* ends the loop, and so does the last byte.
LEMMA AdvanceLess ==
  ASSUME LoopBound, pc \in {"callback", "put", "sink"}, UNCHANGED <<regions, req, interrupts>>,
         NEW n \in Nat, total + n <= req.count, advance(n),
         src' \in Nat, req.kind \in StreamIn => src' <= SrcLen
  PROVE  Less
<1>1. CASE pc' = "done"
  BY <1>1, EndLess
<1>2. CASE pc' # "done"
  <2>1. n # 0 /\ total' = total + n /\ pc' = "loop" /\ cur' = overflowing_add(cur, n).value
    BY <1>2, Zenon DEF advance, finish
  <2>2. cur \in Nat
    BY AddrSpaceAssumption DEF LoopBound, Raw
  <2>3. cur' = (cur + n) % AddrSpace
    BY <2>1 DEF overflowing_add
  <2>4. cur' \in Raw
    BY <2>2, <2>3, AddrSpaceAssumption DEF Raw
  <2> QED
    BY <2>1, <2>4, TurnLess
<1> QED
  BY <1>1, <1>2

\* The head of the loop (guest_memory.rs, try_access).
LEMMA IterateLess ==
  ASSUME LoopBound, Iterate \/ Locate
  PROVE  Less
<1>1. /\ pc = "loop" /\ regions \in Layouts /\ req.count \in Nat /\ req.addr \in Raw
      /\ total \in Nat /\ total <= req.count /\ cur \in Raw
      /\ MaxInterrupts \in Nat /\ interrupts \in 0 .. MaxInterrupts
      /\ UNCHANGED <<regions, req, cur, total, src, interrupts>>
  BY RequestIs, BoundsAssumption, Zenon DEF LoopBound, Iterate, Locate
<1>2. regions \in Vectors /\ Ordered(regions) /\ NoneEmpty(regions)
  BY <1>1, LayoutIs, Zenon
<1>3. ASSUME pc' = "callback", cb'.region \in 1 .. Len(regions), cb'.start \in Nat, cb'.len \in Nat,
             req.kind \notin RegionKinds => total + cb'.len <= req.count
      PROVE  Less
  <2>1. LoopBound'
    BY <1>1, <1>3, Zenon DEF LoopBound, Request
  <2>2. Remaining' = 4 * (req.count - total) + 2 + (MaxInterrupts - interrupts)
    BY <1>1, <1>3 DEF Remaining, Phase
  <2>3. Remaining = 4 * (req.count - total) + 3 + (MaxInterrupts - interrupts)
    BY <1>1 DEF Remaining, Phase
  <2> QED
    BY <1>1, <2>1, <2>2, <2>3 DEF Less
<1>4. CASE pc' = "done"
  BY <1>1, <1>4, EndLess
<1>5. CASE pc' # "done" /\ Iterate
  <2> DEFINE i == find_region(regions, cur)
             start == to_region_addr(regions[i], cur)
  <2>1. /\ i # None /\ pc' = "callback" /\ req.kind \notin RegionKinds
        /\ cb' = [region |-> i, start |-> start,
                  len |-> min(regions[i].size - start, req.count - total)]
    BY <1>5, Zenon DEF Iterate, finish
  <2>2. PICK k \in Holding(regions, cur) : TRUE
    BY <1>1, <1>2, <2>1, LookupIs, Zenon
  <2>3. i = k /\ i \in 1 .. Len(regions) /\ start \in 0 .. regions[i].size - 1
    BY <1>1, <1>2, <2>2, LookupIs, Zenon
  <2>4. regions[i].size \in Nat
    BY <1>1, <2>3, LayoutIs, Zenon
  <2> HIDE DEF i, start
  <2>5. cb'.region = i /\ cb'.start = start /\ cb'.len = min(regions[i].size - start, req.count - total)
    BY <2>1
  <2>6. cb'.start \in Nat /\ cb'.len \in Nat /\ total + cb'.len <= req.count
    <3>1. \A s, a, n, t \in Nat :
            a < s /\ t <= n => min(s - a, n - t) \in Nat /\ t + min(s - a, n - t) <= n
      BY DEF min
    <3>2. start \in Nat /\ start < regions[i].size
      BY <2>3, <2>4
    <3>3. total \in Nat /\ req.count \in Nat /\ total <= req.count
      BY <1>1
    <3> QED
      BY <2>4, <2>5, <3>1, <3>2, <3>3
  <2> QED
    BY <1>3, <2>1, <2>3, <2>5, <2>6
<1>6. CASE pc' # "done" /\ Locate
  <2> DEFINE at == memory_to_region_addr(regions, req.addr)
  <2>1. /\ at.tag # "Err" /\ pc' = "callback" /\ req.kind \in RegionKinds
        /\ cb' = [region |-> at.val.region, start |-> at.val.addr, len |-> req.count]
    BY <1>6, Zenon DEF Locate, finish
  <2>2. PICK k \in Holding(regions, req.addr) : TRUE
    <3>1. Holding(regions, req.addr) = {} => at = Err("InvalidGuestAddress")
      BY <1>1, <1>2, LookupIs, Zenon
    <3> QED
      BY <2>1, <3>1 DEF Err
  <2>3. /\ at = Ok([region |-> k, addr |-> req.addr - regions[k].start])
        /\ k \in 1 .. Len(regions) /\ req.addr - regions[k].start \in 0 .. regions[k].size - 1
    BY <1>1, <1>2, <2>2, LookupIs, Zenon
  <2> HIDE DEF at
  <2>4. at.val.region = k /\ at.val.addr = req.addr - regions[k].start
    BY <2>3 DEF Ok
  <2>5. cb'.region = k /\ cb'.start \in Nat /\ cb'.len = req.count
    <3>1. regions[k].size \in Nat
      BY <1>1, <2>3, LayoutIs, Zenon
    <3>2. req.addr - regions[k].start \in Nat
      BY <2>3, <3>1
    <3>3. cb'.region = at.val.region /\ cb'.start = at.val.addr /\ cb'.len = req.count
      BY <2>1
    <3> QED
      BY <2>4, <3>2, <3>3
  <2> QED
    BY <1>1, <1>3, <2>1, <2>3, <2>5
<1> QED
  BY <1>4, <1>5, <1>6

\* A system call moves no more bytes than it is asked for (mmap.rs, write and
\* read).
LEMMA MovedAtMost ==
  ASSUME LoopBound, pc \in {"callback", "put", "sink"}, NEW n \in Nat,
         NEW r, r = region_bytes(Region, cb.start, n), r.tag # "Err"
  PROVE  r.val \in Nat /\ r.val <= n
<1>1. regions \in Layouts /\ cb.region \in 1 .. Len(regions) /\ cb.start \in Nat
  BY RequestIs DEF LoopBound
<1>5. \A i \in 1 .. Len(regions) : regions[i].host \in Nat
  BY <1>1, LayoutIs
<1>6. Region.host \in Nat
  BY <1>1, <1>5 DEF Region
<1>2. Region.host + cb.start \in Nat
  BY <1>1, <1>6
<1> DEFINE k == Reach(Region.host + cb.start, n)
<1>3. k \in 0 .. n
  BY <1>2, ReachIs
<1> HIDE DEF k
<1>4. r = Ok(k)
  BY DEF region_bytes, process_bytes, Err, k
<1> QED
  BY <1>3, <1>4 DEF Ok

\* write and read (guest_memory.rs), of the map or of one region.
LEMMA WriteReadLess ==
  ASSUME LoopBound, Write \/ Read
  PROVE  Less
<1>1. /\ pc = "callback" /\ req.count \in Nat /\ total \in Nat /\ total <= req.count
      /\ req.count - total \in Nat /\ req.kind \notin StreamIn /\ src \in Nat
      /\ UNCHANGED <<regions, req, interrupts>>
  <2>1. req.kind \notin StreamIn
    BY DEF Write, Read, Writes, Reads, StreamIn
  <2>2. pc = "callback" /\ UNCHANGED <<regions, req, interrupts>>
    BY DEF Write, Read
  <2>3. req.count \in Nat
    BY RequestIs DEF LoopBound
  <2>4. total \in Nat /\ total <= req.count /\ src \in Nat
    BY <2>2 DEF LoopBound
  <2> QED
    BY <2>1, <2>2, <2>3, <2>4
<1> DEFINE r == region_bytes(Region, cb.start, req.count - total)
<1>2. CASE r.tag = "Err"
  BY <1>1, <1>2, EndLess, Zenon DEF Write, Read, fail, finish
<1>3. CASE r.tag # "Err"
  <2>1. r.val \in Nat /\ r.val <= req.count - total
    BY <1>1, <1>3, MovedAtMost
  <2>2. returned(r.val) /\ (src' = src \/ src' = src + r.val)
    BY <1>3, Zenon DEF Write, Read
  <2> HIDE DEF r
  <2>3. src' \in Nat /\ total + r.val <= req.count
    BY <1>1, <2>1, <2>2
  <2>4. CASE req.kind \in RegionKinds
    BY <1>1, <2>2, <2>4, EndLess DEF returned, fail, finish
  <2>5. CASE req.kind \notin RegionKinds
    BY <1>1, <2>1, <2>2, <2>3, <2>5, AdvanceLess DEF returned
  <2> QED
    BY <2>4, <2>5
<1> QED
  BY <1>2, <1>3

\* The callbacks that take one step (guest_memory.rs): check_range, and write_to
\* with a slice.
LEMMA OneStepLess ==
  ASSUME LoopBound, CheckRange \/ SinkSlice \/ SinkAll
  PROVE  Less
<1>1. /\ pc \in {"callback", "sink"} /\ UNCHANGED <<regions, req, interrupts, src>>
      /\ src \in Nat /\ (req.kind \in StreamIn => src <= SrcLen)
      /\ total \in Nat /\ req.count \in Nat /\ cb.len \in Nat
  BY RequestIs DEF LoopBound, CheckRange, SinkSlice, SinkAll
<1>2. CASE CheckRange \/ SinkSlice
  <2>1. req.kind \notin RegionKinds
    BY <1>2 DEF CheckRange, SinkSlice, StreamOut, RegionKinds, RegionBytes, Unimplemented
  <2>2. total + cb.len <= req.count
    BY <1>1, <2>1 DEF LoopBound
  <2>3. PICK n \in 0 .. cb.len : advance(n)
    <3>1. CheckRange => advance(cb.len)
      BY DEF CheckRange
    <3>2. SinkSlice => \E n \in 0 .. cb.len : advance(n)
      BY DEF SinkSlice
    <3>3. cb.len \in 0 .. cb.len
      BY <1>1
    <3> QED
      BY <1>2, <3>1, <3>2, <3>3
  <2>4. n \in Nat /\ total + n <= req.count
    BY <1>1, <2>2
  <2> QED
    BY <1>1, <2>3, <2>4, AdvanceLess
<1>3. CASE SinkAll
  <2>1. Len(chunk) \in Nat /\ total + Len(chunk) <= req.count /\ advance(Len(chunk))
    BY <1>3 DEF LoopBound, SinkAll
  <2> QED
    BY <1>1, <2>1, AdvanceLess
<1> QED
  BY <1>2, <1>3

\* A stream that fails, or is interrupted and tried again (guest_memory.rs).
LEMMA StreamLess ==
  ASSUME LoopBound, StreamError \/ Interrupted
  PROVE  Less
<1>1. CASE StreamError
  <2>1. pc # "done" /\ pc' = "done" /\ UNCHANGED <<regions, req, interrupts>>
    BY <1>1 DEF StreamError, fail, finish
  <2> QED
    BY <2>1, EndLess
<1>2. CASE Interrupted
  <2>1. /\ pc = "callback" /\ interrupts' = interrupts + 1 /\ interrupts < MaxInterrupts
        /\ UNCHANGED <<regions, req, pc, cur, total, cb, chunk, src>>
    BY <1>2 DEF Interrupted
  <2>2. /\ req.count \in Nat /\ MaxInterrupts \in Nat /\ interrupts \in 0 .. MaxInterrupts
        /\ total \in Nat /\ total <= req.count
    BY <2>1, RequestIs, BoundsAssumption DEF LoopBound
  <2>3. interrupts' \in 0 .. MaxInterrupts
    BY <2>1, <2>2
  <2>4. LoopBound'
    BY <2>1, <2>3, Zenon DEF LoopBound, Request
  <2>5. /\ Remaining = 4 * (req.count - total) + 2 + (MaxInterrupts - interrupts)
        /\ Remaining' = 4 * (req.count - total) + 2 + (MaxInterrupts - (interrupts + 1))
    BY <2>1 DEF Remaining, Phase
  <2> QED
    BY <2>1, <2>2, <2>4, <2>5 DEF Less
<1> QED
  BY <1>1, <1>2

\* A callback that goes on to its second step (guest_memory.rs, read_from and
\* write_to through the bounce buffer).
LEMMA SecondLess ==
  ASSUME LoopBound, pc = "callback", pc' \in {"put", "sink"},
         UNCHANGED <<regions, req, interrupts, cur, total, cb>>,
         Len(chunk') \in Nat, total + Len(chunk') <= req.count,
         src' \in Nat, req.kind \in StreamIn => src' <= SrcLen
  PROVE  Less
<1>1. /\ req.count \in Nat /\ MaxInterrupts \in Nat /\ interrupts \in 0 .. MaxInterrupts
      /\ total \in Nat /\ total <= req.count
  BY RequestIs, BoundsAssumption DEF LoopBound
<1>2. LoopBound'
  BY Zenon DEF LoopBound, Request
<1>3. /\ Remaining = 4 * (req.count - total) + 2 + (MaxInterrupts - interrupts)
      /\ Remaining' = 4 * (req.count - total) + 1 + (MaxInterrupts - interrupts)
  BY DEF Remaining, Phase
<1>4. \A c, t, m, k \in Nat : t <= c /\ k <= m =>
        /\ 4 * (c - t) + 1 + (m - k) \in Nat
        /\ 4 * (c - t) + 1 + (m - k) < 4 * (c - t) + 2 + (m - k)
  OBVIOUS
<1>5. interrupts \in Nat /\ interrupts <= MaxInterrupts
  BY <1>1
<1>6. Remaining' \in Nat /\ Remaining' < Remaining
  BY <1>1, <1>3, <1>4, <1>5
<1> QED
  BY <1>2, <1>6 DEF Less

\* read_from (guest_memory.rs).
LEMMA ReadFromLess ==
  ASSUME LoopBound, ReadFromSrc \/ PutToRegion
  PROVE  Less
<1>1. /\ req.count \in Nat /\ total \in Nat /\ total <= req.count /\ pc \in {"callback", "put"}
      /\ cb.len \in Nat /\ src \in Nat /\ (req.kind \in StreamIn => src <= SrcLen)
      /\ UNCHANGED <<regions, req, interrupts, cb>>
  BY RequestIs, Zenon DEF LoopBound, ReadFromSrc, PutToRegion
<1>2. CASE ReadFromSrc
  <2> DEFINE len == IF req.slice THEN cb.len ELSE min(cb.len, MAX_ACCESS_CHUNK)
  <2>1. len \in Nat /\ len <= cb.len
    BY <1>1, BoundsAssumption DEF min
  <2>2. PICK n \in ReadCounts(len) :
          /\ src' = src + n
          /\ IF req.slice THEN advance(n)
             ELSE chunk' = Given(src, n) /\ pc' = "put" /\ UNCHANGED <<cur, total>>
    BY <1>2 DEF ReadFromSrc
  <2> HIDE DEF len
  <2>3. pc = "callback" /\ req.kind \in StreamIn /\ req.kind \notin RegionKinds
    BY <1>2 DEF ReadFromSrc, StreamIn, RegionKinds, RegionBytes, Unimplemented
  <2>4. n \in Nat /\ n <= len /\ src + n <= SrcLen
    BY <1>1, <2>1, <2>3, ReadCountIs
  <2>5. total + cb.len <= req.count
    BY <2>3 DEF LoopBound
  <2>6. total + n <= req.count /\ src' \in Nat /\ src' <= SrcLen
    BY <1>1, <2>1, <2>2, <2>4, <2>5
  <2>7. CASE req.slice
    BY <1>1, <2>2, <2>4, <2>6, <2>7, AdvanceLess
  <2>8. CASE ~ req.slice
    <3>1. Len(chunk') = n
      BY <2>2, <2>4, <2>8 DEF Given
    <3> QED
      BY <1>1, <2>2, <2>3, <2>4, <2>6, <2>8, <3>1, SecondLess
  <2> QED
    BY <2>7, <2>8
<1>3. CASE PutToRegion
  <2> DEFINE r == region_bytes(Region, cb.start, Len(chunk))
  <2>1. pc = "put" /\ Len(chunk) \in Nat /\ total + Len(chunk) <= req.count /\ src' = src
    BY <1>3 DEF LoopBound, PutToRegion
  <2>2. CASE pc' = "done"
    BY <1>1, <2>1, <2>2, EndLess
  <2>3. CASE pc' # "done"
    <3>1. r.tag # "Err" /\ advance(r.val)
      BY <1>3, <2>3, Zenon DEF PutToRegion, fail, finish
    <3>2. r.val \in Nat /\ r.val <= Len(chunk)
      BY <2>1, <3>1, MovedAtMost
    <3> HIDE DEF r
    <3>3. total + r.val <= req.count
      BY <1>1, <2>1, <3>2
    <3> QED
      BY <1>1, <2>1, <3>1, <3>2, <3>3, AdvanceLess
  <2> QED
    BY <2>2, <2>3
<1> QED
  BY <1>2, <1>3

\* write_to through the bounce buffer, first step (guest_memory.rs).
LEMMA WriteToLess ==
  ASSUME LoopBound, GetFromRegion
  PROVE  Less
<1>1. /\ req.count \in Nat /\ total \in Nat /\ pc = "callback" /\ cb.len \in Nat
      /\ src \in Nat /\ req.kind \in StreamOut
      /\ UNCHANGED <<regions, req, interrupts, cb, src>>
  BY RequestIs, Zenon DEF LoopBound, GetFromRegion
<1>2. req.kind \notin StreamIn /\ req.kind \notin RegionKinds
  BY <1>1 DEF StreamOut, StreamIn, RegionKinds, RegionBytes, Unimplemented
<1>3. total + cb.len <= req.count
  BY <1>1, <1>2 DEF LoopBound
<1> DEFINE len == min(cb.len, MAX_ACCESS_CHUNK)
<1>4. len \in Nat /\ total + len <= req.count
  BY <1>1, <1>3, BoundsAssumption DEF min
<1>5. CASE pc' = "done"
  BY <1>1, <1>5, EndLess
<1>6. CASE pc' # "done"
  <2>1. chunk' = Loaded(Ptr, len) /\ pc' = "sink" /\ UNCHANGED <<cur, total>>
    BY <1>6, Zenon DEF GetFromRegion, fail, finish
  <2> HIDE DEF len
  <2>2. Len(chunk') = len
    BY <1>4, <2>1 DEF Loaded
  <2> QED
    BY <1>1, <1>2, <1>4, <2>1, <2>2, SecondLess
<1> QED
  BY <1>5, <1>6

\* The call's own steps leave less to do; those of the other process, and
\* stuttering, leave as much (guest_memory.rs).
LEMMA StepLess ==
  ASSUME LoopBound, [Next]_vars
  PROVE  /\ LoopBound' /\ Remaining' \in Nat /\ Remaining' <= Remaining
         /\ Step => Remaining' < Remaining
<1>1. Remaining \in Nat
  BY RemainingIs
<1>2. CASE Step
  <2>1. Less
    BY <1>2, IterateLess, WriteReadLess, OneStepLess, StreamLess, ReadFromLess, WriteToLess DEF Step
  <2> QED
    BY <1>1, <2>1 DEF Less
<1>3. CASE ~ Step
  <2>1. UNCHANGED <<regions, req, pc, cur, total, cb, chunk, src, interrupts>>
    BY <1>3 DEF Next, Unmap, Done, vars
  <2>2. LoopBound' /\ Remaining' = Remaining
    BY <2>1, Zenon DEF LoopBound, Request, Remaining, Phase
  <2> QED
    BY <1>1, <1>3, <2>2
<1> QED
  BY <1>2, <1>3

\* No access runs for ever (guest_memory.rs): every step of try_access and its
\* callbacks leaves less of a finite amount to do, for every map and request, also
\* when a write or read runs over the end of a region, and the process that holds
\* the guest cannot add to it by unmapping pages.
THEOREM AccessRunsOut ==
  Spec => [][/\ Remaining' \in Nat /\ Remaining' <= Remaining
             /\ Step => Remaining' < Remaining]_vars
<1>1. Init => LoopBound
  <2> SUFFICES ASSUME Init PROVE LoopBound
    OBVIOUS
  <2>1. Request
    BY Zenon DEF Init, Request
  <2>2. req.addr \in Raw /\ req.count \in Nat
    BY <2>1, RequestIs
  <2>3. pc = "loop" /\ cur = req.addr /\ total = 0 /\ src = 0 /\ interrupts = 0
    BY DEF Init
  <2>4. MaxInterrupts \in Nat /\ SrcLen \in Nat
    BY BoundsAssumption
  <2> QED
    BY <2>1, <2>2, <2>3, <2>4 DEF LoopBound
<1>2. LoopBound /\ [Next]_vars => LoopBound'
  BY StepLess
<1>3. LoopBound /\ [Next]_vars =>
        [/\ Remaining' \in Nat /\ Remaining' <= Remaining
         /\ Step => Remaining' < Remaining]_vars
  BY StepLess
<1> QED
  BY <1>1, <1>2, <1>3, PTL DEF Spec
=============================================================================
