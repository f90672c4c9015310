------------------------- MODULE GuestRegionsProofs -------------------------
(***************************************************************************)
(* Facts about region vectors (src/src/mmap.rs) and the search in them,    *)
(* for an address space of any size and both build modes; the proofs about *)
(* the modules that extend GuestRegions rest on them.                      *)
(*                                                                         *)
(* from_arc_regions only compares neighbours.  That the whole vector is in *)
(* order and disjoint follows by taking the first region that would not    *)
(* be, and that the search has one place to find by taking the first       *)
(* region that starts behind the address.                                  *)
(***************************************************************************)
EXTENDS GuestRegions, WellFoundedInduction, TLAPS

----------------------------------------------------------------------------
(* Sequences                                                               *)

\* What a Vec or a buffer (mmap.rs, guest_memory.rs) is made of: its elements,
\* by index.
LEMMA SeqDef == \A S : Seq(S) = UNION {[1 .. n -> S] : n \in Nat}
  OBVIOUS

\* Indexing a Vec within its length (mmap.rs) yields one of its elements.
LEMMA ElementOfSeq ==
  ASSUME NEW S, NEW s \in Seq(S), NEW n \in 1 .. Len(s)
  PROVE  s[n] \in S
  OBVIOUS

\* A Vec (mmap.rs) as a function of the index.
LEMMA LenProperties ==
  ASSUME NEW S, NEW s \in Seq(S)
  PROVE  Len(s) \in Nat /\ s \in [1 .. Len(s) -> S] /\ DOMAIN s = 1 .. Len(s)
  OBVIOUS

\* Two buffers (guest_memory.rs) with the same bytes are the same.
LEMMA SeqEqual ==
  ASSUME NEW S, NEW s \in Seq(S), NEW t \in Seq(S), Len(s) = Len(t),
         \A i \in 1 .. Len(s) : s[i] = t[i]
  PROVE  s = t
  OBVIOUS

\* One buffer behind the other (guest_memory.rs), or a region pushed to a Vec
\* (mmap.rs).
LEMMA ConcatProperties ==
  ASSUME NEW S, NEW s \in Seq(S), NEW t \in Seq(S)
  PROVE  /\ s \o t \in Seq(S)
         /\ Len(s \o t) = Len(s) + Len(t)
         /\ \A i \in 1 .. Len(s) + Len(t) :
              (s \o t)[i] = IF i <= Len(s) THEN s[i] ELSE t[i - Len(s)]
  OBVIOUS

\* A part of a buffer or a Vec (guest_memory.rs, mmap.rs).
LEMMA SubSeqProperties ==
  ASSUME NEW S, NEW s, NEW m \in Int, NEW n \in Int, \A i \in m .. n : s[i] \in S
  PROVE  /\ SubSeq(s, m, n) \in Seq(S)
         /\ Len(SubSeq(s, m, n)) = IF m <= n THEN n - m + 1 ELSE 0
         /\ \A i \in 1 .. n - m + 1 : SubSeq(s, m, n)[i] = s[m + i - 1]
  OBVIOUS

----------------------------------------------------------------------------
(* Region vectors                                                          *)

\* Region vectors of regions that GuestRegionMmap::new lets through.
Vectors == {rs \in Seq(GuestRegion) : \A i \in 1 .. Len(rs) : rs[i].start + rs[i].size \in Raw}

Ordered(rs) ==
  \A i, j \in 1 .. Len(rs) : i < j => rs[i].start + rs[i].size <= rs[j].start

NoneEmpty(rs) == \A i \in 1 .. Len(rs) : rs[i].size > 0

\* Every window of the vector passes the test of from_arc_regions.
Windowed(rs) == \A i \in 1 .. Len(rs) - 1 : check_window(rs[i], rs[i + 1]) = "Ok"

\* A part of a sequence as a function: the bytes that a copy (guest_memory.rs,
\* remote_mem.rs) takes out of a buffer.
LEMMA SubSeqIs ==
  ASSUME NEW s, NEW m \in Int, NEW n \in Int, m <= n + 1
  PROVE  SubSeq(s, m, n) = [i \in 1 .. n - m + 1 |-> s[m + i - 1]]
<1> DEFINE S == {s[i] : i \in m .. n}
           part == SubSeq(s, m, n)
<1>1. \A i \in m .. n : s[i] \in S
  OBVIOUS
<1>2. /\ part \in Seq(S) /\ Len(part) = IF m <= n THEN n - m + 1 ELSE 0
      /\ \A i \in 1 .. n - m + 1 : part[i] = s[m + i - 1]
  BY <1>1, SubSeqProperties
<1>3. Len(part) = n - m + 1
  BY <1>2
<1> HIDE DEF part, S
<1>4. part = [i \in 1 .. Len(part) |-> part[i]]
  BY <1>2, LenProperties
<1> QED
  BY <1>2, <1>3, <1>4 DEF part

\* A set of naturals that is not empty has a least element; with it, the first
\* region of a vector (mmap.rs) for which something holds can be named.
LEMMA Least ==
  ASSUME NEW T \in SUBSET Nat, T # {}
  PROVE  \E x \in T : \A y \in T : x <= y
<1>1. PICK x \in T : \A y \in T : ~ (<<y, x>> \in OpToRel(<, Nat))
  BY WFMin, NatLessThanWellFounded, Zenon
<1>2. \A y \in T : ~ (y < x)
  BY <1>1, Zenon DEF OpToRel
<1>3. x \in Nat /\ \A y \in T : y \in Nat
  OBVIOUS
<1>4. \A y \in T : x <= y
  BY <1>2, <1>3
<1> QED
  BY <1>4

\* What is in a region of a vector.
LEMMA RegionIs ==
  ASSUME NEW rs \in Vectors, NEW i \in 1 .. Len(rs)
  PROVE  /\ rs[i] \in GuestRegion
         /\ rs[i].start \in Raw /\ rs[i].size \in Raw
         /\ rs[i].start \in Nat /\ rs[i].size \in Nat
         /\ rs[i].start + rs[i].size \in Raw
         /\ rs[i].start + rs[i].size < AddrSpace
<1>1. rs[i] \in GuestRegion /\ rs[i].start + rs[i].size \in Raw
  BY ElementOfSeq DEF Vectors
<1> QED
  BY <1>1, AddrSpaceAssumption DEF GuestRegion, Raw

\* last_addr of a region that is not empty is its last address.
LEMMA LastAddrIs ==
  ASSUME NEW r \in GuestRegion, r.start + r.size \in Raw, r.size > 0
  PROVE  last_addr(r) = r.start + r.size - 1 /\ last_addr(r) # Panic
<1>1. /\ r.start \in Nat /\ r.size \in Nat /\ AddrSpace \in Nat
      /\ r.start + r.size < AddrSpace
  BY AddrSpaceAssumption DEF GuestRegion, Raw
<1>2. unchecked_sub(r.size, 1) = r.size - 1
  BY <1>1 DEF unchecked_sub, plain, Raw
<1>3. unchecked_add(r.start, r.size - 1) = r.start + r.size - 1
  BY <1>1 DEF unchecked_add, plain, Raw
<1> QED
  BY <1>1, <1>2, <1>3 DEF last_addr, Panic

\* A window passes the test when the second region starts behind the first;
\* an empty first region passes only then, too.
LEMMA WindowIs ==
  ASSUME NEW p \in GuestRegion, NEW n \in GuestRegion, p.start + p.size \in Raw
  PROVE  /\ check_window(p, n) = "Ok" => p.start + p.size <= n.start
         /\ p.size > 0 /\ p.start + p.size <= n.start => check_window(p, n) = "Ok"
         /\ p.size > 0 /\ p.start <= n.start
              => check_window(p, n) \in {"Ok", "MemoryRegionOverlap"}
<1>1. p.start \in Nat /\ p.size \in Nat /\ n.start \in Nat
  BY DEF GuestRegion, Raw
<1>2. CASE p.size = 0
  BY <1>1, <1>2 DEF check_window
<1>3. CASE p.size > 0
  <2>1. last_addr(p) = p.start + p.size - 1 /\ last_addr(p) # Panic
    BY <1>3, LastAddrIs
  <2> QED
    BY <1>1, <1>3, <2>1 DEF check_window
<1> QED
  BY <1>1, <1>2, <1>3

\* Comparing neighbours is enough.
LEMMA WindowsSuffice ==
  ASSUME NEW rs \in Vectors, Windowed(rs)
  PROVE  Ordered(rs)
<1> SUFFICES ASSUME NEW i \in 1 .. Len(rs), NEW j \in 1 .. Len(rs), i < j,
                    ~ (rs[i].start + rs[i].size <= rs[j].start)
             PROVE  FALSE
  BY DEF Ordered
<1>0. Len(rs) \in Nat
  BY LenProperties DEF Vectors
<1> DEFINE T == {k \in Nat : k \in 1 .. Len(rs) /\ i < k
                              /\ ~ (rs[i].start + rs[i].size <= rs[k].start)}
<1>1. PICK k \in T : \A y \in T : k <= y
  <2>1. j \in T
    BY <1>0
  <2> HIDE DEF T
  <2>2. T \in SUBSET Nat
    BY DEF T
  <2> QED
    BY <2>1, <2>2, Least
<1>2. /\ k \in 1 .. Len(rs) /\ i < k
      /\ ~ (rs[i].start + rs[i].size <= rs[k].start)
  BY <1>1
<1>3. k - 1 \in 1 .. Len(rs) - 1 /\ k - 1 \in 1 .. Len(rs) /\ (k - 1) + 1 = k
  BY <1>0, <1>2
<1>4. rs[k - 1].start + rs[k - 1].size <= rs[k].start
  <2>1. check_window(rs[k - 1], rs[k]) = "Ok"
    BY <1>3 DEF Windowed
  <2> QED
    BY <1>2, <1>3, <2>1, RegionIs, WindowIs
<1>5. CASE k - 1 = i
  BY <1>2, <1>4, <1>5
<1>6. CASE k - 1 # i
  <2>1. k - 1 \notin T /\ i < k - 1 /\ k - 1 \in Nat
    BY <1>0, <1>1, <1>2, <1>6
  <2>2. rs[i].start + rs[i].size <= rs[k - 1].start
    BY <1>3, <2>1
  <2>3. /\ rs[i].start \in Nat /\ rs[i].size \in Nat /\ rs[k].start \in Nat
        /\ rs[k - 1].start \in Nat /\ rs[k - 1].size \in Nat
    BY <1>2, <1>3, RegionIs
  <2> HIDE DEF T
  <2>4. \A a, b, s, c \in Nat : a <= b /\ b + s <= c => a <= c
    OBVIOUS
  <2>6. \A a, b \in Nat : a + b \in Nat
    OBVIOUS
  <2>5. rs[i].start + rs[i].size \in Nat
    BY <2>3, <2>6, Zenon
  <2> QED
    BY <1>2, <1>4, <2>2, <2>3, <2>4, <2>5, Zenon
<1> QED
  BY <1>5, <1>6

\* from_arc_regions accepts a vector that is not empty and passes every window,
\* and returns it as it is.
LEMMA FromArcIs ==
  ASSUME NEW rs
  PROVE  /\ from_arc_regions(rs).tag = "Ok" <=> rs # << >> /\ Windowed(rs)
         /\ from_arc_regions(rs).tag = "Ok" => from_arc_regions(rs) = Ok(rs)
<1> DEFINE Bad == {i \in 1 .. Len(rs) - 1 : check_window(rs[i], rs[i + 1]) # "Ok"}
           first == CHOOSE i \in Bad : \A j \in Bad : i <= j
<1>1. from_arc_regions(rs) =
        IF rs = << >> THEN Err("NoMemoryRegion")
        ELSE IF Bad = {} THEN Ok(rs)
        ELSE Err(check_window(rs[first], rs[first + 1]))
  BY Zenon DEF from_arc_regions
<1>2. Bad = {} <=> Windowed(rs)
  BY DEF Windowed
<1> HIDE DEF Bad, first
<1>3. Ok(rs).tag = "Ok" /\ \A e : Err(e).tag = "Err"
  BY DEF Ok, Err
<1> QED
  BY <1>1, <1>2, <1>3

\* The vectors that from_arc_regions returns are in order.
LEMMA FromArcOrdered ==
  ASSUME NEW rs \in Vectors, from_arc_regions(rs).tag = "Ok"
  PROVE  from_arc_regions(rs).val = rs /\ Ordered(rs) /\ rs # << >>
BY FromArcIs, WindowsSuffice DEF Ok

\* In an ordered vector the regions that start at or below an address come
\* first, so that the binary search of the code has one place to find.
LEMMA UpperBoundIs ==
  ASSUME NEW rs \in Vectors, Ordered(rs), NEW addr \in Nat
  PROVE  /\ UpperBound(rs, addr) \in 0 .. Len(rs)
         /\ \A i \in 1 .. UpperBound(rs, addr) : rs[i].start <= addr
         /\ \A i \in UpperBound(rs, addr) + 1 .. Len(rs) : rs[i].start > addr
<1>0. Len(rs) \in Nat
  BY LenProperties DEF Vectors
<1> DEFINE T == {k \in Nat : k <= Len(rs) /\ (k = Len(rs) \/ rs[k + 1].start > addr)}
           Splits(x) == /\ \A i \in 1 .. x : rs[i].start <= addr
                        /\ \A i \in x + 1 .. Len(rs) : rs[i].start > addr
<1>1. PICK k \in T : \A y \in T : k <= y
  <2>1. Len(rs) \in T
    BY <1>0
  <2>2. T \in SUBSET Nat
    OBVIOUS
  <2> HIDE DEF T
  <2> QED
    BY <2>1, <2>2, Least
<1>2. k \in 0 .. Len(rs) /\ (k = Len(rs) \/ rs[k + 1].start > addr)
  BY <1>0
<1>3. \A i \in 1 .. k : rs[i].start <= addr
  <2> TAKE i \in 1 .. k
  <2>1. i - 1 \in Nat /\ i - 1 < k /\ i - 1 < Len(rs) /\ (i - 1) + 1 = i /\ i \in 1 .. Len(rs)
    BY <1>0, <1>2
  <2>2. i - 1 \notin T
    BY <1>1, <1>2, <2>1
  <2>3. ~ (rs[i].start > addr)
    BY <1>0, <2>1, <2>2
  <2> QED
    BY <2>1, <2>3, RegionIs
<1>4. \A i \in k + 1 .. Len(rs) : rs[i].start > addr
  <2> TAKE i \in k + 1 .. Len(rs)
  <2>1. k # Len(rs) /\ rs[k + 1].start > addr
    BY <1>0, <1>2
  <2>2. k + 1 \in 1 .. Len(rs) /\ i \in 1 .. Len(rs)
    BY <1>0, <1>2
  <2>3. CASE i = k + 1
    BY <2>1, <2>3
  <2>4. CASE i # k + 1
    <3>1. rs[k + 1].start + rs[k + 1].size <= rs[i].start
      BY <1>0, <1>2, <2>2, <2>4 DEF Ordered
    <3>2. rs[k + 1].start \in Nat /\ rs[k + 1].size \in Nat /\ rs[i].start \in Nat
      BY <2>2, RegionIs
    <3>3. \A a, s, b, c \in Nat : a > c /\ a + s <= b => b > c
      OBVIOUS
    <3> QED
      BY <2>1, <3>1, <3>2, <3>3
  <2> QED
    BY <2>3, <2>4
<1>5. Splits(k)
  BY <1>3, <1>4
<1>6. UpperBound(rs, addr) = CHOOSE x \in 0 .. Len(rs) : Splits(x)
  BY Zenon DEF UpperBound
<1> HIDE DEF Splits
<1>7. UpperBound(rs, addr) \in 0 .. Len(rs) /\ Splits(UpperBound(rs, addr))
  BY <1>2, <1>5, <1>6, Zenon
<1> QED
  BY <1>7 DEF Splits

\* Two regions of an ordered vector have no address in common.
LEMMA AddrsDiffer ==
  ASSUME NEW rs \in Vectors, Ordered(rs),
         NEW j \in 1 .. Len(rs), NEW k \in 1 .. Len(rs), j # k,
         NEW a, a \in AddrsOf(rs[j]), a \in AddrsOf(rs[k])
  PROVE  FALSE
<1>1. /\ rs[j].start \in Nat /\ rs[j].size \in Nat
      /\ rs[k].start \in Nat /\ rs[k].size \in Nat
  BY RegionIs
<1>2. /\ a \in Int /\ rs[j].start <= a /\ a <= rs[j].start + rs[j].size - 1
      /\ rs[k].start <= a /\ a <= rs[k].start + rs[k].size - 1
  BY <1>1 DEF AddrsOf
<1>3. CASE j < k
  <2>1. rs[j].start + rs[j].size <= rs[k].start
    BY <1>3 DEF Ordered
  <2> QED
    BY <1>1, <1>2, <2>1
<1>4. CASE k < j
  <2>1. rs[k].start + rs[k].size <= rs[j].start
    BY <1>4 DEF Ordered
  <2> QED
    BY <1>1, <1>2, <2>1
<1>5. j \in Int /\ k \in Int
  BY LenProperties DEF Vectors
<1> QED
  BY <1>3, <1>4, <1>5

\* When no region is empty, at most one region starts at an address.
LEMMA StartsDiffer ==
  ASSUME NEW rs \in Vectors, Ordered(rs), NoneEmpty(rs),
         NEW i \in 1 .. Len(rs), NEW j \in 1 .. Len(rs), rs[i].start = rs[j].start
  PROVE  i = j
<1>1. /\ rs[i].start \in Nat /\ rs[i].size \in Nat /\ rs[i].size > 0
      /\ rs[j].start \in Nat /\ rs[j].size \in Nat /\ rs[j].size > 0
  BY RegionIs DEF NoneEmpty
<1>2. i < j => rs[i].start + rs[i].size <= rs[j].start
  BY DEF Ordered
<1>3. j < i => rs[j].start + rs[j].size <= rs[i].start
  BY DEF Ordered
<1>4. i \in Int /\ j \in Int
  BY LenProperties DEF Vectors
<1> QED
  BY <1>1, <1>2, <1>3, <1>4

\* A set of region numbers that is not empty has a largest one.
LEMMA MaxIs ==
  ASSUME NEW n \in Nat, NEW s \in SUBSET (1 .. n), s # {}
  PROVE  Max(s) \in s /\ \A y \in s : y <= Max(s)
<1> DEFINE T == {m \in Nat : \E i \in s : m = n - i}
<1>1. T \in SUBSET Nat /\ T # {}
  <2>1. PICK i \in s : TRUE
    OBVIOUS
  <2>2. i \in 1 .. n
    OBVIOUS
  <2>3. n - i \in T
    BY <2>1, <2>2
  <2> QED
    BY <2>3
<1>2. PICK m \in T : \A y \in T : m <= y
  <2> HIDE DEF T
  <2> QED
    BY <1>1, Least
<1>3. PICK x \in s : m = n - x
  OBVIOUS
<1>4. ASSUME NEW y \in s PROVE x >= y
  <2>1. y \in 1 .. n /\ x \in 1 .. n
    OBVIOUS
  <2>2. n - y \in T
    BY <2>1
  <2>3. n - x <= n - y
    BY <1>2, <1>3, <2>2
  <2> QED
    BY <2>1, <2>3
<1>5. Max(s) \in s /\ \A y \in s : Max(s) >= y
  BY <1>4, Zenon DEF Max
<1>6. \A y \in s : y \in Int
  OBVIOUS
<1> QED
  BY <1>5, <1>6

\* f goes from a set of the first n regions without its last one to the set the
\* way map_and_fold (guest_memory.rs) does.
FoldsLike(f, n, init, mapf, foldf) ==
  f = [s \in SUBSET (1 .. n) |-> IF s = {} THEN init ELSE foldf[f[s \ {Max(s)}]][mapf[Max(s)]]]

\* The values of such a function on the first regions.
FoldsUp(f, n, init, mapf, foldf) ==
  f[{}] = init /\ \A k \in 1 .. n : f[1 .. k] = foldf[f[1 .. k - 1]][mapf[k]]

\* The first regions without the last of them.
LEMMA FirstIs ==
  ASSUME NEW n \in Nat, NEW k \in 1 .. n
  PROVE  /\ 1 .. k \in SUBSET (1 .. n) /\ 1 .. k # {} /\ Max(1 .. k) = k
         /\ (1 .. k) \ {k} = 1 .. k - 1
<1>1. 1 .. k \in SUBSET (1 .. n) /\ k \in 1 .. k /\ 1 .. k # {} /\ (1 .. k) \ {k} = 1 .. k - 1
  OBVIOUS
<1>2. Max(1 .. k) \in 1 .. k /\ k <= Max(1 .. k)
  BY <1>1, MaxIs
<1> QED
  BY <1>1, <1>2

\* Such a function on the first k regions.
LEMMA FoldsLikeIs ==
  ASSUME NEW n \in Nat, NEW init, NEW mapf, NEW foldf, NEW f, FoldsLike(f, n, init, mapf, foldf)
  PROVE  FoldsUp(f, n, init, mapf, foldf)
<1>1. {} \in SUBSET (1 .. n)
  OBVIOUS
<1>2. f[{}] = init
  BY <1>1, Zenon DEF FoldsLike
<1>3. ASSUME NEW k \in 1 .. n
      PROVE  f[1 .. k] = foldf[f[1 .. k - 1]][mapf[k]]
  <2>1. /\ 1 .. k \in SUBSET (1 .. n) /\ 1 .. k # {} /\ Max(1 .. k) = k
        /\ (1 .. k) \ {k} = 1 .. k - 1
    BY FirstIs, Zenon
  <2>2. f[1 .. k] = IF 1 .. k = {} THEN init
                    ELSE foldf[f[(1 .. k) \ {Max(1 .. k)}]][mapf[Max(1 .. k)]]
    BY <2>1, Zenon DEF FoldsLike
  <2> QED
    BY <2>1, <2>2, Zenon
<1> QED
  BY <1>2, <1>3, Zenon DEF FoldsUp

\* Two such functions agree on all regions.
LEMMA FoldsAgree ==
  ASSUME NEW n \in Nat, NEW init, NEW mapf, NEW foldf, NEW f, NEW g,
         FoldsLike(f, n, init, mapf, foldf), FoldsLike(g, n, init, mapf, foldf)
  PROVE  f[1 .. n] = g[1 .. n]
<1>1. f[{}] = init /\ \A k \in 1 .. n : f[1 .. k] = foldf[f[1 .. k - 1]][mapf[k]]
  <2>1. FoldsUp(f, n, init, mapf, foldf)
    BY FoldsLikeIs
  <2> QED
    BY <2>1, Zenon DEF FoldsUp
<1>2. g[{}] = init /\ \A k \in 1 .. n : g[1 .. k] = foldf[g[1 .. k - 1]][mapf[k]]
  <2>1. FoldsUp(g, n, init, mapf, foldf)
    BY FoldsLikeIs
  <2> QED
    BY <2>1, Zenon DEF FoldsUp
<1> DEFINE T == {k \in Nat : k <= n /\ f[1 .. k] # g[1 .. k]}
<1>3. T = {}
  <2> SUFFICES ASSUME T # {} PROVE FALSE
    OBVIOUS
  <2>1. T \in SUBSET Nat
    OBVIOUS
  <2>2. PICK k \in T : \A y \in T : k <= y
    <3> HIDE DEF T
    <3> QED
      BY <2>1, Least
  <2>3. k \in Nat /\ k <= n /\ f[1 .. k] # g[1 .. k]
    OBVIOUS
  <2>4. CASE k = 0
    <3>1. 1 .. k = {}
      BY <2>4
    <3> QED
      BY <1>1, <1>2, <2>3, <3>1, Zenon
  <2>5. CASE k # 0
    <3>1. k \in 1 .. n /\ k - 1 \in Nat /\ k - 1 <= n /\ ~ (k <= k - 1)
      BY <2>3, <2>5
    <3>2. f[1 .. k - 1] = g[1 .. k - 1]
      BY <2>2, <3>1
    <3>3. /\ f[1 .. k] = foldf[f[1 .. k - 1]][mapf[k]]
          /\ g[1 .. k] = foldf[g[1 .. k - 1]][mapf[k]]
      BY <1>1, <1>2, <3>1, Zenon
    <3> QED
      BY <2>3, <3>2, <3>3, Zenon
  <2> QED
    BY <2>4, <2>5
<1>4. n \notin T
  BY <1>3
<1> QED
  BY <1>4

\* A function that goes the way of map_and_fold has its result.
LEMMA FoldIs ==
  ASSUME NEW rs, NEW n \in Nat, DOMAIN rs = 1 .. n, NEW init, NEW mapf, NEW foldf, NEW w,
         FoldsLike(w, n, init, mapf, foldf)
  PROVE  map_and_fold(rs, init, mapf, foldf) = w[1 .. n]
<1> DEFINE iter == CHOOSE f : FoldsLike(f, n, init, mapf, foldf)
<1>1. map_and_fold(rs, init, mapf, foldf) = iter[1 .. n]
  BY Zenon DEF map_and_fold, MapThenFoldSet, FoldsLike
<1>2. FoldsLike(iter, n, init, mapf, foldf)
  BY Zenon
<1> HIDE DEF iter
<1>3. iter[1 .. n] = w[1 .. n]
  BY <1>2, FoldsAgree, Zenon
<1> QED
  BY <1>1, <1>3

----------------------------------------------------------------------------
(* The search                                                              *)

\* The regions that hold an address.
Holding(rs, addr) == {i \in 1 .. Len(rs) : addr \in AddrsOf(rs[i])}

\* The search in one vector.
LEMMA FindIs ==
  ASSUME NEW rs \in Vectors, Ordered(rs), NoneEmpty(rs), NEW addr \in Raw
  PROVE  find_regions(rs, addr) =
           IF Holding(rs, addr) = {} THEN {None} ELSE Holding(rs, addr)
<1> DEFINE x == UpperBound(rs, addr)
<1>0. Len(rs) \in Nat /\ addr \in Nat
  BY LenProperties DEF Vectors, Raw
<1>1. /\ x \in 0 .. Len(rs)
      /\ \A i \in 1 .. x : rs[i].start <= addr
      /\ \A i \in x + 1 .. Len(rs) : rs[i].start > addr
  BY <1>0, UpperBoundIs
<1>2. find_regions(rs, addr) =
        IF Hits(rs, addr) # {} THEN Hits(rs, addr)
        ELSE IF x = 0 THEN {None}
        ELSE IF last_addr(rs[x]) = Panic THEN {Panic}
        ELSE IF addr <= last_addr(rs[x]) THEN {x} ELSE {None}
  BY Zenon DEF find_regions
<1> HIDE DEF x
<1>3. ASSUME NEW i \in 1 .. Len(rs)
      PROVE  /\ rs[i].start \in Nat /\ rs[i].size \in Nat /\ rs[i].size > 0
             /\ i \in Holding(rs, addr) <=>
                  rs[i].start <= addr /\ addr <= rs[i].start + rs[i].size - 1
             /\ last_addr(rs[i]) = rs[i].start + rs[i].size - 1 /\ last_addr(rs[i]) # Panic
  <2>1. /\ rs[i] \in GuestRegion /\ rs[i].start + rs[i].size \in Raw
        /\ rs[i].start \in Nat /\ rs[i].size \in Nat /\ rs[i].size > 0
    BY RegionIs DEF NoneEmpty
  <2>2. addr \in AddrsOf(rs[i]) <=> rs[i].start <= addr /\ addr <= rs[i].start + rs[i].size - 1
    BY <1>0, <2>1 DEF AddrsOf
  <2> QED
    BY <2>1, <2>2, LastAddrIs DEF Holding
<1>4. Holding(rs, addr) \subseteq 1 .. Len(rs)
  BY DEF Holding
<1>5. ASSUME NEW k \in Holding(rs, addr)
      PROVE  Holding(rs, addr) = {k}
  BY AddrsDiffer DEF Holding
<1>6. ASSUME NEW k \in Hits(rs, addr)
      PROVE  find_regions(rs, addr) = {k} /\ Holding(rs, addr) = {k}
  <2>1. k \in 1 .. Len(rs) /\ rs[k].start = addr
    BY DEF Hits
  <2>2. k \in Holding(rs, addr)
    BY <1>0, <1>3, <2>1
  <2>3. Hits(rs, addr) = {k}
    BY <2>1, StartsDiffer DEF Hits
  <2> QED
    BY <1>2, <1>5, <2>2, <2>3
<1>7. ASSUME Hits(rs, addr) = {}, x # 0, addr <= last_addr(rs[x])
      PROVE  find_regions(rs, addr) = {x} /\ Holding(rs, addr) = {x}
  <2>1. x \in 1 .. Len(rs) /\ x \in 1 .. x
    BY <1>0, <1>1, <1>7
  <2>2. x \in Holding(rs, addr) /\ last_addr(rs[x]) # Panic
    BY <1>1, <1>3, <1>7, <2>1
  <2> QED
    BY <1>2, <1>5, <1>7, <2>2
<1>8. ASSUME Hits(rs, addr) = {}, x = 0 \/ ~ (addr <= last_addr(rs[x]))
      PROVE  find_regions(rs, addr) = {None} /\ Holding(rs, addr) = {}
  <2>1. find_regions(rs, addr) = {None}
    <3>1. CASE x = 0
      BY <1>2, <1>8, <3>1
    <3>2. CASE x # 0
      <4>1. x \in 1 .. Len(rs)
        BY <1>0, <1>1, <3>2
      <4> QED
        BY <1>2, <1>3, <1>8, <3>2, <4>1
    <3> QED
      BY <3>1, <3>2
  <2>2. ASSUME NEW i \in 1 .. Len(rs), i \in Holding(rs, addr)
        PROVE  FALSE
    <3>1. rs[i].start <= addr /\ addr <= rs[i].start + rs[i].size - 1
      BY <1>3, <2>2
    <3>2. i <= x
      <4>1. ~ (rs[i].start > addr)
        BY <1>0, <1>3, <3>1
      <4>2. i \notin x + 1 .. Len(rs)
        BY <1>1, <4>1
      <4> QED
        BY <1>0, <1>1, <4>2
    <3>3. x \in 1 .. Len(rs) /\ x \in 1 .. x /\ x # 0
      BY <1>0, <1>1, <3>2
    <3>4. rs[x].start <= addr /\ ~ (addr <= rs[x].start + rs[x].size - 1)
      BY <1>1, <1>3, <1>8, <3>3
    <3>5. i # x
      BY <3>1, <3>4
    <3>6. rs[i].start + rs[i].size <= rs[x].start
      BY <1>0, <3>2, <3>3, <3>5 DEF Ordered
    <3>7. /\ rs[i].start \in Nat /\ rs[i].size \in Nat /\ rs[x].start \in Nat
      BY <1>3, <3>3
    <3> QED
      BY <1>0, <3>1, <3>4, <3>6, <3>7, SMTT(30)
  <2> QED
    BY <1>4, <2>1, <2>2
<1> QED
  BY <1>6, <1>7, <1>8

\* The search in the map (find_region), and the address that the region found
\* has for it (to_region_addr), given a region that holds the address, or none.
LEMMA LookupIs ==
  ASSUME NEW rs \in Vectors, Ordered(rs), NoneEmpty(rs), NEW addr \in Raw
  PROVE  /\ \A i \in Holding(rs, addr) :
              /\ i \in 1 .. Len(rs) /\ i # None /\ i # Panic
              /\ find_region(rs, addr) = i
              /\ addr - rs[i].start \in 0 .. rs[i].size - 1
              /\ to_region_addr(rs[i], addr) = addr - rs[i].start
              /\ to_region_addr(rs[i], addr) # None
              /\ memory_to_region_addr(rs, addr)
                   = Ok([region |-> i, addr |-> addr - rs[i].start])
         /\ Holding(rs, addr) = {} =>
              /\ find_region(rs, addr) = None
              /\ memory_to_region_addr(rs, addr) = Err("InvalidGuestAddress")
<1>0. Len(rs) \in Nat /\ addr \in Nat
  BY LenProperties DEF Vectors, Raw
<1>1. ASSUME NEW i \in Holding(rs, addr)
      PROVE  /\ i \in 1 .. Len(rs) /\ i # None /\ i # Panic
             /\ find_region(rs, addr) = i
             /\ addr - rs[i].start \in 0 .. rs[i].size - 1
             /\ to_region_addr(rs[i], addr) = addr - rs[i].start
             /\ to_region_addr(rs[i], addr) # None
  <2>1. i \in 1 .. Len(rs) /\ addr \in AddrsOf(rs[i])
    BY DEF Holding
  <2>2. find_regions(rs, addr) = Holding(rs, addr)
    BY FindIs
  <2>3. Holding(rs, addr) = {i}
    BY AddrsDiffer DEF Holding
  <2>4. find_region(rs, addr) = i
    BY <2>2, <2>3 DEF find_region
  <2>5. rs[i].start \in Nat /\ rs[i].size \in Nat
    BY <2>1, RegionIs
  <2>6. addr >= rs[i].start /\ addr <= rs[i].start + rs[i].size - 1
    BY <1>0, <2>1, <2>5 DEF AddrsOf
  <2>7. to_region_addr(rs[i], addr) = addr - rs[i].start
    BY <1>0, <2>5, <2>6
    DEF to_region_addr, checked_offset_from, check_address, address_in_range, None
  <2> QED
    BY <1>0, <2>1, <2>4, <2>5, <2>6, <2>7 DEF None, Panic
<1>2. ASSUME NEW i \in Holding(rs, addr)
      PROVE  memory_to_region_addr(rs, addr) = Ok([region |-> i, addr |-> addr - rs[i].start])
  BY <1>1 DEF memory_to_region_addr
<1>3. ASSUME Holding(rs, addr) = {}
      PROVE  /\ find_region(rs, addr) = None
             /\ memory_to_region_addr(rs, addr) = Err("InvalidGuestAddress")
  <2>1. find_region(rs, addr) = None
    BY <1>3, FindIs DEF find_region
  <2> QED
    BY <2>1 DEF memory_to_region_addr
<1> QED
  BY <1>1, <1>2, <1>3
=============================================================================
