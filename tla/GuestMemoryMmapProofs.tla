------------------------- MODULE GuestMemoryMmapProofs -------------------------
(***************************************************************************)
(* The memory map (src/src/mmap.rs) for an address space of any size, any  *)
(* bases and sizes, lists of any length and both build modes.              *)
(*                                                                         *)
(* In a vector that is in order and disjoint, the stable sort of           *)
(* insert_region puts the new region behind the last one that starts       *)
(* before it, and only its two neighbours can overlap it.  The folds over  *)
(* the regions (src/src/guest_memory.rs) are compared with a function that *)
(* has the result for every prefix of the vector.                          *)
(***************************************************************************)
EXTENDS GuestMemoryMmap, GuestRegionsProofs, FiniteSetTheorems

\* A part of a vector.
LEMMA PartIs ==
  ASSUME NEW rs \in Seq(GuestRegion), NEW a \in Nat, NEW b \in Nat, a <= b, b <= Len(rs)
  PROVE  /\ SubSeq(rs, a + 1, b) \in Seq(GuestRegion)
         /\ Len(SubSeq(rs, a + 1, b)) = b - a
         /\ \A i \in 1 .. b - a : SubSeq(rs, a + 1, b)[i] = rs[a + i]
<1>1. \A i \in a + 1 .. b : rs[i] \in GuestRegion
  <2>1. Len(rs) \in Nat
    BY LenProperties
  <2> QED
    BY <2>1, ElementOfSeq
<1> DEFINE part == SubSeq(rs, a + 1, b)
<1>2. /\ part \in Seq(GuestRegion) /\ Len(part) = IF a + 1 <= b THEN b - (a + 1) + 1 ELSE 0
      /\ \A i \in 1 .. b - (a + 1) + 1 : part[i] = rs[(a + 1) + i - 1]
  BY <1>1, SubSeqProperties
<1> HIDE DEF part
<1>3. Len(part) = b - a /\ \A i \in 1 .. b - a : part[i] = rs[a + i]
  BY <1>2
<1> QED
  BY <1>2, <1>3 DEF part

Join(s, t) == s \o t

\* A vector made of two.
LEMMA JoinIs ==
  ASSUME NEW s \in Seq(GuestRegion), NEW t \in Seq(GuestRegion),
         NEW m \in Nat, NEW n \in Nat, Len(s) = m, Len(t) = n
  PROVE  /\ Join(s, t) \in Seq(GuestRegion) /\ Len(Join(s, t)) = m + n
         /\ \A i \in 1 .. m : Join(s, t)[i] = s[i]
         /\ \A i \in 1 .. n : Join(s, t)[m + i] = t[i]
<1>1. /\ s \o t \in Seq(GuestRegion) /\ Len(s \o t) = Len(s) + Len(t)
      /\ \A i \in 1 .. Len(s) + Len(t) :
           (s \o t)[i] = IF i <= Len(s) THEN s[i] ELSE t[i - Len(s)]
  BY ConcatProperties
<1> DEFINE u == s \o t
<1>2. /\ u \in Seq(GuestRegion) /\ Len(u) = m + n
      /\ \A i \in 1 .. m + n : u[i] = IF i <= m THEN s[i] ELSE t[i - m]
  BY <1>1, Zenon
<1> HIDE DEF u
<1>3. \A i \in 1 .. m : u[i] = s[i]
  BY <1>2
<1>4. \A i \in 1 .. n : u[m + i] = t[i]
  <2> TAKE i \in 1 .. n
  <2>1. m + i \in 1 .. m + n /\ ~ (m + i <= m) /\ (m + i) - m = i
    OBVIOUS
  <2> QED
    BY <1>2, <2>1
<1> QED
  BY <1>2, <1>3, <1>4 DEF u, Join

\* Where push_and_sort puts the regions.
LEMMA PushIs ==
  ASSUME NEW rs \in Vectors, Ordered(rs), NEW r \in GuestRegion, r.start + r.size \in Raw,
         NEW x, x = UpperBound(rs, r.start),
         NEW ps, ps = push_and_sort(rs, r)
  PROVE  /\ ps \in Vectors /\ Len(ps) = Len(rs) + 1 /\ x \in 0 .. Len(rs)
         /\ ps[x + 1] = r
         /\ \A i \in 1 .. x : ps[i] = rs[i]
         /\ \A i \in x + 1 .. Len(rs) : ps[i + 1] = rs[i]
<1>0. Len(rs) \in Nat /\ rs \in Seq(GuestRegion) /\ r.start \in Nat
  BY LenProperties DEF Vectors, GuestRegion, Raw
<1>1. x \in 0 .. Len(rs)
  BY <1>0, UpperBoundIs
<1> DEFINE lo == SubSeq(rs, 1, x)
           hi == SubSeq(rs, x + 1, Len(rs))
<1>3. lo \in Seq(GuestRegion) /\ Len(lo) = x /\ \A i \in 1 .. x : lo[i] = rs[i]
  <2>1. /\ SubSeq(rs, 0 + 1, x) \in Seq(GuestRegion) /\ Len(SubSeq(rs, 0 + 1, x)) = x - 0
        /\ \A i \in 1 .. x - 0 : SubSeq(rs, 0 + 1, x)[i] = rs[0 + i]
    BY <1>0, <1>1, PartIs
  <2>2. 0 + 1 = 1 /\ x - 0 = x /\ \A i \in 1 .. x : 0 + i = i
    BY <1>1
  <2> QED
    BY <2>1, <2>2, Zenon
<1>4. /\ hi \in Seq(GuestRegion) /\ Len(hi) = Len(rs) - x
      /\ \A i \in 1 .. Len(rs) - x : hi[i] = rs[x + i]
  BY <1>0, <1>1, PartIs
<1>5. ps = (lo \o <<r>>) \o hi
  BY DEF push_and_sort
<1> DEFINE one == <<r>>
           lr == Join(lo, one)
<1>6. one \in Seq(GuestRegion) /\ Len(one) = 1 /\ one[1] = r
  OBVIOUS
<1> HIDE DEF lo, hi, one
<1>7. /\ lr \in Seq(GuestRegion) /\ Len(lr) = x + 1
      /\ \A i \in 1 .. x : lr[i] = lo[i]
      /\ \A i \in 1 .. 1 : lr[x + i] = one[i]
  <2> DEFINE n == 1
  <2>1. x \in Nat /\ n \in Nat
    BY <1>0, <1>1
  <2>2. lo \in Seq(GuestRegion) /\ Len(lo) = x /\ one \in Seq(GuestRegion) /\ Len(one) = n
    BY <1>3, <1>6, Zenon
  <2> HIDE DEF n
  <2>3. /\ lr \in Seq(GuestRegion) /\ Len(lr) = x + n
        /\ \A i \in 1 .. x : lr[i] = lo[i]
        /\ \A i \in 1 .. n : lr[x + i] = one[i]
    BY <2>1, <2>2, JoinIs
  <2> QED
    BY <2>3 DEF n
<1>8. lr[x + 1] = r /\ \A i \in 1 .. x : lr[i] = rs[i]
  BY <1>3, <1>6, <1>7
<1>9. /\ Join(lr, hi) \in Seq(GuestRegion) /\ Len(Join(lr, hi)) = (x + 1) + (Len(rs) - x)
      /\ \A i \in 1 .. x + 1 : Join(lr, hi)[i] = lr[i]
      /\ \A i \in 1 .. Len(rs) - x : Join(lr, hi)[(x + 1) + i] = hi[i]
  <2> DEFINE m == x + 1
             n == Len(rs) - x
  <2>1. m \in Nat /\ n \in Nat
    BY <1>0, <1>1
  <2>2. lr \in Seq(GuestRegion) /\ Len(lr) = m /\ hi \in Seq(GuestRegion) /\ Len(hi) = n
    BY <1>4, <1>7, Zenon
  <2> HIDE DEF lr, m, n
  <2>3. /\ Join(lr, hi) \in Seq(GuestRegion) /\ Len(Join(lr, hi)) = m + n
        /\ \A i \in 1 .. m : Join(lr, hi)[i] = lr[i]
        /\ \A i \in 1 .. n : Join(lr, hi)[m + i] = hi[i]
    BY <2>1, <2>2, JoinIs
  <2> QED
    BY <2>3 DEF m, n
<1>10. ps = Join(lr, hi)
  BY <1>5 DEF one, Join
<1> HIDE DEF lr
<1>11. /\ ps \in Seq(GuestRegion) /\ Len(ps) = Len(rs) + 1
       /\ ps[x + 1] = r /\ \A i \in 1 .. x : ps[i] = rs[i]
  <2>1. (x + 1) + (Len(rs) - x) = Len(rs) + 1 /\ \A i \in 1 .. x : i \in 1 .. x + 1
    BY <1>0, <1>1
  <2>2. x + 1 \in 1 .. x + 1
    BY <1>1
  <2> QED
    BY <1>8, <1>9, <1>10, <2>1, <2>2, Zenon
<1>12. \A i \in x + 1 .. Len(rs) : ps[i + 1] = rs[i]
  <2> TAKE i \in x + 1 .. Len(rs)
  <2>1. i - x \in 1 .. Len(rs) - x /\ (x + 1) + (i - x) = i + 1 /\ x + (i - x) = i
    BY <1>0, <1>1, SMTT(30)
  <2>2. Join(lr, hi)[(x + 1) + (i - x)] = hi[i - x]
    BY <1>9, <2>1, Zenon
  <2>3. hi[i - x] = rs[x + (i - x)]
    BY <1>4, <2>1, Zenon
  <2>4. ps[(x + 1) + (i - x)] = rs[x + (i - x)]
    BY <1>10, <2>2, <2>3, Zenon
  <2> QED
    BY <2>1, <2>4, Zenon
<1>13. \A i \in 1 .. Len(ps) : ps[i].start + ps[i].size \in Raw
  <2> TAKE i \in 1 .. Len(ps)
  <2>1. CASE i <= x
    <3>1. i \in 1 .. x /\ i \in 1 .. Len(rs)
      BY <1>0, <1>1, <2>1
    <3> QED
      BY <1>11, <3>1, RegionIs
  <2>2. CASE i = x + 1
    BY <1>11, <2>2
  <2>3. CASE i > x + 1
    <3>1. i - 1 \in x + 1 .. Len(rs) /\ i - 1 \in 1 .. Len(rs) /\ (i - 1) + 1 = i
      BY <1>0, <1>1, <1>11, <2>3
    <3> QED
      BY <1>12, <3>1, RegionIs
  <2> QED
    BY <1>0, <1>1, <1>11, <2>1, <2>2, <2>3
<1> QED
  BY <1>1, <1>11, <1>12, <1>13 DEF Vectors

\* What remove_at leaves of the vector.
Cut(rs, k) == SubSeq(rs, 1, k - 1) \o SubSeq(rs, k + 1, Len(rs))

\* It has the other regions, one place further down behind the one removed.
LEMMA CutIs ==
  ASSUME NEW rs \in Vectors, NEW k \in 1 .. Len(rs)
  PROVE  /\ Cut(rs, k) \in Vectors /\ Len(Cut(rs, k)) = Len(rs) - 1
         /\ \A i \in 1 .. k - 1 : Cut(rs, k)[i] = rs[i]
         /\ \A i \in k .. Len(rs) - 1 : Cut(rs, k)[i] = rs[i + 1]
<1>0. Len(rs) \in Nat /\ rs \in Seq(GuestRegion) /\ k \in Nat /\ k - 1 \in Nat /\ k <= Len(rs)
  <2>1. Len(rs) \in Nat /\ rs \in Seq(GuestRegion)
    BY LenProperties DEF Vectors
  <2> QED
    BY <2>1
<1> DEFINE lo == SubSeq(rs, 1, k - 1)
           hi == SubSeq(rs, k + 1, Len(rs))
           cut == Join(lo, hi)
<1>1. lo \in Seq(GuestRegion) /\ Len(lo) = k - 1 /\ \A i \in 1 .. k - 1 : lo[i] = rs[i]
  <2>1. k - 1 <= Len(rs) /\ 0 <= k - 1
    BY <1>0
  <2>2. /\ SubSeq(rs, 0 + 1, k - 1) \in Seq(GuestRegion) /\ Len(SubSeq(rs, 0 + 1, k - 1)) = k - 1 - 0
        /\ \A i \in 1 .. k - 1 - 0 : SubSeq(rs, 0 + 1, k - 1)[i] = rs[0 + i]
    BY <1>0, <2>1, PartIs
  <2>3. 0 + 1 = 1 /\ k - 1 - 0 = k - 1 /\ \A i \in 1 .. k - 1 : 0 + i = i
    BY <1>0
  <2> QED
    BY <2>2, <2>3, Zenon
<1>2. /\ hi \in Seq(GuestRegion) /\ Len(hi) = Len(rs) - k
      /\ \A i \in 1 .. Len(rs) - k : hi[i] = rs[k + i]
  BY <1>0, PartIs
<1> HIDE DEF lo, hi
<1>3. /\ cut \in Seq(GuestRegion) /\ Len(cut) = (k - 1) + (Len(rs) - k)
      /\ \A i \in 1 .. k - 1 : cut[i] = lo[i]
      /\ \A i \in 1 .. Len(rs) - k : cut[(k - 1) + i] = hi[i]
  <2> DEFINE m == k - 1
             n == Len(rs) - k
  <2>1. m \in Nat /\ n \in Nat
    BY <1>0
  <2>2. lo \in Seq(GuestRegion) /\ Len(lo) = m /\ hi \in Seq(GuestRegion) /\ Len(hi) = n
    BY <1>1, <1>2, Zenon
  <2> HIDE DEF m, n
  <2>3. /\ cut \in Seq(GuestRegion) /\ Len(cut) = m + n
        /\ \A i \in 1 .. m : cut[i] = lo[i]
        /\ \A i \in 1 .. n : cut[m + i] = hi[i]
    BY <2>1, <2>2, JoinIs
  <2> QED
    BY <2>3 DEF m, n
<1> HIDE DEF cut
<1>4. Len(cut) = Len(rs) - 1
  BY <1>0, <1>3
<1>5. \A i \in 1 .. k - 1 : cut[i] = rs[i]
  BY <1>1, <1>3
<1>6. \A i \in k .. Len(rs) - 1 : cut[i] = rs[i + 1]
  <2> TAKE i \in k .. Len(rs) - 1
  <2>1. /\ i - (k - 1) \in 1 .. Len(rs) - k /\ (k - 1) + (i - (k - 1)) = i
        /\ k + (i - (k - 1)) = i + 1
    BY <1>0
  <2>2. cut[(k - 1) + (i - (k - 1))] = hi[i - (k - 1)]
    BY <1>3, <2>1, Zenon
  <2>3. hi[i - (k - 1)] = rs[k + (i - (k - 1))]
    BY <1>2, <2>1, Zenon
  <2>4. cut[(k - 1) + (i - (k - 1))] = rs[k + (i - (k - 1))]
    BY <2>2, <2>3, Zenon
  <2> QED
    BY <2>1, <2>4, Zenon
<1>7. \A i \in 1 .. Len(cut) : cut[i].start + cut[i].size \in Raw
  <2> TAKE i \in 1 .. Len(cut)
  <2>1. CASE i < k
    BY <1>0, <1>4, <1>5, <2>1, RegionIs
  <2>2. CASE ~ (i < k)
    <3>1. i \in k .. Len(rs) - 1 /\ i + 1 \in 1 .. Len(rs)
      BY <1>0, <1>4, <2>2
    <3> QED
      BY <1>6, <3>1, RegionIs
  <2> QED
    BY <2>1, <2>2
<1>8. Cut(rs, k) = cut
  BY DEF Cut, Join, cut, lo, hi
<1> QED
  BY <1>3, <1>4, <1>5, <1>6, <1>7, <1>8 DEF Vectors

----------------------------------------------------------------------------
(* The operations of the map                                               *)

\* When no window of a vector is unsorted, the error can only be an overlap.
LEMMA FromArcOverlap ==
  ASSUME NEW rs \in Vectors, rs # << >>, ~ Windowed(rs),
         \A i \in 1 .. Len(rs) - 1 :
           check_window(rs[i], rs[i + 1]) \in {"Ok", "MemoryRegionOverlap"}
  PROVE  from_arc_regions(rs) = Err("MemoryRegionOverlap")
<1> DEFINE Bad == {i \in 1 .. Len(rs) - 1 : check_window(rs[i], rs[i + 1]) # "Ok"}
           IsFirst(i) == \A j \in Bad : i <= j
           first == CHOOSE i \in Bad : IsFirst(i)
<1>1. from_arc_regions(rs) =
        IF rs = << >> THEN Err("NoMemoryRegion")
        ELSE IF Bad = {} THEN Ok(rs)
        ELSE Err(check_window(rs[first], rs[first + 1]))
  BY Zenon DEF from_arc_regions
<1>2. Bad # {} /\ Bad \in SUBSET Nat
  <2>1. Len(rs) \in Nat
    BY LenProperties DEF Vectors
  <2>2. Bad # {}
    BY Zenon DEF Windowed
  <2>3. \A i \in 1 .. Len(rs) - 1 : i \in Nat
    BY <2>1
  <2> QED
    BY <2>2, <2>3, Zenon
<1>3. \A i \in Bad : check_window(rs[i], rs[i + 1]) = "MemoryRegionOverlap"
  OBVIOUS
<1> HIDE DEF Bad
<1>4. \E i \in Bad : IsFirst(i)
  BY <1>2, Least
<1>5. first \in Bad
  BY <1>4, Zenon
<1> HIDE DEF first
<1> QED
  BY <1>1, <1>2, <1>3, <1>5

\* The region that the constructors make of a base and a size.
RegionAt(base, size) == [start |-> base, size |-> size, host |-> 0]

\* make_region on what mmap and build_raw return.
LEMMA MakeIs ==
  ASSUME NEW base \in Raw, NEW size \in Raw
  PROVE  /\ make_region(build_raw(size), base) =
              IF base + size < AddrSpace THEN Ok(RegionAt(base, size))
              ELSE Err("InvalidGuestRegion")
         /\ make_region(mmap_new(size), base) =
              IF size = 0 THEN Err("MmapRegion")
              ELSE IF base + size < AddrSpace THEN Ok(RegionAt(base, size))
              ELSE Err("InvalidGuestRegion")
<1>1. AddrSpace \in Nat /\ base \in Nat /\ size \in Nat
  BY AddrSpaceAssumption DEF Raw
<1>2. checked_add(base, size) = None <=> ~ (base + size < AddrSpace)
  BY <1>1 DEF checked_add, None
<1>3. make_region(build_raw(size), base) =
        IF base + size < AddrSpace THEN Ok(RegionAt(base, size))
        ELSE Err("InvalidGuestRegion")
  BY <1>2 DEF make_region, build_raw, new_region, Ok, Err, RegionAt
<1>4. mmap_new(size) = IF size = 0 THEN Err("MmapRegion") ELSE build_raw(size)
  BY DEF mmap_new, build_raw
<1>5. size = 0 => make_region(mmap_new(size), base) = Err("MmapRegion")
  BY <1>4 DEF make_region, Err
<1> QED
  BY <1>3, <1>4, <1>5

\* It is one that may go into a vector.
LEMMA RegionAtIs ==
  ASSUME NEW base \in Raw, NEW size \in Raw, base + size < AddrSpace
  PROVE  /\ RegionAt(base, size) \in GuestRegion
         /\ RegionAt(base, size).start = base /\ RegionAt(base, size).size = size
         /\ RegionAt(base, size).start + RegionAt(base, size).size \in Raw
BY AddrSpaceAssumption DEF RegionAt, GuestRegion, Raw

\* What insert_region returns when it succeeds.
LEMMA InsertIs ==
  ASSUME NEW rs \in Vectors, Ordered(rs), NEW r \in GuestRegion, r.start + r.size \in Raw,
         insert_region(rs, r).tag = "Ok"
  PROVE  /\ insert_region(rs, r).val = push_and_sort(rs, r)
         /\ push_and_sort(rs, r) \in Vectors /\ Ordered(push_and_sort(rs, r))
<1>1. push_and_sort(rs, r) \in Vectors
  BY PushIs
<1> QED
  BY <1>1, FromArcOrdered DEF insert_region

\* The vector with the new region: every region is an old one or the new one,
\* and each of them is there.
LEMMA PushElements ==
  ASSUME NEW rs \in Vectors, Ordered(rs), NEW r \in GuestRegion, r.start + r.size \in Raw,
         NEW ps, ps = push_and_sort(rs, r)
  PROVE  /\ \A i \in 1 .. Len(ps) : ps[i] = r \/ \E j \in 1 .. Len(rs) : ps[i] = rs[j]
         /\ \A j \in 1 .. Len(rs) : \E i \in 1 .. Len(ps) : ps[i] = rs[j]
         /\ \E i \in 1 .. Len(ps) : ps[i] = r
<1> DEFINE x == UpperBound(rs, r.start)
<1> HIDE DEF x
<1>1. /\ Len(ps) = Len(rs) + 1 /\ x \in 0 .. Len(rs) /\ ps[x + 1] = r
      /\ \A i \in 1 .. x : ps[i] = rs[i]
      /\ \A i \in x + 1 .. Len(rs) : ps[i + 1] = rs[i]
  BY PushIs DEF x
<1>2. Len(rs) \in Nat
  BY LenProperties DEF Vectors
<1>3. ASSUME NEW i \in 1 .. Len(ps)
      PROVE  ps[i] = r \/ \E j \in 1 .. Len(rs) : ps[i] = rs[j]
  <2>1. CASE i <= x
    <3>1. i \in 1 .. x /\ i \in 1 .. Len(rs)
      BY <1>1, <1>2, <2>1
    <3> QED
      BY <1>1, <3>1
  <2>2. CASE i = x + 1
    BY <1>1, <2>2
  <2>3. CASE i > x + 1
    <3>1. i - 1 \in x + 1 .. Len(rs) /\ i - 1 \in 1 .. Len(rs) /\ (i - 1) + 1 = i
      BY <1>1, <1>2, <2>3
    <3>2. ps[i] = rs[i - 1]
      BY <1>1, <3>1
    <3> QED
      BY <3>1, <3>2
  <2> QED
    BY <1>1, <1>2, <2>1, <2>2, <2>3
<1>4. ASSUME NEW j \in 1 .. Len(rs)
      PROVE  \E i \in 1 .. Len(ps) : ps[i] = rs[j]
  <2>1. CASE j <= x
    <3>1. j \in 1 .. x /\ j \in 1 .. Len(ps)
      BY <1>1, <1>2, <2>1
    <3> QED
      BY <1>1, <3>1
  <2>2. CASE j > x
    <3>1. j \in x + 1 .. Len(rs) /\ j + 1 \in 1 .. Len(ps)
      BY <1>1, <1>2, <2>2
    <3> QED
      BY <1>1, <3>1
  <2> QED
    BY <1>1, <2>1, <2>2
<1>5. x + 1 \in 1 .. Len(ps)
  BY <1>1, <1>2
<1> QED
  BY <1>1, <1>3, <1>4, <1>5

\* insert_region covers the old addresses and those of the new region.
LEMMA InsertCovers ==
  ASSUME NEW rs \in Vectors, Ordered(rs), NEW r \in GuestRegion, r.start + r.size \in Raw
  PROVE  Covered(push_and_sort(rs, r)) = Covered(rs) \cup AddrsOf(r)
<1> DEFINE ps == push_and_sort(rs, r)
<1>1. /\ \A i \in 1 .. Len(ps) : ps[i] = r \/ \E j \in 1 .. Len(rs) : ps[i] = rs[j]
      /\ \A j \in 1 .. Len(rs) : \E i \in 1 .. Len(ps) : ps[i] = rs[j]
      /\ \E i \in 1 .. Len(ps) : ps[i] = r
  BY PushElements
<1> HIDE DEF ps
<1>2. \A a : a \in Covered(ps) <=> \E i \in 1 .. Len(ps) : a \in AddrsOf(ps[i])
  BY DEF Covered
<1>3. \A a : a \in Covered(rs) <=> \E i \in 1 .. Len(rs) : a \in AddrsOf(rs[i])
  BY DEF Covered
<1>4. ASSUME NEW a
      PROVE  a \in Covered(ps) <=> a \in Covered(rs) \/ a \in AddrsOf(r)
  BY <1>1, <1>2, <1>3, Zenon
<1> QED
  BY <1>4 DEF ps

\* When no region is empty, insert_region succeeds on a region that shares no
\* address with the map, and reports an overlap otherwise.
LEMMA InsertDecides ==
  ASSUME NEW rs \in Vectors, Ordered(rs), NoneEmpty(rs),
         NEW r \in GuestRegion, r.start + r.size \in Raw, r.size > 0
  PROVE  IF AddrsOf(r) \cap Covered(rs) = {}
         THEN insert_region(rs, r).tag = "Ok"
         ELSE insert_region(rs, r) = Err("MemoryRegionOverlap")
<1> DEFINE ps == push_and_sort(rs, r)
           x == UpperBound(rs, r.start)
           Apart == AddrsOf(r) \cap Covered(rs) = {}
<1>0. /\ Len(rs) \in Nat /\ r.start \in Nat /\ r.size \in Nat
  BY LenProperties DEF Vectors, GuestRegion, Raw
<1>1. /\ ps \in Vectors /\ Len(ps) = Len(rs) + 1 /\ x \in 0 .. Len(rs)
      /\ ps[x + 1] = r
      /\ \A i \in 1 .. x : ps[i] = rs[i]
      /\ \A i \in x + 1 .. Len(rs) : ps[i + 1] = rs[i]
  BY PushIs
<1>2. /\ \A i \in 1 .. x : rs[i].start <= r.start
      /\ \A i \in x + 1 .. Len(rs) : rs[i].start > r.start
  BY <1>0, UpperBoundIs
<1>3. insert_region(rs, r) = from_arc_regions(ps)
  BY DEF insert_region
<1>4. \A i \in 1 .. Len(rs) : AddrsOf(rs[i]) \subseteq Covered(rs)
  BY DEF Covered
<1> HIDE DEF ps, x
\* One case for each kind of window: both old, the new one second or first.
<1>5. ASSUME NEW i \in 1 .. Len(rs)
      PROVE  /\ ps[i].size > 0
             /\ ps[i].start <= ps[i + 1].start
             /\ Apart => ps[i].start + ps[i].size <= ps[i + 1].start
  <2>1. ASSUME NEW j \in 1 .. Len(rs) - 1
        PROVE  /\ rs[j].size > 0 /\ rs[j].start <= rs[j + 1].start
               /\ rs[j].start + rs[j].size <= rs[j + 1].start
    <3>1. j \in 1 .. Len(rs) /\ j + 1 \in 1 .. Len(rs) /\ j < j + 1
      BY <1>0
    <3>2. rs[j].size > 0 /\ rs[j].start + rs[j].size <= rs[j + 1].start
      BY <3>1 DEF Ordered, NoneEmpty
    <3>3. rs[j].start \in Nat /\ rs[j].size \in Nat /\ rs[j + 1].start \in Nat
      BY <3>1, RegionIs
    <3> QED
      BY <3>2, <3>3
  <2>2. CASE i < x
    <3>1. i \in 1 .. x /\ i + 1 \in 1 .. x /\ i \in 1 .. Len(rs) - 1
      BY <1>0, <1>1, <2>2
    <3>2. ps[i] = rs[i] /\ ps[i + 1] = rs[i + 1]
      BY <1>1, <3>1
    <3> QED
      BY <2>1, <3>1, <3>2
  <2>3. CASE i = x
    <3>1. i \in 1 .. x
      BY <1>0, <1>1, <2>3
    <3>2. ps[i] = rs[i] /\ ps[i + 1] = r /\ rs[i].start <= r.start /\ rs[i].size > 0
      BY <1>1, <1>2, <2>3, <3>1 DEF NoneEmpty
    <3>3. rs[i].start \in Nat /\ rs[i].size \in Nat
      BY RegionIs
    <3>4. ASSUME Apart
          PROVE  rs[i].start + rs[i].size <= r.start
      <4>1. r.start \notin AddrsOf(rs[i])
        <5>1. r.start \in AddrsOf(r)
          BY <1>0 DEF AddrsOf
        <5> QED
          BY <1>4, <3>4, <5>1
      <4> QED
        BY <1>0, <3>2, <3>3, <4>1 DEF AddrsOf
    <3> QED
      BY <3>2, <3>4
  <2>4. CASE i = x + 1
    <3>1. i \in x + 1 .. Len(rs)
      BY <1>0, <1>1, <2>4
    <3>2. ps[i] = r /\ ps[i + 1] = rs[i] /\ rs[i].start > r.start /\ rs[i].size > 0
      BY <1>1, <1>2, <2>4, <3>1 DEF NoneEmpty
    <3>3. rs[i].start \in Nat /\ rs[i].size \in Nat
      BY RegionIs
    <3>4. ASSUME Apart
          PROVE  r.start + r.size <= rs[i].start
      <4>1. rs[i].start \notin AddrsOf(r)
        <5>1. rs[i].start \in AddrsOf(rs[i])
          BY <3>2, <3>3 DEF AddrsOf
        <5> QED
          BY <1>4, <3>4, <5>1
      <4> QED
        BY <1>0, <3>2, <3>3, <4>1 DEF AddrsOf
    <3>5. r.start <= rs[i].start
      BY <1>0, <3>2, <3>3
    <3> QED
      BY <3>2, <3>4, <3>5
  <2>5. CASE i > x + 1
    <3>1. /\ i - 1 \in x + 1 .. Len(rs) /\ i \in x + 1 .. Len(rs)
          /\ i - 1 \in 1 .. Len(rs) - 1 /\ (i - 1) + 1 = i
      BY <1>0, <1>1, <2>5
    <3>2. ps[i] = rs[i - 1] /\ ps[i + 1] = rs[i]
      BY <1>1, <3>1
    <3> QED
      BY <2>1, <3>1, <3>2
  <2> QED
    BY <1>0, <1>1, <2>2, <2>3, <2>4, <2>5
<1>6. ASSUME NEW i \in 1 .. Len(rs)
      PROVE  /\ check_window(ps[i], ps[i + 1]) \in {"Ok", "MemoryRegionOverlap"}
             /\ Apart => check_window(ps[i], ps[i + 1]) = "Ok"
  <2>1. i \in 1 .. Len(ps) /\ i + 1 \in 1 .. Len(ps)
    BY <1>0, <1>1
  <2>2. ps[i] \in GuestRegion /\ ps[i + 1] \in GuestRegion /\ ps[i].start + ps[i].size \in Raw
    BY <1>1, <2>1, RegionIs
  <2> QED
    BY <1>5, <2>2, WindowIs
<1>7. Len(ps) - 1 = Len(rs) /\ ps # << >>
  <2>1. Len(ps) \in Nat /\ Len(ps) # 0
    BY <1>0, <1>1
  <2>2. ps # << >>
    BY <2>1
  <2> QED
    BY <1>0, <1>1, <2>2
<1>8. CASE Apart
  <2>1. Windowed(ps)
    BY <1>6, <1>7, <1>8 DEF Windowed
  <2> QED
    BY <1>3, <1>7, <1>8, <2>1, FromArcIs
<1>9. CASE ~ Apart
  <2>1. PICK a \in AddrsOf(r) : a \in Covered(rs)
    BY <1>9
  <2>2. PICK j \in 1 .. Len(rs) : a \in AddrsOf(rs[j])
    BY <2>1 DEF Covered
  <2>3. ~ Windowed(ps)
    <3>1. SUFFICES ASSUME Ordered(ps)
                   PROVE  FALSE
      BY <1>1, WindowsSuffice
    <3>2. x + 1 \in 1 .. Len(ps)
      BY <1>0, <1>1
    <3>3. /\ r.start <= a /\ a <= r.start + r.size - 1 /\ a \in Int
          /\ rs[j].start <= a /\ a <= rs[j].start + rs[j].size - 1
          /\ rs[j].start \in Nat /\ rs[j].size \in Nat
      <4>1. rs[j].start \in Nat /\ rs[j].size \in Nat
        BY RegionIs
      <4> QED
        BY <1>0, <2>1, <2>2, <4>1 DEF AddrsOf
    <3>4. CASE j <= x
      <4>1. j \in 1 .. x /\ j \in 1 .. Len(ps) /\ j < x + 1
        BY <1>0, <1>1, <3>4
      <4>2. rs[j].start + rs[j].size <= r.start
        BY <1>1, <3>1, <3>2, <4>1 DEF Ordered
      <4> QED
        BY <1>0, <3>3, <4>2
    <3>5. CASE j > x
      <4>1. j \in x + 1 .. Len(rs) /\ j + 1 \in 1 .. Len(ps) /\ x + 1 < j + 1
        BY <1>0, <1>1, <3>5
      <4>2. r.start + r.size <= rs[j].start
        BY <1>1, <3>1, <3>2, <4>1 DEF Ordered
      <4> QED
        BY <1>0, <3>3, <4>2
    <3> QED
      BY <1>1, <3>4, <3>5
  <2> QED
    BY <1>1, <1>3, <1>6, <1>7, <1>9, <2>3, FromArcOverlap
<1> QED
  BY <1>8, <1>9

\* A region taken out of an ordered vector leaves an ordered one.
LEMMA CutOrdered ==
  ASSUME NEW rs \in Vectors, NEW k \in 1 .. Len(rs)
  PROVE  /\ Ordered(rs) => Ordered(Cut(rs, k))
         /\ NoneEmpty(rs) => NoneEmpty(Cut(rs, k))
<1> DEFINE cut == Cut(rs, k)
           at(i) == IF i < k THEN i ELSE i + 1
<1>0. Len(rs) \in Nat
  BY LenProperties DEF Vectors
<1>1. /\ Len(cut) = Len(rs) - 1
      /\ \A i \in 1 .. k - 1 : cut[i] = rs[i]
      /\ \A i \in k .. Len(rs) - 1 : cut[i] = rs[i + 1]
  BY CutIs
<1> HIDE DEF cut
<1>2. ASSUME NEW i \in 1 .. Len(cut)
      PROVE  cut[i] = rs[at(i)] /\ at(i) \in 1 .. Len(rs)
  <2>1. CASE i < k
    <3>1. i \in 1 .. k - 1 /\ at(i) = i /\ at(i) \in 1 .. Len(rs)
      BY <1>0, <1>1, <2>1
    <3> QED
      BY <1>1, <3>1
  <2>2. CASE ~ (i < k)
    <3>1. i \in k .. Len(rs) - 1 /\ at(i) = i + 1 /\ at(i) \in 1 .. Len(rs)
      BY <1>0, <1>1, <2>2
    <3> QED
      BY <1>1, <3>1
  <2> QED
    BY <2>1, <2>2
<1>3. \A i, j \in 1 .. Len(cut) : i < j => at(i) < at(j)
  BY <1>0, <1>1
<1> HIDE DEF at
<1>4. Ordered(rs) => Ordered(cut)
  BY <1>2, <1>3 DEF Ordered
<1>5. NoneEmpty(rs) => NoneEmpty(cut)
  BY <1>2 DEF NoneEmpty
<1> QED
  BY <1>4, <1>5 DEF cut

\* A region that ends before another one starts does so before all that start
\* later (from_arc_regions).
LEMMA WindowWidens ==
  ASSUME NEW p, NEW n \in GuestRegion, NEW m \in GuestRegion,
         p \in GuestRegion, p.start + p.size \in Raw,
         check_window(p, n) = "Ok", n.start <= m.start
  PROVE  check_window(p, m) = "Ok"
<1>1. p.start \in Nat /\ n.start \in Nat /\ m.start \in Nat
  BY DEF GuestRegion, Raw
<1>2. ~ (p.start > n.start) /\ last_addr(p) # Panic /\ ~ (last_addr(p) >= n.start)
  BY DEF check_window
<1>3. last_addr(p) \in Int
  BY <1>1, AddrSpaceAssumption, OverflowChecksAssumption
     DEF GuestRegion, Raw, last_addr, unchecked_sub, unchecked_add, plain, Panic
<1>4. ~ (p.start > m.start) /\ ~ (last_addr(p) >= m.start)
  BY <1>1, <1>2, <1>3
<1> QED
  BY <1>2, <1>4 DEF check_window

\* A region taken out of a vector that from_arc_regions accepts leaves one whose
\* windows it would accept, although remove_region does not ask it.
LEMMA CutWindowed ==
  ASSUME NEW rs \in Vectors, Ordered(rs), Windowed(rs), NEW k \in 1 .. Len(rs)
  PROVE  Windowed(Cut(rs, k))
<1> DEFINE cut == Cut(rs, k)
<1>0. Len(rs) \in Nat
  BY LenProperties DEF Vectors
<1>1. /\ Len(cut) = Len(rs) - 1
      /\ \A i \in 1 .. k - 1 : cut[i] = rs[i]
      /\ \A i \in k .. Len(rs) - 1 : cut[i] = rs[i + 1]
  BY CutIs
<1> HIDE DEF cut
<1> SUFFICES ASSUME NEW i \in 1 .. Len(cut) - 1
             PROVE  check_window(cut[i], cut[i + 1]) = "Ok"
  BY DEF Windowed, cut
<1>2. /\ i \in Nat /\ i \in 1 .. Len(rs) - 1 /\ i + 1 \in 1 .. Len(rs) - 1
      /\ i + 1 \in 1 .. Len(rs) /\ i + 2 \in 1 .. Len(rs) /\ (i + 1) + 1 = i + 2 /\ i \in 1 .. Len(rs)
  BY <1>0, <1>1
<1>3. check_window(rs[i], rs[i + 1]) = "Ok" /\ check_window(rs[i + 1], rs[i + 2]) = "Ok"
  BY <1>2 DEF Windowed
<1>4. CASE i + 1 < k
  <2>1. i \in 1 .. k - 1 /\ i + 1 \in 1 .. k - 1
    BY <1>2, <1>4
  <2> QED
    BY <1>1, <1>3, <2>1
<1>5. CASE i + 1 = k
  <2>1. i \in 1 .. k - 1 /\ i + 1 \in k .. Len(rs) - 1
    BY <1>2, <1>5
  <2>2. cut[i] = rs[i] /\ cut[i + 1] = rs[i + 2]
    BY <1>1, <1>2, <2>1
  <2>3. /\ rs[i] \in GuestRegion /\ rs[i].start + rs[i].size \in Raw
        /\ rs[i + 1] \in GuestRegion /\ rs[i + 2] \in GuestRegion
        /\ rs[i + 1].start \in Nat /\ rs[i + 1].size \in Nat /\ rs[i + 2].start \in Nat
    BY <1>2, RegionIs
  <2>4. rs[i + 1].start + rs[i + 1].size <= rs[i + 2].start
    BY <1>2 DEF Ordered
  <2>5. rs[i + 1].start <= rs[i + 2].start
    BY <2>3, <2>4
  <2> QED
    BY <1>3, <2>2, <2>3, <2>5, WindowWidens
<1>6. CASE i + 1 > k
  <2>1. i \in k .. Len(rs) - 1 /\ i + 1 \in k .. Len(rs) - 1
    BY <1>0, <1>2, <1>6
  <2>2. cut[i] = rs[i + 1] /\ cut[i + 1] = rs[i + 2]
    BY <1>1, <1>2, <2>1
  <2> QED
    BY <1>3, <2>2
<1> QED
  BY <1>2, <1>4, <1>5, <1>6

\* The addresses it takes away are those of the region, as no other has them.
LEMMA CutCovers ==
  ASSUME NEW rs \in Vectors, Ordered(rs), NEW k \in 1 .. Len(rs)
  PROVE  Covered(Cut(rs, k)) = Covered(rs) \ AddrsOf(rs[k])
<1> DEFINE cut == Cut(rs, k)
<1>0. Len(rs) \in Nat
  BY LenProperties DEF Vectors
<1>1. /\ Len(cut) = Len(rs) - 1
      /\ \A i \in 1 .. k - 1 : cut[i] = rs[i]
      /\ \A i \in k .. Len(rs) - 1 : cut[i] = rs[i + 1]
  BY CutIs
<1> HIDE DEF cut
<1>2. \A i \in 1 .. Len(cut) : \E j \in 1 .. Len(rs) : j # k /\ cut[i] = rs[j]
  <2> TAKE i \in 1 .. Len(cut)
  <2>1. CASE i < k
    <3>1. i \in 1 .. k - 1 /\ i \in 1 .. Len(rs) /\ i # k
      BY <1>0, <1>1, <2>1
    <3> QED
      BY <1>1, <3>1
  <2>2. CASE ~ (i < k)
    <3>1. i \in k .. Len(rs) - 1 /\ i + 1 \in 1 .. Len(rs) /\ i + 1 # k
      BY <1>0, <1>1, <2>2
    <3> QED
      BY <1>1, <3>1
  <2> QED
    BY <2>1, <2>2
<1>3. \A j \in 1 .. Len(rs) : j # k => \E i \in 1 .. Len(cut) : cut[i] = rs[j]
  <2> TAKE j \in 1 .. Len(rs)
  <2>1. CASE j < k
    <3>1. j \in 1 .. k - 1 /\ j \in 1 .. Len(cut)
      BY <1>0, <1>1, <2>1
    <3> QED
      BY <1>1, <3>1
  <2>2. CASE j > k
    <3>1. j - 1 \in k .. Len(rs) - 1 /\ j - 1 \in 1 .. Len(cut) /\ (j - 1) + 1 = j
      BY <1>0, <1>1, <2>2
    <3>2. cut[j - 1] = rs[j]
      BY <1>1, <3>1
    <3> QED
      BY <3>1, <3>2
  <2> QED
    BY <2>1, <2>2
<1>4. ASSUME NEW j \in 1 .. Len(rs), j # k, NEW a \in AddrsOf(rs[j]), a \in AddrsOf(rs[k])
      PROVE  FALSE
  BY <1>4, AddrsDiffer
<1>5. \A a : a \in Covered(cut) <=> \E i \in 1 .. Len(cut) : a \in AddrsOf(cut[i])
  BY DEF Covered
<1>6. \A a : a \in Covered(rs) <=> \E i \in 1 .. Len(rs) : a \in AddrsOf(rs[i])
  BY DEF Covered
<1>7. ASSUME NEW a
      PROVE  a \in Covered(cut) <=> a \in Covered(rs) /\ a \notin AddrsOf(rs[k])
  <2>1. a \in Covered(cut) => a \in Covered(rs) /\ a \notin AddrsOf(rs[k])
    <3> SUFFICES ASSUME a \in Covered(cut)
                 PROVE  a \in Covered(rs) /\ a \notin AddrsOf(rs[k])
      OBVIOUS
    <3>1. PICK i \in 1 .. Len(cut) : a \in AddrsOf(cut[i])
      BY <1>5, Zenon
    <3>2. PICK j \in 1 .. Len(rs) : j # k /\ cut[i] = rs[j]
      BY <1>2, <3>1, Zenon
    <3>3. a \in AddrsOf(rs[j])
      BY <3>1, <3>2, Zenon
    <3> QED
      BY <1>4, <1>6, <3>2, <3>3, Zenon
  <2>2. a \in Covered(rs) /\ a \notin AddrsOf(rs[k]) => a \in Covered(cut)
    BY <1>3, <1>5, <1>6, Zenon
  <2> QED
    BY <2>1, <2>2
<1> QED
  BY <1>7 DEF cut

\* The results of remove_region: an error, or the vector without a region that
\* has the base and the size asked for.
LEMMA RemoveIs ==
  ASSUME NEW rs, NEW base, NEW size, NEW res \in remove_region(rs, base, size)
  PROVE  \/ /\ res.tag = "Err" /\ res.val = "InvalidGuestRegion"
            /\ \/ \A i \in 1 .. Len(rs) : rs[i].start # base
               \/ \E k \in 1 .. Len(rs) : rs[k].start = base /\ rs[k].size # size
         \/ \E k \in 1 .. Len(rs) :
              /\ rs[k].start = base /\ rs[k].size = size
              /\ res.tag = "Ok" /\ res.val.regions = Cut(rs, k)
<1>1. CASE Hits(rs, base) = {}
  <2>1. res = Err("InvalidGuestRegion")
    BY <1>1 DEF remove_region
  <2>2. \A i \in 1 .. Len(rs) : rs[i].start # base
    BY <1>1 DEF Hits
  <2> QED
    BY <2>1, <2>2 DEF Err
<1>2. CASE Hits(rs, base) # {}
  <2>1. PICK k \in Hits(rs, base) : res = remove_at(rs, k, size)
    BY <1>2 DEF remove_region
  <2>2. k \in 1 .. Len(rs) /\ rs[k].start = base
    BY <2>1 DEF Hits
  <2>3. CASE rs[k].size = size
    <3>1. res = Ok([regions |-> Cut(rs, k), removed |-> rs[k]])
      BY <2>1, <2>3, Zenon DEF remove_at, Cut
    <3>2. res.tag = "Ok" /\ res.val.regions = Cut(rs, k)
      BY <3>1 DEF Ok
    <3> QED
      BY <2>2, <2>3, <3>2
  <2>4. CASE rs[k].size # size
    <3>1. res = Err("InvalidGuestRegion")
      BY <2>1, <2>4, Zenon DEF remove_at
    <3> QED
      BY <2>2, <2>4, <3>1 DEF Err
  <2> QED
    BY <2>3, <2>4
<1> QED
  BY <1>1, <1>2

\* The vector of the regions that from_ranges makes.
RegionsAt(ranges) == [i \in DOMAIN ranges |-> RegionAt(ranges[i].base, ranges[i].size)]

\* What from_ranges asks of every range by itself.
EachFits(ranges) ==
  \A i \in DOMAIN ranges : ranges[i].size > 0 /\ ranges[i].base + ranges[i].size < AddrSpace

\* from_ranges fails on a range that does not fit, and leaves the rest to
\* from_arc_regions.
LEMMA FromRangesIs ==
  ASSUME NEW n \in Nat, NEW ranges \in [1 .. n -> [base : Raw, size : Raw]]
  PROVE  /\ EachFits(ranges) => from_ranges(ranges) = from_arc_regions(RegionsAt(ranges))
         /\ ~ EachFits(ranges) =>
              /\ from_ranges(ranges).tag = "Err"
              /\ \E e \in {"MmapRegion", "InvalidGuestRegion"} : from_ranges(ranges) = Err(e)
<1> DEFINE make(i) == make_region(mmap_new(ranges[i].size), ranges[i].base)
           made == [i \in DOMAIN ranges |-> make(i)]
           Bad == {i \in DOMAIN ranges : made[i].tag = "Err"}
           IsFirst(i) == \A j \in Bad : i <= j
<1>1. from_ranges(ranges) =
        IF Bad # {} THEN made[CHOOSE i \in Bad : IsFirst(i)]
        ELSE from_arc_regions([i \in DOMAIN ranges |-> made[i].val])
  BY Zenon DEF from_ranges
<1>2. /\ DOMAIN ranges = 1 .. n
      /\ \A i \in 1 .. n : ranges[i].base \in Raw /\ ranges[i].size \in Raw
  OBVIOUS
<1>3. \A i \in 1 .. n :
        make(i) = IF ranges[i].size = 0 THEN Err("MmapRegion")
                  ELSE IF ranges[i].base + ranges[i].size < AddrSpace
                  THEN Ok(RegionAt(ranges[i].base, ranges[i].size))
                  ELSE Err("InvalidGuestRegion")
  BY <1>2, MakeIs
<1> HIDE DEF make
<1>4. ASSUME NEW i \in 1 .. n
      PROVE  /\ made[i] = make(i)
             /\ ranges[i].size \in Nat
             /\ make(i).tag = "Err" <=>
                  ~ (ranges[i].size > 0 /\ ranges[i].base + ranges[i].size < AddrSpace)
             /\ make(i).tag = "Err" =>
                  \E e \in {"MmapRegion", "InvalidGuestRegion"} : make(i) = Err(e)
             /\ make(i).tag # "Err" =>
                  make(i).val = RegionAt(ranges[i].base, ranges[i].size)
  <2>1. made[i] = make(i)
    BY <1>2
  <2>2. ranges[i].size \in Nat /\ ranges[i].base \in Nat
    BY <1>2 DEF Raw
  <2>3. \A e : Ok(e).tag = "Ok" /\ Ok(e).val = e /\ Err(e).tag = "Err"
    BY DEF Ok, Err
  <2> QED
    BY <1>3, <2>1, <2>2, <2>3
<1> HIDE DEF made
<1>5. Bad = {} <=> EachFits(ranges)
  BY <1>2, <1>4 DEF EachFits
<1>6. CASE EachFits(ranges)
  <2>1. \A i \in 1 .. n : made[i].val = RegionAt(ranges[i].base, ranges[i].size)
    BY <1>2, <1>4, <1>6 DEF EachFits
  <2>2. [i \in DOMAIN ranges |-> made[i].val] = RegionsAt(ranges)
    BY <1>2, <2>1 DEF RegionsAt
  <2> QED
    BY <1>1, <1>5, <1>6, <2>2
<1>7. CASE ~ EachFits(ranges)
  <2>1. Bad # {} /\ Bad \in SUBSET Nat
    BY <1>2, <1>5, <1>7
  <2>2. \A i \in Bad :
          /\ made[i].tag = "Err"
          /\ \E e \in {"MmapRegion", "InvalidGuestRegion"} : made[i] = Err(e)
    BY <1>2, <1>4
  <2> HIDE DEF Bad
  <2>3. \E i \in Bad : IsFirst(i)
    BY <2>1, Least
  <2>4. (CHOOSE i \in Bad : IsFirst(i)) \in Bad
    BY <2>3, Zenon
  <2> QED
    BY <1>1, <1>7, <2>1, <2>2, <2>4
<1> QED
  BY <1>6, <1>7

\* The vector that from_ranges hands to from_arc_regions.
LEMMA RegionsAtIs ==
  ASSUME NEW n \in Nat, NEW ranges \in [1 .. n -> [base : Raw, size : Raw]],
         EachFits(ranges)
  PROVE  /\ RegionsAt(ranges) \in Vectors /\ NoneEmpty(RegionsAt(ranges))
         /\ Len(RegionsAt(ranges)) = n /\ (RegionsAt(ranges) = << >> <=> n = 0)
         /\ \A i \in 1 .. n : /\ RegionsAt(ranges)[i].start = ranges[i].base
                              /\ RegionsAt(ranges)[i].size = ranges[i].size
<1> DEFINE rs == RegionsAt(ranges)
<1>1. /\ DOMAIN ranges = 1 .. n
      /\ \A i \in 1 .. n : ranges[i].base \in Raw /\ ranges[i].size \in Raw
  OBVIOUS
<1>2. rs = [i \in 1 .. n |-> RegionAt(ranges[i].base, ranges[i].size)]
  BY <1>1 DEF RegionsAt
<1> HIDE DEF rs
<1>3. ASSUME NEW i \in 1 .. n
      PROVE  /\ rs[i] \in GuestRegion
             /\ rs[i].start = ranges[i].base /\ rs[i].size = ranges[i].size
             /\ rs[i].start + rs[i].size \in Raw /\ rs[i].size > 0
  <2>1. rs[i] = RegionAt(ranges[i].base, ranges[i].size)
    BY <1>2
  <2>2. ranges[i].size > 0 /\ ranges[i].base + ranges[i].size < AddrSpace
    BY <1>1 DEF EachFits
  <2> QED
    BY <1>1, <2>1, <2>2, RegionAtIs
<1>4. rs \in [1 .. n -> GuestRegion]
  BY <1>2, <1>3
<1>5. rs \in Seq(GuestRegion) /\ Len(rs) = n
  BY <1>4
<1>6. rs = << >> <=> n = 0
  BY <1>5
<1> QED
  BY <1>3, <1>5, <1>6 DEF rs, Vectors, NoneEmpty

\* An ordered vector without empty regions passes every window.
LEMMA OrderedIsWindowed ==
  ASSUME NEW rs \in Vectors, Ordered(rs), NoneEmpty(rs)
  PROVE  Windowed(rs)
<1> SUFFICES ASSUME NEW i \in 1 .. Len(rs) - 1
             PROVE  check_window(rs[i], rs[i + 1]) = "Ok"
  BY DEF Windowed
<1>1. i \in 1 .. Len(rs) /\ i + 1 \in 1 .. Len(rs) /\ i < i + 1
  BY LenProperties DEF Vectors
<1>2. /\ rs[i] \in GuestRegion /\ rs[i + 1] \in GuestRegion /\ rs[i].start + rs[i].size \in Raw
  BY <1>1, RegionIs
<1>3. rs[i].size > 0 /\ rs[i].start + rs[i].size <= rs[i + 1].start
  BY <1>1 DEF Ordered, NoneEmpty
<1> QED
  BY <1>2, <1>3, WindowIs

\* What from_arc_regions and from_ranges return as an error is never "Ok".
LEMMA FromArcFails ==
  ASSUME NEW rs \in Vectors, from_arc_regions(rs).tag # "Ok"
  PROVE  from_arc_regions(rs).val # "Ok"
<1> DEFINE Bad == {i \in 1 .. Len(rs) - 1 : check_window(rs[i], rs[i + 1]) # "Ok"}
           IsFirst(i) == \A j \in Bad : i <= j
           first == CHOOSE i \in Bad : IsFirst(i)
<1>1. from_arc_regions(rs) =
        IF rs = << >> THEN Err("NoMemoryRegion")
        ELSE IF Bad = {} THEN Ok(rs)
        ELSE Err(check_window(rs[first], rs[first + 1]))
  BY Zenon DEF from_arc_regions
<1>2. /\ Bad \in SUBSET Nat
      /\ \A i \in Bad : check_window(rs[i], rs[i + 1]) # "Ok"
  <2>1. Len(rs) \in Nat
    BY LenProperties DEF Vectors
  <2>2. \A i \in 1 .. Len(rs) - 1 : i \in Nat
    BY <2>1
  <2> QED
    BY <2>2, Zenon
<1> HIDE DEF Bad
<1>3. ASSUME Bad # {}
      PROVE  first \in Bad
  <2>1. \E i \in Bad : IsFirst(i)
    BY <1>2, <1>3, Least
  <2> QED
    BY <2>1, Zenon
<1> HIDE DEF first
<1>4. Ok(rs).tag = "Ok" /\ \A e : Err(e).val = e
  BY DEF Ok, Err
<1> QED
  BY <1>1, <1>2, <1>3, <1>4

\* The same for from_ranges.
LEMMA FromRangesFails ==
  ASSUME NEW n \in Nat, NEW ranges \in [1 .. n -> [base : Raw, size : Raw]],
         from_ranges(ranges).tag # "Ok"
  PROVE  from_ranges(ranges).val # "Ok"
<1>1. CASE EachFits(ranges)
  BY <1>1, FromRangesIs, RegionsAtIs, FromArcFails
<1>2. CASE ~ EachFits(ranges)
  <2>1. PICK e \in {"MmapRegion", "InvalidGuestRegion"} : from_ranges(ranges) = Err(e)
    BY <1>2, FromRangesIs
  <2> QED
    BY <2>1 DEF Err
<1> QED
  BY <1>1, <1>2

----------------------------------------------------------------------------
(* The invariant                                                           *)

CallInv ==
  /\ call.op \in {"new", "from_ranges", "insert", "remove"}
  /\ call.args \in Seq(RangeArg)

IInv ==
  /\ regions \in Vectors /\ Ordered(regions) /\ Windowed(regions)
  /\ 0 \notin RawSizes => NoneEmpty(regions)
  /\ CallInv

\* The ranges that the callers use, as raw values.
LEMMA ArgsAreRaw ==
  /\ Bases \subseteq Raw /\ Sizes \subseteq Raw /\ RawSizes \subseteq Raw
  /\ \A n : [1 .. n -> [base : Bases, size : Sizes]]
              \subseteq [1 .. n -> [base : Raw, size : Raw]]
<1>1. Bases \subseteq Raw /\ Sizes \subseteq Raw /\ RawSizes \subseteq Raw
  BY BasesAssumption, SizesAssumption
<1>2. [base : Bases, size : Sizes] \subseteq [base : Raw, size : Raw]
  BY <1>1
<1>3. ASSUME NEW n
      PROVE  [1 .. n -> [base : Bases, size : Sizes]]
               \subseteq [1 .. n -> [base : Raw, size : Raw]]
  BY <1>2
<1> QED
  BY <1>1, <1>3

\* The empty map.
LEMMA InitInv ==
  ASSUME Init
  PROVE  IInv
BY DEF Init, IInv, Vectors, Ordered, Windowed, NoneEmpty, CallInv, NoCall

\* GuestMemoryMmap::from_ranges.
LEMMA FromRangesInv ==
  ASSUME IInv, NEW n \in Nat, NEW ranges \in [1 .. n -> [base : Bases, size : Sizes]],
         FromRanges(ranges)
  PROVE  IInv'
<1> DEFINE res == from_ranges(ranges)
<1>1. /\ call' = [op |-> "from_ranges", args |-> ranges]
      /\ regions' = IF res.tag = "Ok" THEN res.val ELSE regions
  BY Zenon DEF FromRanges
<1>2. ranges \in [1 .. n -> [base : Raw, size : Raw]]
  BY ArgsAreRaw
<1> HIDE DEF res
<1>3. CallInv'
  <2>1. ranges \in [1 .. n -> RangeArg]
    BY DEF RangeArg
  <2>2. ranges \in Seq(RangeArg)
    BY <2>1
  <2> QED
    BY <1>1, <2>2 DEF CallInv
<1>4. CASE res.tag = "Ok"
  <2>1. EachFits(ranges) /\ res = from_arc_regions(RegionsAt(ranges))
    BY <1>2, <1>4, FromRangesIs DEF res
  <2>2. RegionsAt(ranges) \in Vectors /\ NoneEmpty(RegionsAt(ranges))
    BY <1>2, <2>1, RegionsAtIs
  <2>3. regions' = RegionsAt(ranges) /\ Ordered(RegionsAt(ranges))
    BY <1>1, <1>4, <2>1, <2>2, FromArcOrdered
  <2>4. Windowed(RegionsAt(ranges))
    BY <1>4, <2>1, FromArcIs
  <2> QED
    BY <1>3, <2>2, <2>3, <2>4 DEF IInv
<1>5. CASE res.tag # "Ok"
  BY <1>1, <1>3, <1>5 DEF IInv
<1> QED
  BY <1>4, <1>5

\* insert_region, of a region from mmap or from build_raw.
LEMMA InsertInv ==
  ASSUME IInv, NEW base \in Bases, NEW size \in Raw, NEW mapping,
         InsertRegion(base, size, mapping),
         \/ size \in Sizes /\ mapping = mmap_new(size)
         \/ size \in RawSizes /\ mapping = build_raw(size)
  PROVE  IInv'
<1> DEFINE made == make_region(mapping, base)
           res == IF made.tag = "Err" THEN made ELSE insert_region(regions, made.val)
<1>1. /\ call' = [op |-> "insert", args |-> <<[base |-> base, size |-> size]>>]
      /\ regions' = IF res.tag = "Ok" THEN res.val ELSE regions
  BY Zenon DEF InsertRegion
<1>2. base \in Raw
  BY ArgsAreRaw
<1>3. CallInv'
  <2>1. [base |-> base, size |-> size] \in RangeArg
    BY DEF RangeArg
  <2> QED
    BY <1>1, <2>1 DEF CallInv
<1>4. \/ made.tag = "Err"
      \/ /\ made = Ok(RegionAt(base, size)) /\ base + size < AddrSpace
         /\ 0 \notin RawSizes => size > 0
  <2>1. \A e : Ok(e).tag = "Ok" /\ Err(e).tag = "Err"
    BY DEF Ok, Err
  <2>2. size \in Nat
    BY DEF Raw
  <2> QED
    BY <1>2, <2>1, <2>2, MakeIs
<1> HIDE DEF made
<1>5. CASE res.tag = "Ok"
  <2> DEFINE r == RegionAt(base, size)
  <2>1. /\ made = Ok(r) /\ base + size < AddrSpace
        /\ 0 \notin RawSizes => size > 0
        /\ made.tag # "Err"
    BY <1>4, <1>5
  <2>2. made.val = r
    BY <2>1 DEF Ok
  <2>3. r \in GuestRegion /\ r.start + r.size \in Raw /\ r.size = size
    BY <1>2, <2>1, RegionAtIs
  <2> HIDE DEF r
  <2>4. res = insert_region(regions, r)
    BY <2>1, <2>2
  <2>5. /\ res.val = push_and_sort(regions, r)
        /\ push_and_sort(regions, r) \in Vectors /\ Ordered(push_and_sort(regions, r))
    BY <1>5, <2>3, <2>4, InsertIs DEF IInv
  <2>6. Windowed(push_and_sort(regions, r))
    BY <1>5, <2>4, FromArcIs DEF insert_region
  <2> HIDE DEF res
  <2>7. regions' = push_and_sort(regions, r)
    BY <1>1, <1>5, <2>5
  <2>8. ASSUME 0 \notin RawSizes
        PROVE  NoneEmpty(push_and_sort(regions, r))
    <3>1. NoneEmpty(regions) /\ r.size > 0
      BY <2>1, <2>3, <2>8 DEF IInv
    <3>2. \A i \in 1 .. Len(push_and_sort(regions, r)) :
            \/ push_and_sort(regions, r)[i] = r
            \/ \E j \in 1 .. Len(regions) : push_and_sort(regions, r)[i] = regions[j]
      <4>1. regions \in Vectors /\ Ordered(regions)
        BY DEF IInv
      <4> QED
        BY <2>3, <4>1, PushElements
    <3> QED
      BY <3>1, <3>2 DEF NoneEmpty
  <2> QED
    BY <1>3, <2>5, <2>6, <2>7, <2>8 DEF IInv
<1>6. CASE res.tag # "Ok"
  BY <1>1, <1>3, <1>6 DEF IInv
<1> QED
  BY <1>5, <1>6

\* remove_region.
LEMMA RemoveInv ==
  ASSUME IInv, NEW base \in Bases, NEW size \in Sizes, RemoveRegion(base, size)
  PROVE  IInv'
<1>1. PICK res \in remove_region(regions, base, size) :
        /\ call' = [op |-> "remove", args |-> <<[base |-> base, size |-> size]>>]
        /\ regions' = IF res.tag = "Ok" THEN res.val.regions ELSE regions
  BY Zenon DEF RemoveRegion
<1>2. CallInv'
  <2>1. [base |-> base, size |-> size] \in RangeArg
    BY DEF RangeArg
  <2> QED
    BY <1>1, <2>1 DEF CallInv
<1>3. CASE res.tag = "Err"
  BY <1>1, <1>2, <1>3 DEF IInv
<1>4. CASE res.tag # "Err"
  <2>1. PICK k \in 1 .. Len(regions) : res.tag = "Ok" /\ res.val.regions = Cut(regions, k)
    BY <1>4, RemoveIs
  <2>2. regions' = Cut(regions, k)
    BY <1>1, <2>1
  <2>3. regions \in Vectors /\ Ordered(regions) /\ (0 \notin RawSizes => NoneEmpty(regions))
    BY DEF IInv
  <2>4. Cut(regions, k) \in Vectors
    BY <2>3, CutIs
  <2>5. /\ Ordered(Cut(regions, k)) /\ Windowed(Cut(regions, k))
        /\ 0 \notin RawSizes => NoneEmpty(Cut(regions, k))
    BY <2>3, CutOrdered, CutWindowed DEF IInv
  <2> QED
    BY <1>2, <2>2, <2>4, <2>5 DEF IInv
<1> QED
  BY <1>3, <1>4

\* IInv is inductive.
LEMMA NextInv ==
  ASSUME IInv, [Next]_vars
  PROVE  IInv'
<1>1. CASE UNCHANGED vars
  BY <1>1 DEF vars, IInv, CallInv
<1>2. ASSUME NEW n \in 0 .. MaxRanges,
             NEW ranges \in [1 .. n -> [base : Bases, size : Sizes]], FromRanges(ranges)
      PROVE  IInv'
  <2>1. n \in Nat
    BY MaxRangesAssumption
  <2> QED
    BY <1>2, <2>1, FromRangesInv
<1>3. ASSUME NEW base \in Bases, NEW size \in Sizes, InsertRegion(base, size, mmap_new(size))
      PROVE  IInv'
  BY <1>3, InsertInv, ArgsAreRaw
<1>4. ASSUME NEW base \in Bases, NEW size \in RawSizes,
             InsertRegion(base, size, build_raw(size))
      PROVE  IInv'
  BY <1>4, InsertInv, ArgsAreRaw
<1>5. ASSUME NEW base \in Bases, NEW size \in Sizes, RemoveRegion(base, size)
      PROVE  IInv'
  BY <1>5, RemoveInv
<1> QED
  BY <1>1, <1>2, <1>3, <1>4, <1>5, Zenon DEF Next

\* The vectors that the map goes through (mmap.rs) are ordered, and hold no
\* empty region unless build_raw made one.
THEOREM Invariance == Spec => []IInv
<1>1. Init => IInv
  BY InitInv
<1>2. IInv /\ [Next]_vars => IInv'
  BY NextInv
<1> QED
  BY <1>1, <1>2, PTL DEF Spec

\* Every region of a map is one that GuestRegionMmap::new (mmap.rs) lets
\* through: its end is a guest address.
THEOREM TypeCorrect == Spec => []TypeOK
<1>1. IInv => TypeOK
  BY DEF IInv, CallInv, TypeOK, Vectors
<1> QED
  BY <1>1, Invariance, PTL

\* Every map that from_ranges, insert_region and remove_region (mmap.rs) hand
\* out is in address order and pairwise disjoint, although from_arc_regions only
\* compares neighbours; empty regions and either build mode included.
THEOREM MapsOrdered == Spec => []SortedDisjoint
<1>1. IInv => SortedDisjoint
  BY DEF IInv, Ordered, SortedDisjoint
<1> QED
  BY <1>1, Invariance, PTL

\* Every map (mmap.rs) that is not empty is one that from_arc_regions would
\* accept again as it is, also behind remove_region, which does not ask it; empty
\* regions and either build mode included.
THEOREM MapsAcceptedAgain == Spec => [](regions = << >> \/ from_arc_regions(regions) = Ok(regions))
<1>1. IInv => (regions = << >> \/ from_arc_regions(regions) = Ok(regions))
  BY FromArcIs DEF IInv
<1> QED
  BY <1>1, Invariance, PTL

\* Only an insertion can be the next call with the name "insert", and so on.
LEMMA CallNames ==
  ASSUME [Next]_vars, ~ UNCHANGED vars
  PROVE  \/ \E n \in 0 .. MaxRanges : \E ranges \in [1 .. n -> [base : Bases, size : Sizes]] :
              FromRanges(ranges) /\ call' = [op |-> "from_ranges", args |-> ranges]
         \/ \E base \in Bases, size \in Sizes :
              /\ InsertRegion(base, size, mmap_new(size))
              /\ call' = [op |-> "insert", args |-> <<[base |-> base, size |-> size]>>]
         \/ \E base \in Bases, size \in RawSizes :
              /\ InsertRegion(base, size, build_raw(size))
              /\ call' = [op |-> "insert", args |-> <<[base |-> base, size |-> size]>>]
         \/ \E base \in Bases, size \in Sizes :
              /\ RemoveRegion(base, size)
              /\ call' = [op |-> "remove", args |-> <<[base |-> base, size |-> size]>>]
<1>1. ASSUME NEW ranges, FromRanges(ranges)
      PROVE  call' = [op |-> "from_ranges", args |-> ranges]
  BY <1>1, Zenon DEF FromRanges
<1>2. ASSUME NEW base, NEW size, NEW mapping, InsertRegion(base, size, mapping)
      PROVE  call' = [op |-> "insert", args |-> <<[base |-> base, size |-> size]>>]
  BY <1>2, Zenon DEF InsertRegion
<1>3. ASSUME NEW base, NEW size, RemoveRegion(base, size)
      PROVE  call' = [op |-> "remove", args |-> <<[base |-> base, size |-> size]>>]
  BY <1>3, Zenon DEF RemoveRegion
<1> QED
  BY <1>1, <1>2, <1>3, Zenon DEF Next

\* from_ranges (mmap.rs) accepts exactly the lists that are not empty, whose
\* ranges are not empty and end at a guest address, in order and pairwise
\* disjoint.
THEOREM ListsAccepted == Spec => FromRangesExact
<1> DEFINE Accepts(r) ==
             /\ r # << >>
             /\ \A i \in DOMAIN r : r[i].size > 0 /\ r[i].base + r[i].size < AddrSpace
             /\ \A i, j \in DOMAIN r : i < j => r[i].base + r[i].size <= r[j].base
           Exact == LET r == call'.args
                    IN  call'.op = "from_ranges" => (out' = "Ok" <=> Accepts(r))
<1>1. ASSUME NEW n \in Nat, NEW ranges \in [1 .. n -> [base : Bases, size : Sizes]],
             FromRanges(ranges)
      PROVE  out' = "Ok" <=> Accepts(ranges)
  <2> DEFINE res == from_ranges(ranges)
             rs == RegionsAt(ranges)
  <2>1. out' = IF res.tag = "Ok" THEN "Ok" ELSE res.val
    BY <1>1, Zenon DEF FromRanges
  <2>2. ranges \in [1 .. n -> [base : Raw, size : Raw]] /\ DOMAIN ranges = 1 .. n
    BY ArgsAreRaw
  <2>3. res.tag # "Ok" => res.val # "Ok"
    BY <2>2, FromRangesFails
  <2>4. out' = "Ok" <=> res.tag = "Ok"
    BY <2>1, <2>3
  <2>5. CASE ~ EachFits(ranges)
    <3>1. res.tag = "Err"
      BY <2>2, <2>5, FromRangesIs
    <3> QED
      BY <2>4, <2>5, <3>1 DEF EachFits
  <2>6. CASE EachFits(ranges)
    <3>1. res = from_arc_regions(rs)
      BY <2>2, <2>6, FromRangesIs
    <3>2. /\ rs \in Vectors /\ NoneEmpty(rs) /\ Len(rs) = n /\ (rs = << >> <=> n = 0)
          /\ \A i \in 1 .. n : rs[i].start = ranges[i].base /\ rs[i].size = ranges[i].size
      BY <2>2, <2>6, RegionsAtIs
    <3>3. ranges = << >> <=> n = 0
      BY <2>2
    <3> HIDE DEF res, rs
    <3>4. Ordered(rs) <=>
            \A i, j \in 1 .. n : i < j => ranges[i].base + ranges[i].size <= ranges[j].base
      BY <3>2 DEF Ordered
    <3>5. Windowed(rs) <=> Ordered(rs)
      BY <3>2, WindowsSuffice, OrderedIsWindowed
    <3>6. res.tag = "Ok" <=> rs # << >> /\ Ordered(rs)
      BY <3>1, <3>5, FromArcIs
    <3> QED
      BY <2>2, <2>4, <2>6, <3>2, <3>3, <3>4, <3>6 DEF EachFits
  <2> QED
    BY <2>5, <2>6
<1> HIDE DEF Accepts
<1>2. ASSUME [Next]_vars
      PROVE  [Exact]_vars
  <2> SUFFICES ASSUME ~ UNCHANGED vars, call'.op = "from_ranges"
               PROVE  out' = "Ok" <=> Accepts(call'.args)
    OBVIOUS
  <2>1. PICK n \in 0 .. MaxRanges : \E ranges \in [1 .. n -> [base : Bases, size : Sizes]] :
          FromRanges(ranges) /\ call' = [op |-> "from_ranges", args |-> ranges]
    BY <1>2, CallNames
  <2>2. n \in Nat
    BY MaxRangesAssumption
  <2>3. PICK ranges \in [1 .. n -> [base : Bases, size : Sizes]] :
          FromRanges(ranges) /\ call' = [op |-> "from_ranges", args |-> ranges]
    BY <2>1
  <2> QED
    BY <1>1, <2>2, <2>3
<1> QED
  BY <1>2, PTL DEF Spec, FromRangesExact, Accepts

\* Without an empty raw mapping, insert_region (mmap.rs) refuses a region
\* exactly when it shares an address with the map, and otherwise adds its
\* addresses and loses none.
THEOREM InsertionsExact == ASSUME 0 \notin RawSizes PROVE Spec => InsertExact
<1> DEFINE Refuses == out' \in {"MmapRegion", "InvalidGuestRegion"}
           Exact(base, size) ==
             LET new == AddrsOf([start |-> base, size |-> size])
             IN  IF new \cap Covered(regions) = {}
                 THEN out' = "Ok" /\ Covered(regions') = Covered(regions) \cup new
                 ELSE out' = "MemoryRegionOverlap"
           Step == LET arg == call'.args[1]
                       new == AddrsOf([start |-> arg.base, size |-> arg.size])
                   IN  call'.op = "insert" /\ out' \notin {"MmapRegion", "InvalidGuestRegion"}
                         => IF new \cap Covered(regions) = {}
                            THEN out' = "Ok" /\ Covered(regions') = Covered(regions) \cup new
                            ELSE out' = "MemoryRegionOverlap"
<1>1. ASSUME IInv, NEW base \in Bases, NEW size \in Raw, NEW mapping,
             InsertRegion(base, size, mapping), ~ Refuses,
             \/ mapping = mmap_new(size)
             \/ size \in RawSizes /\ mapping = build_raw(size)
      PROVE  Exact(base, size)
  <2> DEFINE made == make_region(mapping, base)
             res == IF made.tag = "Err" THEN made ELSE insert_region(regions, made.val)
             r == RegionAt(base, size)
  <2>1. /\ out' = IF res.tag = "Ok" THEN "Ok" ELSE res.val
        /\ regions' = IF res.tag = "Ok" THEN res.val ELSE regions
    BY <1>1, Zenon DEF InsertRegion
  <2>2. base \in Raw /\ size \in Nat
    BY ArgsAreRaw DEF Raw
  <2>3. \A e : /\ Ok(e).tag = "Ok" /\ Ok(e).val = e
               /\ Err(e).tag = "Err" /\ Err(e).val = e
    BY DEF Ok, Err
  <2>4. \/ made = Err("MmapRegion") \/ made = Err("InvalidGuestRegion")
        \/ made = Ok(r) /\ base + size < AddrSpace /\ size > 0
    BY <1>1, <2>2, MakeIs
  <2> HIDE DEF made
  <2>5. made = Ok(r) /\ base + size < AddrSpace /\ size > 0
    BY <1>1, <2>1, <2>3, <2>4
  <2>6. r \in GuestRegion /\ r.start + r.size \in Raw /\ r.size > 0
    BY <2>2, <2>5, RegionAtIs
  <2>7. AddrsOf(r) = AddrsOf([start |-> base, size |-> size])
    BY DEF AddrsOf, RegionAt
  <2> HIDE DEF r
  <2>8. res = insert_region(regions, r)
    BY <2>3, <2>5
  <2> HIDE DEF res
  <2>9. regions \in Vectors /\ Ordered(regions) /\ NoneEmpty(regions)
    BY <1>1 DEF IInv
  <2>10. CASE AddrsOf(r) \cap Covered(regions) = {}
    <3>1. res.tag = "Ok"
      BY <2>6, <2>8, <2>9, <2>10, InsertDecides
    <3>2. res.val = push_and_sort(regions, r)
      BY <2>6, <2>8, <2>9, <3>1, InsertIs
    <3>3. Covered(push_and_sort(regions, r)) = Covered(regions) \cup AddrsOf(r)
      BY <2>6, <2>9, InsertCovers
    <3>4. out' = "Ok" /\ regions' = push_and_sort(regions, r)
      BY <2>1, <3>1, <3>2
    <3> QED
      BY <2>7, <2>10, <3>3, <3>4
  <2>11. CASE AddrsOf(r) \cap Covered(regions) # {}
    <3>1. res = Err("MemoryRegionOverlap")
      BY <2>6, <2>8, <2>9, <2>11, InsertDecides
    <3>2. out' = "MemoryRegionOverlap"
      BY <2>1, <2>3, <3>1
    <3> QED
      BY <2>7, <2>11, <3>2
  <2> QED
    BY <2>10, <2>11
<1>2. ASSUME IInv, [Next]_vars
      PROVE  [Step]_vars
  <2> SUFFICES ASSUME ~ UNCHANGED vars, call'.op = "insert", ~ Refuses
               PROVE  Exact(call'.args[1].base, call'.args[1].size)
    OBVIOUS
  <2>1. PICK base \in Bases, size \in Raw :
          /\ call' = [op |-> "insert", args |-> <<[base |-> base, size |-> size]>>]
          /\ \/ InsertRegion(base, size, mmap_new(size))
             \/ size \in RawSizes /\ InsertRegion(base, size, build_raw(size))
    BY <1>2, CallNames, ArgsAreRaw
  <2>2. call'.args[1].base = base /\ call'.args[1].size = size
    BY <2>1
  <2> HIDE DEF Exact, Refuses
  <2>3. Exact(base, size)
    BY <1>1, <1>2, <2>1
  <2> QED
    BY <2>2, <2>3
<1> QED
  BY <1>2, Invariance, PTL DEF Spec, InsertExact

\* Without an empty raw mapping, remove_region (mmap.rs) succeeds exactly when
\* the map has a region with that base and size, and takes its addresses away
\* and no others.
THEOREM RemovalsExact == ASSUME 0 \notin RawSizes PROVE Spec => RemoveExact
<1> DEFINE Has(base, size) == \E i \in 1 .. Len(regions) :
                                regions[i].start = base /\ regions[i].size = size
           Old(base, size) == AddrsOf([start |-> base, size |-> size])
           Exact(base, size) ==
             /\ out' = (IF Has(base, size) THEN "Ok" ELSE "InvalidGuestRegion")
             /\ Covered(regions') =
                  Covered(regions) \ (IF Has(base, size) THEN Old(base, size) ELSE {})
           Step == LET arg == call'.args[1]
                       old == AddrsOf([start |-> arg.base, size |-> arg.size])
                       has == \E i \in 1 .. Len(regions) :
                                regions[i].start = arg.base /\ regions[i].size = arg.size
                   IN  call'.op = "remove"
                         => /\ out' = (IF has THEN "Ok" ELSE "InvalidGuestRegion")
                            /\ Covered(regions') = Covered(regions) \ (IF has THEN old ELSE {})
<1>1. ASSUME IInv, NEW base, NEW size, RemoveRegion(base, size)
      PROVE  Exact(base, size)
  <2>1. PICK res \in remove_region(regions, base, size) :
          /\ out' = IF res.tag = "Ok" THEN "Ok" ELSE res.val
          /\ regions' = IF res.tag = "Ok" THEN res.val.regions ELSE regions
    BY <1>1, Zenon DEF RemoveRegion
  <2>2. regions \in Vectors /\ Ordered(regions) /\ NoneEmpty(regions)
    BY <1>1 DEF IInv
  <2>3. CASE res.tag = "Err"
    <3>1. res.val = "InvalidGuestRegion"
      BY <2>3, RemoveIs
    <3>2. \/ \A i \in 1 .. Len(regions) : regions[i].start # base
          \/ \E k \in 1 .. Len(regions) : regions[k].start = base /\ regions[k].size # size
      BY <2>3, RemoveIs
    <3>3. ~ Has(base, size)
      <4>1. ASSUME NEW k \in 1 .. Len(regions), regions[k].start = base,
                   regions[k].size # size,
                   NEW i \in 1 .. Len(regions), regions[i].start = base
            PROVE  regions[i].size # size
        <5>1. i = k
          BY <2>2, <4>1, StartsDiffer
        <5> QED
          BY <4>1, <5>1
      <4> QED
        BY <3>2, <4>1
    <3>4. out' = "InvalidGuestRegion" /\ regions' = regions
      BY <2>1, <2>3, <3>1
    <3> HIDE DEF Has, Old
    <3> QED
      BY <3>3, <3>4
  <2>4. CASE res.tag # "Err"
    <3>1. PICK k \in 1 .. Len(regions) :
            /\ regions[k].start = base /\ regions[k].size = size
            /\ res.tag = "Ok" /\ res.val.regions = Cut(regions, k)
      BY <2>4, RemoveIs
    <3>2. Has(base, size)
      BY <3>1
    <3>3. AddrsOf(regions[k]) = Old(base, size)
      BY <3>1 DEF AddrsOf
    <3>4. Covered(Cut(regions, k)) = Covered(regions) \ AddrsOf(regions[k])
      BY <2>2, CutCovers
    <3>5. out' = "Ok" /\ regions' = Cut(regions, k)
      BY <2>1, <3>1
    <3> HIDE DEF Has, Old
    <3> QED
      BY <3>2, <3>3, <3>4, <3>5
  <2> QED
    BY <2>3, <2>4
<1>2. ASSUME IInv, [Next]_vars
      PROVE  [Step]_vars
  <2> SUFFICES ASSUME ~ UNCHANGED vars, call'.op = "remove"
               PROVE  Exact(call'.args[1].base, call'.args[1].size)
    OBVIOUS
  <2>1. PICK base \in Bases, size \in Sizes :
          /\ call' = [op |-> "remove", args |-> <<[base |-> base, size |-> size]>>]
          /\ RemoveRegion(base, size)
    BY <1>2, CallNames
  <2>2. call'.args[1].base = base /\ call'.args[1].size = size
    BY <2>1
  <2> HIDE DEF Exact
  <2>3. Exact(base, size)
    BY <1>1, <1>2, <2>1
  <2> QED
    BY <2>2, <2>3
<1> QED
  BY <1>2, Invariance, PTL DEF Spec, RemoveExact

----------------------------------------------------------------------------
(* find_region                                                             *)

----------------------------------------------------------------------------
(* The queries                                                             *)

\* A sum as map_and_fold (guest_memory.rs) forms it.
Sum == [acc \in Int |-> [size \in Int |-> acc + size]]

\* The larger of two, as in GuestMemory::last_addr.
Larger == [a \in Int |-> [b \in Int |-> IF a <= b THEN b ELSE a]]

\* Both on two numbers.
LEMMA PairIs ==
  ASSUME NEW a \in Int, NEW b \in Int
  PROVE  Sum[a][b] = a + b /\ Larger[a][b] = IF a <= b THEN b ELSE a
<1> QED
  BY DEF Sum, Larger

\* The addresses of some regions of a vector.
AddrsIn(rs, s) == UNION {AddrsOf(rs[i]) : i \in s}

\* A further region adds its size to the number of addresses.
LEMMA CountMore ==
  ASSUME NEW rs \in Vectors, Ordered(rs), NEW s \in SUBSET (1 .. Len(rs)), NEW x \in s
  PROVE  /\ Cardinality(AddrsIn(rs, s)) = Cardinality(AddrsIn(rs, s \ {x})) + rs[x].size
         /\ Cardinality(AddrsIn(rs, s \ {x})) \in Nat /\ rs[x].size \in Nat
<1> DEFINE A == AddrsIn(rs, s \ {x})
           B == AddrsOf(rs[x])
<1>1. x \in 1 .. Len(rs)
  OBVIOUS
<1>2. \A i \in 1 .. Len(rs) : AddrsOf(rs[i]) \subseteq 0 .. AddrSpace - 1
  <2> TAKE i \in 1 .. Len(rs)
  <2>1. rs[i].start \in Nat /\ rs[i].size \in Nat /\ rs[i].start + rs[i].size < AddrSpace
    BY RegionIs
  <2> QED
    BY <2>1, AddrSpaceAssumption DEF AddrsOf
<1>3. A \in SUBSET (0 .. AddrSpace - 1)
  BY <1>2 DEF AddrsIn
<1>4. IsFiniteSet(0 .. AddrSpace - 1)
  BY FS_Interval, AddrSpaceAssumption
<1>5. IsFiniteSet(A)
  <2> HIDE DEF A
  <2> QED
    BY <1>3, <1>4, FS_Subset
<1>6. IsFiniteSet(B) /\ Cardinality(B) = rs[x].size /\ rs[x].size \in Nat
  <2>1. rs[x].start \in Nat /\ rs[x].size \in Nat
    BY <1>1, RegionIs
  <2>2. \A a, z \in Nat : /\ IsFiniteSet(a .. a + z - 1)
                          /\ Cardinality(a .. a + z - 1) = z
    <3> TAKE a, z \in Nat
    <3>1. a \in Int /\ a + z - 1 \in Int
      OBVIOUS
    <3>2. IsFiniteSet(a .. a + z - 1)
      BY <3>1, FS_Interval
    <3>3. Cardinality(a .. a + z - 1) = IF a > a + z - 1 THEN 0 ELSE (a + z - 1) - a + 1
      BY <3>1, FS_Interval
    <3> QED
      BY <3>2, <3>3
  <2> QED
    BY <2>1, <2>2 DEF AddrsOf
<1>7. A \cap B = {}
  <2> SUFFICES ASSUME NEW a, a \in A, a \in B PROVE FALSE
    OBVIOUS
  <2>1. PICK i \in s \ {x} : a \in AddrsOf(rs[i])
    BY DEF AddrsIn
  <2>2. i \in 1 .. Len(rs) /\ i # x
    OBVIOUS
  <2> QED
    BY <1>1, <2>1, <2>2, AddrsDiffer
<1>8. AddrsIn(rs, s) = A \cup B
  BY DEF AddrsIn
<1> HIDE DEF A, B
<1>9. Cardinality(A \cup B) = Cardinality(A) + Cardinality(B) - Cardinality(A \cap B)
  BY <1>5, <1>6, FS_Union
<1>10. Cardinality(A) \in Nat /\ Cardinality(A \cap B) = 0
  BY <1>5, <1>7, FS_CardinalityType, FS_EmptySet
<1>11. Cardinality(AddrsIn(rs, s)) = Cardinality(A) + rs[x].size
  BY <1>6, <1>8, <1>9, <1>10
<1> QED
  BY <1>6, <1>10, <1>11 DEF A

\* The sum of the sizes of all regions counts every address covered once.
LEMMA SizesAdd ==
  ASSUME NEW rs \in Vectors, Ordered(rs), NEW len, len = [i \in DOMAIN rs |-> rs[i].size]
  PROVE  map_and_fold(rs, 0, len, Sum) = Cardinality(Covered(rs))
<1> DEFINE n == Len(rs)
           w == [s \in SUBSET (1 .. n) |-> Cardinality(AddrsIn(rs, s))]
<1>1. n \in Nat /\ DOMAIN rs = 1 .. n
  BY LenProperties DEF Vectors
<1>2. w[{}] = 0
  <2>1. AddrsIn(rs, {}) = {}
    BY DEF AddrsIn
  <2> QED
    BY <2>1, FS_EmptySet
<1>3. ASSUME NEW s \in SUBSET (1 .. n), s # {}
      PROVE  w[s] = Sum[w[s \ {Max(s)}]][len[Max(s)]]
  <2> DEFINE x == Max(s)
  <2>1. x \in s
    BY <1>1, <1>3, MaxIs
  <2> HIDE DEF x
  <2>2. /\ Cardinality(AddrsIn(rs, s)) = Cardinality(AddrsIn(rs, s \ {x})) + rs[x].size
        /\ Cardinality(AddrsIn(rs, s \ {x})) \in Nat /\ rs[x].size \in Nat
    BY <2>1, CountMore
  <2>3. /\ w[s] = Cardinality(AddrsIn(rs, s)) /\ w[s \ {x}] = Cardinality(AddrsIn(rs, s \ {x}))
        /\ len[x] = rs[x].size
    BY <1>1, <2>1
  <2>4. w[s] = w[s \ {x}] + len[x] /\ w[s \ {x}] \in Int /\ len[x] \in Int
    BY <2>2, <2>3
  <2> HIDE DEF w
  <2>5. w[s] = Sum[w[s \ {x}]][len[x]]
    BY <2>4, PairIs
  <2> QED
    BY <2>5 DEF x
<1>4. w[1 .. n] = Cardinality(Covered(rs))
  BY DEF Covered, AddrsIn
<1>5. w = [s \in SUBSET (1 .. n) |-> w[s]]
  OBVIOUS
<1> HIDE DEF w, n
<1>6. FoldsLike(w, n, 0, len, Sum)
  BY <1>2, <1>3, <1>5, Zenon DEF FoldsLike
<1>7. map_and_fold(rs, 0, len, Sum) = w[1 .. n]
  BY <1>1, <1>6, FoldIs
<1> QED
  BY <1>4, <1>7

\* GuestMemory::last_addr is the last address of the last region.
LEMMA MemoryLastIs ==
  ASSUME NEW rs \in Vectors, Ordered(rs), NoneEmpty(rs)
  PROVE  /\ memory_last_addr(rs) \in Covered(rs) \cup {0}
         /\ \A addr \in Covered(rs) : addr <= memory_last_addr(rs)
<1> DEFINE n == Len(rs)
           last == [i \in DOMAIN rs |-> last_addr(rs[i])]
           w == [s \in SUBSET (1 .. n) |-> IF s = {} THEN 0 ELSE last[Max(s)]]
<1>1. n \in Nat /\ DOMAIN rs = 1 .. n
  BY LenProperties DEF Vectors
<1>2. ASSUME NEW i \in 1 .. n
      PROVE  /\ last[i] \in Nat /\ last[i] = rs[i].start + rs[i].size - 1 /\ last[i] \in AddrsOf(rs[i])
             /\ \A a \in AddrsOf(rs[i]) : a <= last[i]
             /\ \A j \in 1 .. n : i <= j => last[i] <= last[j]
  <2>1. \A j \in 1 .. n :
          /\ rs[j] \in GuestRegion /\ rs[j].start \in Nat /\ rs[j].size \in Nat /\ rs[j].size > 0
          /\ rs[j].start + rs[j].size \in Raw
    BY RegionIs DEF NoneEmpty
  <2>2. \A j \in 1 .. n : last[j] = rs[j].start + rs[j].size - 1
    BY <1>1, <2>1, LastAddrIs
  <2> HIDE DEF last
  <2>3. last[i] \in Nat /\ last[i] \in AddrsOf(rs[i]) /\ \A a \in AddrsOf(rs[i]) : a <= last[i]
    BY <2>1, <2>2 DEF AddrsOf
  <2>4. ASSUME NEW j \in 1 .. n, i <= j
        PROVE  last[i] <= last[j]
    <3>1. CASE i = j
      BY <2>3, <3>1
    <3>2. CASE i # j
      <4>1. rs[i].start + rs[i].size <= rs[j].start
        BY <1>1, <2>4, <3>2 DEF Ordered
      <4>2. \A a, b, c, d \in Nat : a + b <= c /\ d > 0 => a + b - 1 <= c + d - 1
        OBVIOUS
      <4> QED
        BY <2>1, <2>2, <4>1, <4>2
    <3> QED
      BY <3>1, <3>2
  <2> QED
    BY <2>2, <2>3, <2>4
<1>3. memory_last_addr(rs) = map_and_fold(rs, 0, last, Larger)
  BY Zenon DEF memory_last_addr, Larger
<1> HIDE DEF last
<1>4. w[{}] = 0
  OBVIOUS
<1>5. ASSUME NEW s \in SUBSET (1 .. n), s # {}
      PROVE  w[s] = Larger[w[s \ {Max(s)}]][last[Max(s)]]
  <2> DEFINE x == Max(s)
             rest == s \ {x}
             y == Max(rest)
  <2>1. x \in s /\ x \in 1 .. n /\ \A i \in s : i <= x
    BY <1>1, <1>5, MaxIs
  <2>2. w[s] = last[x] /\ w[rest] = (IF rest = {} THEN 0 ELSE last[y])
    BY <1>5
  <2>3. rest # {} => y \in 1 .. n /\ y <= x
    <3>1. rest \in SUBSET (1 .. n)
      OBVIOUS
    <3>2. rest # {} => y \in rest
      <4> HIDE DEF rest
      <4> QED
        BY <1>1, <3>1, MaxIs
    <3> HIDE DEF y, x
    <3> QED
      BY <2>1, <3>2
  <2> HIDE DEF w, x, y, rest
  <2>4. w[rest] \in Int /\ last[x] \in Int /\ w[rest] <= last[x]
    <3>1. CASE rest = {}
      <4>1. w[rest] = 0 /\ last[x] \in Nat
        BY <1>2, <2>1, <2>2, <3>1
      <4> QED
        BY <4>1
    <3>2. CASE rest # {}
      <4>1. w[rest] = last[y] /\ last[y] \in Nat /\ last[x] \in Nat /\ last[y] <= last[x]
        BY <1>2, <2>1, <2>2, <2>3, <3>2
      <4> QED
        BY <4>1
    <3> QED
      BY <3>1, <3>2
  <2>5. Larger[w[rest]][last[x]] = last[x]
    BY <2>4, PairIs
  <2> QED
    BY <2>2, <2>5 DEF rest, x
<1>6. w = [s \in SUBSET (1 .. n) |-> w[s]] /\ w[1 .. n] = IF 1 .. n = {} THEN 0 ELSE last[Max(1 .. n)]
  OBVIOUS
<1> HIDE DEF w, n
<1>7. FoldsLike(w, n, 0, last, Larger)
  BY <1>4, <1>5, <1>6, Zenon DEF FoldsLike
<1>8. memory_last_addr(rs) = w[1 .. n]
  BY <1>1, <1>3, <1>7, FoldIs
<1>9. CASE n = 0
  <2>1. memory_last_addr(rs) = 0 /\ Covered(rs) = {}
    BY <1>4, <1>8, <1>9 DEF Covered, n
  <2> QED
    BY <2>1
<1>10. CASE n # 0
  <2>1. n \in 1 .. n /\ Max(1 .. n) = n /\ 1 .. n # {}
    <3>1. n \in 1 .. n
      BY <1>1, <1>10
    <3> QED
      BY <1>1, <3>1, FirstIs
  <2>2. memory_last_addr(rs) = last[n]
    BY <1>6, <1>8, <2>1
  <2>3. memory_last_addr(rs) \in Covered(rs)
    BY <1>2, <2>1, <2>2 DEF Covered, n
  <2>4. ASSUME NEW addr \in Covered(rs)
        PROVE  addr <= memory_last_addr(rs)
    <3>1. PICK i \in 1 .. n : addr \in AddrsOf(rs[i])
      BY DEF Covered, n
    <3>2. addr \in Int /\ addr <= last[i] /\ last[i] \in Nat /\ last[i] <= last[n] /\ last[n] \in Nat
      <4>1. i <= n
        BY <1>1
      <4>2. rs[i].start \in Nat /\ rs[i].size \in Nat
        BY RegionIs DEF n
      <4>3. addr \in Int
        BY <3>1, <4>2 DEF AddrsOf
      <4> QED
        BY <1>2, <2>1, <3>1, <4>1, <4>3
    <3> QED
      BY <2>2, <3>2
  <2> QED
    BY <2>3, <2>4
<1> QED
  BY <1>9, <1>10

\* What with_regions asks each region in QueriesExact.
Asks(rs, addr) ==
  [i \in DOMAIN rs |-> IF to_region_addr(rs[i], addr) = None THEN Ok(0) ELSE Err(i)]

\* A walk over all regions finds what find_region (mmap.rs) finds, and only the
\* addresses held have a host address (guest_memory.rs).
LEMMA WalkIs ==
  ASSUME NEW rs \in Vectors, Ordered(rs), NoneEmpty(rs), NEW addr \in Raw
  PROVE  /\ with_regions(rs, Asks(rs, addr)) = IF Holding(rs, addr) = {} THEN Ok(Len(rs))
                                              ELSE Err(find_region(rs, addr))
         /\ get_host_address(rs, addr).tag = "Ok" <=> Holding(rs, addr) # {}
<1>1. Len(rs) \in Nat /\ DOMAIN rs = 1 .. Len(rs) /\ addr \in Nat
  BY LenProperties DEF Vectors, Raw
<1>2. ASSUME NEW i \in 1 .. Len(rs)
      PROVE  to_region_addr(rs[i], addr) # None <=> i \in Holding(rs, addr)
  <2>1. rs[i].start \in Nat /\ rs[i].size \in Nat
    BY RegionIs
  <2>2. addr \in AddrsOf(rs[i]) <=> rs[i].start <= addr /\ addr < rs[i].start + rs[i].size
    BY <1>1, <2>1 DEF AddrsOf
  <2>3. to_region_addr(rs[i], addr) # None <=> rs[i].start <= addr /\ addr < rs[i].start + rs[i].size
    BY <1>1, <2>1 DEF to_region_addr, checked_offset_from, check_address, address_in_range, None
  <2> QED
    BY <2>2, <2>3 DEF Holding
<1> DEFINE cb == Asks(rs, addr)
           Bad == {i \in DOMAIN rs : cb[i].tag = "Err"}
<1>3. \A i \in 1 .. Len(rs) : cb[i] = IF to_region_addr(rs[i], addr) = None THEN Ok(0) ELSE Err(i)
  BY <1>1 DEF Asks
<1>4. Holding(rs, addr) \subseteq 1 .. Len(rs)
  BY DEF Holding
<1>5. Bad = Holding(rs, addr)
  <2>1. Ok(0).tag = "Ok" /\ \A i : Err(i).tag = "Err"
    BY DEF Ok, Err
  <2> HIDE DEF cb
  <2> QED
    BY <1>1, <1>2, <1>3, <1>4, <2>1
<1>6. with_regions(rs, cb) = IF Bad = {} THEN Ok(Len(rs)) ELSE cb[Min(Bad)]
  BY Zenon DEF with_regions
<1> HIDE DEF cb, Bad
<1>7. CASE Holding(rs, addr) = {}
  <2>1. with_regions(rs, cb) = Ok(Len(rs))
    BY <1>5, <1>6, <1>7
  <2>2. memory_to_region_addr(rs, addr) = Err("InvalidGuestAddress")
    BY <1>7, LookupIs
  <2>3. get_host_address(rs, addr).tag = "Err"
    BY <2>2 DEF get_host_address, Err
  <2> QED
    BY <1>7, <2>1, <2>3 DEF cb
<1>8. CASE Holding(rs, addr) # {}
  <2>1. PICK k : k \in Holding(rs, addr)
    BY <1>8
  <2>2. Holding(rs, addr) = {k} /\ k \in 1 .. Len(rs)
    BY <1>4, <2>1, AddrsDiffer DEF Holding
  <2>3. Min(Bad) = k
    BY <1>5, <2>2 DEF Min
  <2>4. find_region(rs, addr) = k /\ addr - rs[k].start \in 0 .. rs[k].size - 1
    BY <2>1, LookupIs
  <2>5. with_regions(rs, cb) = Err(k)
    BY <1>2, <1>3, <1>5, <1>6, <2>1, <2>2, <2>3
  <2>6. memory_to_region_addr(rs, addr) = Ok([region |-> k, addr |-> addr - rs[k].start])
    BY <2>1, LookupIs
  <2>7. rs[k].start \in Nat /\ rs[k].size \in Nat
    BY <2>2, RegionIs
  <2>8. check_address(rs[k], addr - rs[k].start) # None
    BY <1>1, <2>4, <2>7 DEF check_address, address_in_range, None
  <2>9. get_host_address(rs, addr).tag = "Ok"
    BY <2>6, <2>8 DEF get_host_address, region_host_address, Ok
  <2> QED
    BY <1>8, <2>4, <2>5, <2>9 DEF cb
<1> QED
  BY <1>7, <1>8

\* checked_offset of a map and of a region (guest_memory.rs).
LEMMA OffsetsAre ==
  ASSUME NEW rs \in Vectors, Ordered(rs), NoneEmpty(rs), NEW base \in Raw, NEW offset \in Raw
  PROVE  /\ memory_checked_offset(rs, base, offset) =
              IF base + offset \in Covered(rs) THEN base + offset ELSE None
         /\ \A i \in 1 .. Len(rs) :
              region_checked_offset(rs[i], base, offset) # None
                <=> rs[i].start + base + offset \in AddrsOf(rs[i])
<1>1. base \in Nat /\ offset \in Nat /\ AddrSpace \in Nat
  BY AddrSpaceAssumption DEF Raw
<1>2. ASSUME NEW i \in 1 .. Len(rs)
      PROVE  region_checked_offset(rs[i], base, offset) # None
               <=> rs[i].start + base + offset \in AddrsOf(rs[i])
  <2>1. /\ rs[i].start \in Nat /\ rs[i].size \in Nat /\ rs[i].start + rs[i].size < AddrSpace
    BY RegionIs
  <2>2. rs[i].start + base + offset \in AddrsOf(rs[i]) <=> base + offset < rs[i].size
    <3>1. \A s, z, b, o \in Nat : s + b + o \in s .. s + z - 1 <=> b + o < z
      OBVIOUS
    <3> QED
      BY <1>1, <2>1, <3>1 DEF AddrsOf
  <2>3. region_checked_offset(rs[i], base, offset) # None <=> base + offset < rs[i].size
    BY <1>1, <2>1 DEF region_checked_offset, checked_add, check_address, address_in_range, None
  <2> QED
    BY <2>2, <2>3
<1> DEFINE addr == base + offset
<1>3. addr \in Nat
  BY <1>1
<1>4. memory_checked_offset(rs, base, offset) =
        IF addr < AddrSpace THEN memory_check_address(rs, addr) ELSE None
  BY <1>1 DEF memory_checked_offset, checked_add, None
<1> HIDE DEF addr
<1>5. addr \in Covered(rs) <=> Holding(rs, addr) # {}
  BY DEF Covered, Holding
<1>6. CASE addr < AddrSpace
  <2>1. addr \in Raw
    BY <1>1, <1>3, <1>6 DEF Raw
  <2>2. CASE Holding(rs, addr) = {}
    <3>1. find_region(rs, addr) = None
      BY <2>1, <2>2, LookupIs
    <3>2. memory_check_address(rs, addr) = None
      BY <3>1 DEF memory_check_address
    <3> QED
      BY <1>2, <1>4, <1>5, <1>6, <2>2, <3>2 DEF addr
  <2>3. CASE Holding(rs, addr) # {}
    <3>1. PICK k : k \in Holding(rs, addr)
      BY <2>3
    <3>2. find_region(rs, addr) = k /\ k # None /\ k # Panic
      BY <2>1, <3>1, LookupIs
    <3>3. memory_check_address(rs, addr) = addr
      BY <3>2 DEF memory_check_address
    <3> QED
      BY <1>2, <1>4, <1>5, <1>6, <2>3, <3>3 DEF addr
  <2> QED
    BY <2>2, <2>3
<1>7. CASE ~ (addr < AddrSpace)
  <2>1. ASSUME NEW k \in 1 .. Len(rs), addr \in AddrsOf(rs[k]) PROVE FALSE
    <3>1. rs[k].start \in Nat /\ rs[k].size \in Nat /\ rs[k].start + rs[k].size < AddrSpace
      BY RegionIs
    <3> QED
      BY <1>1, <1>3, <1>7, <2>1, <3>1 DEF AddrsOf
  <2>2. addr \notin Covered(rs)
    BY <2>1 DEF Covered
  <2> QED
    BY <1>2, <1>4, <1>7, <2>2 DEF addr
<1> QED
  BY <1>6, <1>7

\* Without an empty raw mapping, every query on a map that the operations can
\* build (mmap.rs, guest_memory.rs) agrees with the addresses the map covers:
\* find_region, with_regions, get_host_address, map_and_fold over len(),
\* last_addr and both checked_offset.
THEOREM QueriesCorrect == ASSUME 0 \notin RawSizes PROVE Spec => []QueriesExact
<1>1. ASSUME IInv
      PROVE  QueriesExact
  <2>1. regions \in Vectors /\ Ordered(regions) /\ NoneEmpty(regions)
    BY <1>1 DEF IInv
  <2> DEFINE len == [i \in DOMAIN regions |-> regions[i].size]
  <2>2. ASSUME NEW addr \in Raw
        PROVE  /\ find_regions(regions, addr) =
                    IF Holding(regions, addr) = {} THEN {None} ELSE Holding(regions, addr)
               /\ with_regions(regions, Asks(regions, addr)) =
                    IF Holding(regions, addr) = {} THEN Ok(Len(regions))
                    ELSE Err(find_region(regions, addr))
               /\ get_host_address(regions, addr).tag = "Ok" <=> Holding(regions, addr) # {}
    BY <2>1, FindIs, WalkIs
  <2>3. map_and_fold(regions, 0, len, Sum) = Cardinality(Covered(regions))
    BY <2>1, SizesAdd
  <2>4. /\ memory_last_addr(regions) \in Covered(regions) \cup {0}
        /\ \A addr \in Covered(regions) : addr <= memory_last_addr(regions)
    BY <2>1, MemoryLastIs
  <2>5. \A base, offset \in Raw :
          /\ memory_checked_offset(regions, base, offset) =
               IF base + offset \in Covered(regions) THEN base + offset ELSE None
          /\ \A i \in 1 .. Len(regions) :
               region_checked_offset(regions[i], base, offset) # None
                 <=> regions[i].start + base + offset \in AddrsOf(regions[i])
    BY <2>1, OffsetsAre
  <2> QED
    BY <2>2, <2>3, <2>4, <2>5, Zenon DEF QueriesExact, Holding, Asks, Sum
<1> QED
  BY <1>1, Invariance, PTL
=============================================================================
