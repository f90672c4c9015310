--------------------------- MODULE RemoteMemProofs ---------------------------
(***************************************************************************)
(* store() and load() (src/src/remote_mem.rs) for any number of threads,   *)
(* any map, words of any size and any requests.                            *)
(***************************************************************************)
EXTENDS RemoteMem, GuestRegionsProofs

----------------------------------------------------------------------------
(* Words                                                                   *)

\* Division with remainder.
LEMMA DivMod ==
  ASSUME NEW a \in Nat, NEW n \in Nat \ {0}
  PROVE  a % n \in 0 .. n - 1 /\ a \div n \in Nat /\ a = n * (a \div n) + (a % n)
OBVIOUS

\* The distance of two multiples of n is n at least.
LEMMA Multiples ==
  ASSUME NEW n \in Nat \ {0}, NEW j \in Int, NEW k \in Int, n * j < n * k
  PROVE  n * j + n <= n * k
<1>1. j < k
  OBVIOUS
<1>2. n * (j + 1) <= n * k
  BY <1>1
<1> QED
  BY <1>2

\* A block of whole words on a word border ends on one, as the mappings do that
\* process_load and process_store (remote_mem.rs) reach into.
LEMMA WholeWords ==
  ASSUME NEW n \in Nat \ {0}, NEW b \in Nat, NEW s \in Nat, b % n = 0, s % n = 0
  PROVE  \E m \in Int : b + s = n * m
<1>1. b = n * (b \div n) /\ b \div n \in Int
  BY DivMod
<1>2. s = n * (s \div n) /\ s \div n \in Int
  BY DivMod
<1> DEFINE j == b \div n
           k == s \div n
<1>3. b = n * j /\ s = n * k /\ j \in Int /\ k \in Int
  BY <1>1, <1>2
<1> HIDE DEF j, k
<1>4. b + s = n * (j + k)
  BY <1>3
<1>5. j + k \in Int
  BY <1>3
<1> DEFINE m == j + k
<1>6. b + s = n * m /\ m \in Int
  BY <1>4, <1>5
<1> HIDE DEF m
<1> QED
  BY <1>6

\* The word around an address: process_load and process_store (remote_mem.rs)
\* take the word that holds it, but for an address on a word border, where they
\* take the word before and leave room for no value at all.
LEMMA WordIs ==
  ASSUME NEW ptr \in Nat, NEW len \in Nat, fits(ptr, len)
  PROVE  /\ aligned(ptr) \in Int /\ offset(ptr) \in 1 .. ALG
         /\ aligned(ptr) + offset(ptr) = ptr
         /\ offset(ptr) + len <= ALG
         /\ len # 0 => ptr % ALG = offset(ptr)
         /\ \E k \in Int : aligned(ptr) = ALG * k
<1>1. /\ ptr % ALG \in 0 .. ALG - 1 /\ ptr \div ALG \in Nat
      /\ ptr = ALG * (ptr \div ALG) + (ptr % ALG) /\ ALG \in Nat \ {0}
  BY DivMod, WordAssumption
<1> DEFINE q == ptr \div ALG
           r == ptr % ALG
<1>2. r \in 0 .. ALG - 1 /\ q \in Nat /\ ptr = ALG * q + r /\ ALG * q \in Nat
  BY <1>1
<1>3. CASE r = 0
  <2>1. ALG % ALG = 0
    BY <1>1
  <2>2. align_offset(ptr) = 0 /\ offset(ptr) = ALG /\ aligned(ptr) = ptr - ALG
    BY <1>1, <1>3, <2>1 DEF align_offset, offset, aligned
  <2>3. aligned(ptr) = ALG * (q - 1)
    BY <1>1, <1>2, <1>3, <2>2
  <2>4. len = 0
    BY <1>1, <2>2 DEF fits
  <2>5. q - 1 \in Int /\ \E k \in Int : aligned(ptr) = ALG * k
    BY <1>2, <2>3
  <2> HIDE DEF q, r
  <2> QED
    BY <1>1, <2>2, <2>4, <2>5
<1>4. CASE r # 0
  <2>1. (ALG - r) % ALG = ALG - r
    BY <1>1, <1>2, <1>4
  <2>2. align_offset(ptr) = ALG - r /\ offset(ptr) = r /\ aligned(ptr) = ptr - r
    BY <1>1, <1>2, <2>1 DEF align_offset, offset, aligned
  <2>3. aligned(ptr) = ALG * q
    BY <1>2, <2>2
  <2>4. ptr + len <= aligned(ptr) + ALG
    BY DEF fits
  <2>5. \E k \in Int : aligned(ptr) = ALG * k
    BY <1>2, <2>3
  <2>6. ptr % ALG = offset(ptr)
    BY <2>2
  <2>7. r \in 1 .. ALG - 1 /\ ALG \in Nat
    BY <1>1, <1>2, <1>4
  <2> HIDE DEF q, r
  <2> QED
    BY <2>2, <2>4, <2>5, <2>6, <2>7
<1> QED
  BY <1>3, <1>4

----------------------------------------------------------------------------
(* Pointers                                                                *)

\* The map is one that from_arc_regions (mmap.rs) accepts.
LEMMA MapIs == Map \in Vectors /\ Ordered(Map) /\ NoneEmpty(Map)
<1>1. Map \in Vectors /\ NoneEmpty(Map)
  BY MapAssumption DEF Vectors, NoneEmpty
<1> QED
  BY <1>1, MapAssumption, FromArcOrdered

\* The pointer of a guest address, where there is one, is in the mapping of a
\* region (mmap.rs, store and load).
LEMMA PointerIs ==
  ASSUME NEW addr \in Raw, pointer(addr) # None
  PROVE  /\ pointer(addr) \in Nat
         /\ \E i \in 1 .. Len(Map) :
              /\ Map[i].host \in Nat /\ Map[i].size \in Nat
              /\ Map[i].host <= pointer(addr) /\ pointer(addr) < Map[i].host + Map[i].size
<1> DEFINE at == memory_to_region_addr(Map, addr)
<1>1. pointer(addr) = IF at.tag = "Err" \/ at.val.addr >= Map[at.val.region].size THEN None
                      ELSE Map[at.val.region].host + at.val.addr
  BY DEF pointer
<1>2. PICK i \in Holding(Map, addr) : TRUE
  <2>1. at = Err("InvalidGuestAddress") => at.tag = "Err"
    BY DEF Err
  <2> HIDE DEF at
  <2> QED
    BY <1>1, <2>1, MapIs, LookupIs DEF at
<1>3. /\ i \in 1 .. Len(Map) /\ at = Ok([region |-> i, addr |-> addr - Map[i].start])
      /\ addr - Map[i].start \in 0 .. Map[i].size - 1
  BY MapIs, LookupIs
<1>4. Map[i] \in GuestRegion
  BY <1>3, MapIs, RegionIs
<1>5. Map[i].host \in Nat /\ Map[i].size \in Nat
  BY <1>4 DEF GuestRegion, Raw
<1>6. at.tag = "Ok" /\ at.val.region = i /\ at.val.addr = addr - Map[i].start
  BY <1>3 DEF Ok
<1> HIDE DEF at
<1>7. pointer(addr) = Map[i].host + (addr - Map[i].start)
  BY <1>1, <1>3, <1>5, <1>6
<1>8. addr \in Nat /\ Map[i].start \in Nat
  BY <1>3, MapIs, RegionIs DEF Raw
<1>9. addr - Map[i].start \in Nat /\ addr - Map[i].start < Map[i].size
  BY <1>3, <1>5, <1>8
<1> QED
  BY <1>3, <1>5, <1>7, <1>9

\* A value that fits into the word around its first byte is in the region of
\* that byte, as regions end on a word border.
LEMMA ValueFits ==
  ASSUME NEW addr \in Raw, NEW len \in Nat, pointer(addr) # None, fits(pointer(addr), len)
  PROVE  \E i \in 1 .. Len(Map) :
           pointer(addr) .. pointer(addr) + len - 1
             \subseteq Map[i].host .. Map[i].host + Map[i].size - 1
<1> DEFINE ptr == pointer(addr)
<1>1. PICK i \in 1 .. Len(Map) :
        /\ Map[i].host \in Nat /\ Map[i].size \in Nat
        /\ Map[i].host <= ptr /\ ptr < Map[i].host + Map[i].size
  BY PointerIs
<1>2. ptr \in Nat /\ ALG \in Nat \ {0}
  BY PointerIs, WordAssumption
<1>3. /\ aligned(ptr) \in Int /\ aligned(ptr) < ptr
      /\ ptr + len <= aligned(ptr) + ALG
  BY <1>2, WordIs
<1>4. PICK k \in Int : aligned(ptr) = ALG * k
  BY <1>2, WordIs
<1>5. PICK m \in Int : Map[i].host + Map[i].size = ALG * m
  BY <1>1, <1>2, MapAssumption, WholeWords
<1> DEFINE low == ALG * k
           end == ALG * m
<1>6. low \in Int /\ end \in Int
  BY <1>2
<1>7. low < end
  <2> HIDE DEF ptr, low, end
  <2>1. aligned(ptr) = low /\ Map[i].host + Map[i].size = end
    BY <1>4, <1>5 DEF low, end
  <2> QED
    BY <1>1, <1>2, <1>3, <1>6, <2>1
<1>8. low + ALG <= end
  BY <1>2, <1>7, Multiples
<1>9. aligned(ptr) = low /\ Map[i].host + Map[i].size = end
  BY <1>4, <1>5
<1> HIDE DEF ptr, low, end
<1>10. ptr + len <= Map[i].host + Map[i].size
  BY <1>1, <1>2, <1>3, <1>6, <1>8, <1>9
<1>11. ptr .. ptr + len - 1 \subseteq Map[i].host .. Map[i].host + Map[i].size - 1
  BY <1>1, <1>2, <1>10
<1> QED
  BY <1>11 DEF ptr

----------------------------------------------------------------------------
(* The access that a thread is in                                          *)

\* A thread in the middle of an access (remote_mem.rs, process_load and
\* process_store) has one of the requests, which passed the checks of the call.
InAccess(t) ==
  \E r \in Requests :
    /\ r.thread = t /\ req[t] = [kind |-> r.kind, addr |-> r.addr, len |-> r.len]
    /\ pc[t] = "load" => r.kind = "load"
    /\ pc[t] \in {"store", "patched"} => r.kind = "store"
    /\ pointer(r.addr) # None /\ fits(pointer(r.addr), r.len)

\* The inductive invariant.
AccessInv ==
  /\ mem = [h \in Host |-> mem[h]]
  /\ pc \in [Threads -> {"idle", "load", "store", "patched"}]
  /\ DOMAIN req = Threads /\ DOMAIN val = Threads /\ DOMAIN data = Threads
  /\ DOMAIN out = Threads
  /\ \A t \in Threads : pc[t] # "idle" => InAccess(t)

\* What the checks of the call leave of an access: a pointer, and a word around
\* it that the value does not leave.
LEMMA InAccessIs ==
  ASSUME NEW t \in Threads, InAccess(t)
  PROVE  /\ req[t].addr \in Raw /\ req[t].len \in Nat
         /\ Ptr(t) \in Nat /\ Ptr(t) # None /\ fits(Ptr(t), req[t].len)
         /\ aligned(Ptr(t)) \in Int /\ offset(Ptr(t)) \in 1 .. ALG
         /\ aligned(Ptr(t)) + offset(Ptr(t)) = Ptr(t)
         /\ offset(Ptr(t)) + req[t].len <= ALG
<1>1. /\ req[t].addr \in Raw /\ req[t].len \in Nat
      /\ pointer(req[t].addr) # None /\ fits(pointer(req[t].addr), req[t].len)
  BY RequestsAssumption DEF InAccess
<1>2. pointer(req[t].addr) \in Nat
  BY <1>1, PointerIs
<1> QED
  BY <1>1, <1>2, WordIs DEF Ptr

\* No call has been made yet.
LEMMA InitAccess == Init => AccessInv
<1> SUFFICES ASSUME Init PROVE AccessInv
  OBVIOUS
<1>1. mem = [h \in Host |-> mem[h]]
  BY DEF Init
<1> QED
  BY <1>1 DEF Init, AccessInv

\* A call gets past the checks of mmap.rs and remote_mem.rs before it reaches
\* memory, and its arguments do not change afterwards.
LEMMA NextAccess == AccessInv /\ [Next]_vars => AccessInv'
<1> SUFFICES ASSUME AccessInv, [Next]_vars PROVE AccessInv'
  OBVIOUS
<1> USE DEF AccessInv
<1>1. CASE UNCHANGED vars
  BY <1>1 DEF vars, InAccess
<1>2. ASSUME NEW h \in OwnerWrites, NEW v \in Vals, OwnerWrite(h, v) PROVE AccessInv'
  BY <1>2 DEF OwnerWrite, InAccess
<1>3. ASSUME NEW w \in words, OwnerUnmap(w) PROVE AccessInv'
  BY <1>3 DEF OwnerUnmap, InAccess
<1>4. ASSUME NEW r \in Requests, NEW v \in [1 .. r.len -> Vals], Call(r.thread, r, v)
      PROVE  AccessInv'
  <2> DEFINE t == r.thread
  <2>1. t \in Threads /\ r.kind \in {"load", "store"}
    BY RequestsAssumption
  <2>2. \A u \in Threads : u # t => pc'[u] = pc[u] /\ req'[u] = req[u]
    BY <1>4 DEF Call, return
  <2>3. \A u \in Threads : u # t /\ pc'[u] # "idle" => InAccess(u)'
    BY <2>2 DEF InAccess
  <2>4. pc'[t] # "idle" => InAccess(t)'
    <3>1. req'[t] = [kind |-> r.kind, addr |-> r.addr, len |-> r.len]
      BY <1>4, <2>1 DEF Call
    <3>2. pc'[t] # "idle" =>
            pc'[t] = r.kind /\ pointer(r.addr) # None /\ fits(pointer(r.addr), r.len)
      BY <1>4, <2>1 DEF Call, return
    <3> QED
      BY <2>1, <3>1, <3>2 DEF InAccess
  <2>5. /\ pc' \in [Threads -> {"idle", "load", "store", "patched"}]
        /\ DOMAIN req' = Threads /\ DOMAIN val' = Threads /\ DOMAIN data' = Threads
        /\ DOMAIN out' = Threads /\ mem' = mem
    BY <1>4, <2>1 DEF Call, return
  <2> QED
    BY <2>3, <2>4, <2>5
<1>5. ASSUME NEW t \in Threads, Load(t) \/ StoreRead(t) \/ StoreWrite(t) PROVE AccessInv'
  <2>1. /\ pc' \in [Threads -> {"idle", "load", "store", "patched"}]
        /\ DOMAIN req' = Threads /\ DOMAIN val' = Threads /\ DOMAIN data' = Threads
        /\ DOMAIN out' = Threads /\ req' = req
        /\ \A u \in Threads : u # t => pc'[u] = pc[u]
        /\ pc'[t] # "idle" => pc'[t] = "patched" /\ pc[t] = "store"
    BY <1>5 DEF Load, StoreRead, StoreWrite, return
  <2>2. mem' = [h \in Host |-> mem'[h]]
    BY <1>5 DEF Load, StoreRead, StoreWrite
  <2>3. \A u \in Threads : pc'[u] # "idle" => InAccess(u)'
    BY <2>1 DEF InAccess
  <2> QED
    BY <2>1, <2>2, <2>3
<1> QED
  BY <1>1, <1>2, <1>3, <1>4, <1>5 DEF Next

\* The invariant of store() and load() (mmap.rs, remote_mem.rs).
LEMMA AccessInvariant == Spec => []AccessInv
<1> QED
  BY InitAccess, NextAccess, PTL DEF Spec

\* The bytes of an access in progress are in the region of its first byte, the
\* only one that store and load (mmap.rs) check: the assertions of remote_mem.rs
\* keep the value in a word, and regions are made of whole words.
THEOREM ValuesInRegion == Spec => []ValueInRegion
<1>1. AccessInv => ValueInRegion
  <2> SUFFICES ASSUME AccessInv, NEW t \in Threads, pc[t] # "idle"
               PROVE  \E i \in 1 .. Len(Map) :
                        Bytes(t) \subseteq Map[i].host .. Map[i].host + Map[i].size - 1
    BY DEF ValueInRegion
  <2>1. /\ req[t].addr \in Raw /\ req[t].len \in Nat
        /\ pointer(req[t].addr) # None /\ fits(pointer(req[t].addr), req[t].len)
    BY InAccessIs DEF AccessInv, Ptr
  <2> QED
    BY <2>1, ValueFits DEF Bytes, Ptr
<1> QED
  BY <1>1, AccessInvariant, PTL

----------------------------------------------------------------------------
(* Loads                                                                   *)

\* process_load (remote_mem.rs) returns the bytes at its address, as they were
\* when the one system call read the word around them.
THEOREM LoadsExact == Spec => LoadExact
<1> DEFINE Exact(t) == pc[t] = "load" /\ pc'[t] = "idle" /\ out'[t] = "Ok"
                         => val'[t] = [i \in 1 .. req[t].len |-> mem[Ptr(t) + i - 1]]
<1>1. AccessInv /\ [Next]_vars => [\A t \in Threads : Exact(t)]_vars
  <2> SUFFICES ASSUME AccessInv, Next, NEW t \in Threads,
                      pc[t] = "load", pc'[t] = "idle", out'[t] = "Ok"
               PROVE  val'[t] = [i \in 1 .. req[t].len |-> mem[Ptr(t) + i - 1]]
    OBVIOUS
  <2>1. Load(t) /\ Mapped(t)
    <3>1. ASSUME NEW u \in Threads, Load(u) \/ StoreRead(u) \/ StoreWrite(u) PROVE u = t
      BY <3>1 DEF AccessInv, Load, StoreRead, StoreWrite, return
    <3>2. ASSUME NEW r \in Requests, NEW v \in [1 .. r.len -> Vals], Call(r.thread, r, v)
          PROVE  FALSE
      BY <3>2, RequestsAssumption DEF AccessInv, Call, return
    <3>3. \E u \in Threads : Load(u) \/ StoreRead(u) \/ StoreWrite(u)
      BY <3>2 DEF Next, OwnerWrite, OwnerUnmap
    <3>4. Load(t)
      BY <3>1, <3>3 DEF StoreRead, StoreWrite
    <3> QED
      BY <3>4 DEF AccessInv, Load, return
  <2>2. val'[t] = SubSeq(WordAt(t), offset(Ptr(t)) + 1, offset(Ptr(t)) + req[t].len)
    BY <2>1 DEF AccessInv, Load
  <2>3. InAccess(t)
    BY DEF AccessInv
  <2> DEFINE o == offset(Ptr(t))
             a == aligned(Ptr(t))
             n == req[t].len
  <2>4. o \in 1 .. ALG /\ a \in Int /\ n \in Nat /\ a + o = Ptr(t) /\ o + n <= ALG /\ ALG \in Nat
    BY <2>3, InAccessIs, WordAssumption
  <2>5. SubSeq(WordAt(t), o + 1, o + n)
          = [i \in 1 .. (o + n) - (o + 1) + 1 |-> WordAt(t)[(o + 1) + i - 1]]
    <3>1. o + 1 \in Int /\ o + n \in Int /\ o + 1 <= o + n + 1
      BY <2>4
    <3> HIDE DEF o, n
    <3> QED
      BY <3>1, SubSeqIs
  <2>6. \A i \in 1 .. n : /\ (o + 1) + i - 1 \in 1 .. ALG
                          /\ a + ((o + 1) + i - 1) - 1 = Ptr(t) + i - 1
    BY <2>4
  <2>7. \A i \in 1 .. n : WordAt(t)[(o + 1) + i - 1] = mem[Ptr(t) + i - 1]
    BY <2>6 DEF WordAt
  <2>8. (o + n) - (o + 1) + 1 = n
    BY <2>4
  <2> HIDE DEF o, n
  <2> QED
    BY <2>2, <2>5, <2>7, <2>8 DEF o, n
<1> QED
  BY <1>1, AccessInvariant, PTL DEF Spec, LoadExact

----------------------------------------------------------------------------
(* Stores                                                                  *)

\* Between its two system calls process_store (remote_mem.rs) holds the word as
\* it is in memory, but for the value.
CopyOf(t) ==
  \A h \in Host :
    h - aligned(Ptr(t)) \in 0 .. ALG - 1 =>
      data[t][h - aligned(Ptr(t)) + 1]
        = IF h \in Bytes(t) THEN val[t][h - Ptr(t) + 1] ELSE mem[h]

CopyInv == \A t \in Threads : pc[t] = "patched" => CopyOf(t)

\* Words that start at different addresses have no byte in common: aligned
\* (remote_mem.rs) is a multiple of ALG.
LEMMA WordsApart ==
  ASSUME NEW p \in Nat, NEW q \in Nat, NEW m \in Nat, NEW n \in Nat, fits(p, m), fits(q, n),
         NEW h \in Int, h - aligned(p) \in 0 .. ALG - 1, h - aligned(q) \in 0 .. ALG - 1
  PROVE  aligned(p) = aligned(q)
<1>1. PICK j \in Int : aligned(p) = ALG * j
  BY WordIs
<1>2. PICK k \in Int : aligned(q) = ALG * k
  BY WordIs
<1> DEFINE a == ALG * j
           b == ALG * k
<1>3. a \in Int /\ b \in Int /\ ALG \in Nat \ {0}
  BY WordAssumption
<1>4. a < b => a + ALG <= b
  BY <1>3, Multiples
<1>5. b < a => b + ALG <= a
  BY <1>3, Multiples
<1>6. h - a \in 0 .. ALG - 1 /\ h - b \in 0 .. ALG - 1
  BY <1>1, <1>2
<1>7. a = b
  <2> HIDE DEF a, b
  <2> QED
    BY <1>3, <1>4, <1>5, <1>6
<1> QED
  BY <1>1, <1>2, <1>7

\* The copy stays right as long as the bytes of its word do.
LEMMA CopyKept ==
  ASSUME AccessInv, CopyInv, NEW t \in Threads, pc[t] = "patched",
         req'[t] = req[t], val'[t] = val[t], data'[t] = data[t],
         \A h \in Host : h - aligned(Ptr(t)) \in 0 .. ALG - 1 => mem'[h] = mem[h]
  PROVE  CopyOf(t)'
<1>1. Ptr(t)' = Ptr(t) /\ Bytes(t)' = Bytes(t)
  BY DEF Ptr, Bytes
<1>2. CopyOf(t)
  BY DEF CopyInv
<1> QED
  BY <1>1, <1>2 DEF CopyOf

\* Between the two system calls of process_store (remote_mem.rs) nobody else
\* writes the word, so the copy stays right.
LEMMA NextCopy == OneWriterPerWord /\ AccessInv /\ CopyInv /\ [Next]_vars => CopyInv'
<1> SUFFICES ASSUME OneWriterPerWord, AccessInv, CopyInv, [Next]_vars,
                    NEW t \in Threads, pc'[t] = "patched"
             PROVE  CopyOf(t)'
  BY DEF CopyInv
<1>0. Host \subseteq Int
  BY WordAssumption DEF Host
<1>a. ASSUME pc[t] = "patched"
      PROVE  \E r \in Stores : r.thread = t /\ WordOf(r) = aligned(Ptr(t))
  BY <1>a DEF AccessInv, InAccess, Stores, WordOf, Ptr
<1>1. CASE UNCHANGED vars
  BY <1>1, CopyKept DEF vars
<1>2. ASSUME NEW h \in OwnerWrites, NEW v \in Vals, OwnerWrite(h, v) PROVE CopyOf(t)'
  <2>1. /\ pc[t] = "patched" /\ req' = req /\ val' = val /\ data' = data
        /\ mem' = [mem EXCEPT ![h] = v]
    BY <1>2 DEF OwnerWrite
  <2>2. InAccess(t)
    BY <2>1 DEF AccessInv
  <2>3. aligned(Ptr(t)) \in Int /\ ALG \in Nat
    BY <2>2, InAccessIs, WordAssumption
  <2>4. h \notin aligned(Ptr(t)) .. aligned(Ptr(t)) + ALG - 1
    BY <1>a, <2>1 DEF OneWriterPerWord
  <2>5. \A g \in Host : g - aligned(Ptr(t)) \in 0 .. ALG - 1 =>
          g \in aligned(Ptr(t)) .. aligned(Ptr(t)) + ALG - 1
    BY <1>0, <2>3
  <2>6. \A g \in Host : g - aligned(Ptr(t)) \in 0 .. ALG - 1 => mem'[g] = mem[g]
    BY <2>1, <2>4, <2>5 DEF AccessInv
  <2> QED
    BY <2>1, <2>6, CopyKept
<1>3. ASSUME NEW w \in words, OwnerUnmap(w) PROVE CopyOf(t)'
  BY <1>3, CopyKept DEF OwnerUnmap
<1>4. ASSUME NEW r \in Requests, NEW v \in [1 .. r.len -> Vals], Call(r.thread, r, v)
      PROVE  CopyOf(t)'
  <2>1. r.thread \in Threads /\ r.kind \in {"load", "store"}
    BY RequestsAssumption
  <2>2. r.thread # t /\ pc[t] = "patched"
    BY <1>4, <2>1 DEF AccessInv, Call, return
  <2> QED
    BY <1>4, <2>1, <2>2, CopyKept DEF AccessInv, Call
<1>5. ASSUME NEW u \in Threads, Load(u) PROVE CopyOf(t)'
  <2>1. u # t /\ pc[t] = "patched"
    BY <1>5 DEF AccessInv, Load, return
  <2> QED
    BY <1>5, <2>1, CopyKept DEF AccessInv, Load
<1>6. ASSUME NEW u \in Threads, u # t, StoreRead(u) PROVE CopyOf(t)'
  <2>1. pc[t] = "patched"
    BY <1>6 DEF AccessInv, StoreRead, return
  <2> QED
    BY <1>6, <2>1, CopyKept DEF AccessInv, StoreRead
<1>7. ASSUME StoreRead(t) PROVE CopyOf(t)'
  <2> DEFINE o == offset(Ptr(t))
             a == aligned(Ptr(t))
             n == req[t].len
  <2>1. /\ mem' = mem /\ req' = req /\ val' = val
        /\ data'[t] = [i \in 1 .. ALG |-> IF i - o \in 1 .. n THEN val[t][i - o] ELSE WordAt(t)[i]]
    BY <1>7 DEF AccessInv, StoreRead, return
  <2>2. InAccess(t)
    BY <1>7 DEF AccessInv, StoreRead
  <2>3. o \in 1 .. ALG /\ a \in Int /\ n \in Nat /\ a + o = Ptr(t) /\ ALG \in Nat /\ Ptr(t) \in Nat
    BY <2>2, InAccessIs, WordAssumption
  <2>4. Ptr(t)' = Ptr(t) /\ Bytes(t)' = Bytes(t) /\ aligned(Ptr(t))' = a
    BY <2>1 DEF Ptr, Bytes, aligned, offset, align_offset
  <2>5. ASSUME NEW h \in Host, h - a \in 0 .. ALG - 1
        PROVE  data'[t][h - a + 1] = IF h \in Bytes(t) THEN val[t][h - Ptr(t) + 1] ELSE mem[h]
    <3>1. h \in Int /\ h - a + 1 \in 1 .. ALG /\ h - a + 1 - o = h - Ptr(t) + 1
      BY <1>0, <2>3, <2>5
    <3>2. h - Ptr(t) + 1 \in 1 .. n <=> h \in Bytes(t)
      BY <2>3, <3>1 DEF Bytes
    <3>3. WordAt(t)[h - a + 1] = mem[a + (h - a + 1) - 1]
      BY <3>1 DEF WordAt
    <3>4. a + (h - a + 1) - 1 = h
      BY <2>3, <3>1
    <3> DEFINE i == h - a + 1
    <3>5. i \in 1 .. ALG /\ i - o = h - Ptr(t) + 1
      BY <1>0, <2>3, <2>5
    <3>6. data'[t][i] = IF i - o \in 1 .. n THEN val[t][i - o] ELSE WordAt(t)[i]
      <4> HIDE DEF i, o, n
      <4> QED
        BY <2>1, <3>5
    <3>7. WordAt(t)[i] = mem[h]
      BY <3>3, <3>4
    <3>8. data'[t][i] = IF h \in Bytes(t) THEN val[t][h - Ptr(t) + 1] ELSE mem[h]
      <4> HIDE DEF i, o, n
      <4> QED
        BY <3>2, <3>5, <3>6, <3>7 DEF n
    <3> QED
      BY <3>8
  <2> QED
    BY <2>1, <2>4, <2>5 DEF CopyOf
<1>8. ASSUME NEW u \in Threads, StoreWrite(u) PROVE CopyOf(t)'
  <2>1. u # t /\ pc[t] = "patched" /\ pc[u] = "patched"
    BY <1>8 DEF AccessInv, StoreWrite, return
  <2>2. aligned(Ptr(u)) # aligned(Ptr(t))
    BY <1>8, <2>1 DEF OneWriterPerWord, AccessInv, InAccess, Stores, WordOf, Ptr
  <2>3. InAccess(t) /\ InAccess(u)
    BY <2>1 DEF AccessInv
  <2>4. \A h \in Host : h - aligned(Ptr(t)) \in 0 .. ALG - 1 => h - aligned(Ptr(u)) \notin 0 .. ALG - 1
    BY <1>0, <2>2, <2>3, InAccessIs, WordsApart
  <2>5. \A h \in Host : h - aligned(Ptr(t)) \in 0 .. ALG - 1 => mem'[h] = mem[h]
    BY <1>8, <2>4 DEF StoreWrite
  <2>6. req' = req /\ val' = val /\ data'[t] = data[t]
    BY <1>8, <2>1 DEF AccessInv, StoreWrite
  <2> QED
    BY <2>1, <2>5, <2>6, CopyKept
<1> QED
  BY <1>1, <1>2, <1>3, <1>4, <1>5, <1>6, <1>7, <1>8 DEF Next

\* Where no word has two writers, as the comment on ALG (remote_mem.rs) asks, a
\* store is exact although process_store writes back a word that it read before:
\* on success its value is in memory and every other byte is as it was.
THEOREM StoresExact ==
  ASSUME OneWriterPerWord
  PROVE  Spec => StoreExact
<1> DEFINE Exact(t) == pc[t] = "patched" /\ pc'[t] = "idle"
                         => mem' = IF out'[t] = "Ok"
                                   THEN [h \in Host |-> IF h \in Bytes(t) THEN val[t][h - Ptr(t) + 1]
                                                        ELSE mem[h]]
                                   ELSE mem
<1>1. AccessInv /\ CopyInv /\ [Next]_vars => [\A t \in Threads : Exact(t)]_vars
  <2> SUFFICES ASSUME AccessInv, CopyInv, Next, NEW t \in Threads, pc[t] = "patched", pc'[t] = "idle"
               PROVE  mem' = IF out'[t] = "Ok"
                             THEN [h \in Host |-> IF h \in Bytes(t) THEN val[t][h - Ptr(t) + 1]
                                                  ELSE mem[h]]
                             ELSE mem
    OBVIOUS
  <2>1. StoreWrite(t)
    <3>1. ASSUME NEW u \in Threads, Load(u) \/ StoreRead(u) \/ StoreWrite(u) PROVE u = t
      BY <3>1 DEF AccessInv, Load, StoreRead, StoreWrite, return
    <3>2. ASSUME NEW r \in Requests, NEW v \in [1 .. r.len -> Vals], Call(r.thread, r, v)
          PROVE  FALSE
      BY <3>2, RequestsAssumption DEF AccessInv, Call, return
    <3>3. \E u \in Threads : Load(u) \/ StoreRead(u) \/ StoreWrite(u)
      BY <3>2 DEF Next, OwnerWrite, OwnerUnmap
    <3> QED
      BY <3>1, <3>3 DEF Load, StoreRead
  <2>2. CASE ~ Mapped(t)
    BY <2>1, <2>2 DEF AccessInv, StoreWrite, return
  <2>3. CASE Mapped(t)
    <3>1. /\ mem' = [h \in Host |-> IF h - aligned(Ptr(t)) \in 0 .. ALG - 1
                                    THEN data[t][h - aligned(Ptr(t)) + 1] ELSE mem[h]]
          /\ out'[t] = "Ok"
      BY <2>1, <2>3 DEF AccessInv, StoreWrite, return
    <3>2. InAccess(t) /\ CopyOf(t)
      BY DEF AccessInv, CopyInv
    <3>3. /\ aligned(Ptr(t)) \in Int /\ Ptr(t) \in Nat /\ req[t].len \in Nat /\ ALG \in Nat
          /\ aligned(Ptr(t)) <= Ptr(t) /\ Ptr(t) + req[t].len <= aligned(Ptr(t)) + ALG
      BY <3>2, InAccessIs, WordAssumption
    <3>4. \A h \in Host : h \in Bytes(t) => h - aligned(Ptr(t)) \in 0 .. ALG - 1
      BY <3>3 DEF Bytes
    <3>5. \A h \in Host : (IF h - aligned(Ptr(t)) \in 0 .. ALG - 1
                           THEN data[t][h - aligned(Ptr(t)) + 1] ELSE mem[h])
                            = IF h \in Bytes(t) THEN val[t][h - Ptr(t) + 1] ELSE mem[h]
      BY <3>2, <3>4 DEF CopyOf
    <3> QED
      BY <3>1, <3>5
  <2> QED
    BY <2>2, <2>3
<1>2. Init => CopyInv
  BY DEF Init, CopyInv
<1>3. AccessInv /\ CopyInv /\ [Next]_vars => CopyInv'
  BY NextCopy
<1> QED
  BY <1>1, <1>2, <1>3, AccessInvariant, PTL DEF Spec, StoreExact

----------------------------------------------------------------------------
(* Stores to a word that others write, too                                 *)

\* The copy of the word that a store works on holds its value.
PatchOf(t) ==
  \A h \in Bytes(t) : data[t][h - aligned(Ptr(t)) + 1] = val[t][h - Ptr(t) + 1]

PatchInv == \A t \in Threads : pc[t] = "patched" => PatchOf(t)

\* Whatever the others do, the copy keeps the value (remote_mem.rs,
\* process_store).
LEMMA NextPatch == AccessInv /\ PatchInv /\ [Next]_vars => PatchInv'
<1> SUFFICES ASSUME AccessInv, PatchInv, [Next]_vars, NEW t \in Threads, pc'[t] = "patched"
             PROVE  PatchOf(t)'
  BY DEF PatchInv
<1>1. ASSUME pc[t] = "patched", req'[t] = req[t], val'[t] = val[t], data'[t] = data[t]
      PROVE  PatchOf(t)'
  <2>1. Ptr(t)' = Ptr(t) /\ Bytes(t)' = Bytes(t)
    BY <1>1 DEF Ptr, Bytes
  <2>2. PatchOf(t)
    BY <1>1 DEF PatchInv
  <2> QED
    BY <1>1, <2>1, <2>2 DEF PatchOf
<1>2. CASE UNCHANGED vars \/ \E h \in OwnerWrites, v \in Vals : OwnerWrite(h, v)
  BY <1>1, <1>2 DEF vars, OwnerWrite
<1>3. CASE \E w \in words : OwnerUnmap(w)
  BY <1>1, <1>3 DEF OwnerUnmap
<1>4. ASSUME NEW r \in Requests, NEW v \in [1 .. r.len -> Vals], Call(r.thread, r, v)
      PROVE  PatchOf(t)'
  <2>1. r.thread \in Threads /\ r.kind \in {"load", "store"}
    BY RequestsAssumption
  <2>2. r.thread # t /\ pc[t] = "patched"
    BY <1>4, <2>1 DEF AccessInv, Call, return
  <2> QED
    BY <1>1, <1>4, <2>1, <2>2 DEF AccessInv, Call
<1>5. ASSUME NEW u \in Threads, u # t, Load(u) \/ StoreRead(u) \/ StoreWrite(u) PROVE PatchOf(t)'
  <2>1. pc[t] = "patched"
    BY <1>5 DEF AccessInv, Load, StoreRead, StoreWrite, return
  <2> QED
    BY <1>1, <1>5, <2>1 DEF AccessInv, Load, StoreRead, StoreWrite
<1>6. ASSUME Load(t) \/ StoreWrite(t) PROVE FALSE
  BY <1>6 DEF AccessInv, Load, StoreWrite, return
<1>7. ASSUME StoreRead(t) PROVE PatchOf(t)'
  <2> DEFINE o == offset(Ptr(t))
             a == aligned(Ptr(t))
             n == req[t].len
  <2>1. /\ req' = req /\ val' = val
        /\ data'[t] = [i \in 1 .. ALG |-> IF i - o \in 1 .. n THEN val[t][i - o] ELSE WordAt(t)[i]]
    BY <1>7 DEF AccessInv, StoreRead, return
  <2>2. InAccess(t)
    BY <1>7 DEF AccessInv, StoreRead
  <2>3. /\ o \in 1 .. ALG /\ a \in Int /\ n \in Nat /\ a + o = Ptr(t) /\ ALG \in Nat /\ Ptr(t) \in Nat
        /\ a <= Ptr(t) /\ Ptr(t) + n <= a + ALG
    BY <2>2, InAccessIs, WordAssumption
  <2>4. Ptr(t)' = Ptr(t) /\ Bytes(t)' = Bytes(t) /\ aligned(Ptr(t))' = a
    BY <2>1 DEF Ptr, Bytes, aligned, offset, align_offset
  <2>5. ASSUME NEW h \in Bytes(t)
        PROVE  data'[t][h - a + 1] = val[t][h - Ptr(t) + 1]
    <3> DEFINE i == h - a + 1
    <3>1. i \in 1 .. ALG /\ i - o = h - Ptr(t) + 1 /\ i - o \in 1 .. n
      BY <2>3 DEF Bytes
    <3>2. data'[t][i] = val[t][i - o]
      <4> HIDE DEF i, o, n
      <4> QED
        BY <2>1, <3>1
    <3> QED
      BY <3>1, <3>2
  <2> QED
    BY <2>1, <2>4, <2>5 DEF PatchOf
<1> QED
  BY <1>2, <1>3, <1>4, <1>5, <1>6, <1>7 DEF Next

\* Also where others write to the same word, a store (remote_mem.rs,
\* process_store) that returns Ok leaves its whole value in memory and touches
\* no byte outside its word: all that a race can lose are other bytes of the
\* word.
THEOREM StoresLand ==
  Spec => [][\A t \in Threads :
               pc[t] = "patched" /\ pc'[t] = "idle" /\ out'[t] = "Ok" =>
                 /\ \A h \in Host \cap Bytes(t) : mem'[h] = val[t][h - Ptr(t) + 1]
                 /\ \A h \in Host : h - aligned(Ptr(t)) \notin 0 .. ALG - 1 => mem'[h] = mem[h]]_vars
<1> DEFINE Lands(t) ==
             pc[t] = "patched" /\ pc'[t] = "idle" /\ out'[t] = "Ok" =>
               /\ \A h \in Host \cap Bytes(t) : mem'[h] = val[t][h - Ptr(t) + 1]
               /\ \A h \in Host : h - aligned(Ptr(t)) \notin 0 .. ALG - 1 => mem'[h] = mem[h]
<1>1. AccessInv /\ PatchInv /\ [Next]_vars => [\A t \in Threads : Lands(t)]_vars
  <2> SUFFICES ASSUME AccessInv, PatchInv, Next,
                      NEW t \in Threads, pc[t] = "patched", pc'[t] = "idle", out'[t] = "Ok"
               PROVE  /\ \A h \in Host \cap Bytes(t) : mem'[h] = val[t][h - Ptr(t) + 1]
                      /\ \A h \in Host : h - aligned(Ptr(t)) \notin 0 .. ALG - 1 => mem'[h] = mem[h]
    OBVIOUS
  <2>1. StoreWrite(t)
    <3>1. ASSUME NEW u \in Threads, Load(u) \/ StoreRead(u) \/ StoreWrite(u) PROVE u = t
      BY <3>1 DEF AccessInv, Load, StoreRead, StoreWrite, return
    <3>2. ASSUME NEW r \in Requests, NEW v \in [1 .. r.len -> Vals], Call(r.thread, r, v)
          PROVE  FALSE
      BY <3>2, RequestsAssumption DEF AccessInv, Call, return
    <3>3. \E u \in Threads : Load(u) \/ StoreRead(u) \/ StoreWrite(u)
      BY <3>2 DEF Next, OwnerWrite, OwnerUnmap
    <3> QED
      BY <3>1, <3>3 DEF Load, StoreRead
  <2>2. Mapped(t)
    BY <2>1 DEF AccessInv, StoreWrite, return
  <2>3. mem' = [h \in Host |-> IF h - aligned(Ptr(t)) \in 0 .. ALG - 1
                               THEN data[t][h - aligned(Ptr(t)) + 1] ELSE mem[h]]
    BY <2>1, <2>2 DEF StoreWrite
  <2>4. InAccess(t) /\ PatchOf(t)
    BY DEF AccessInv, PatchInv
  <2>5. /\ aligned(Ptr(t)) \in Int /\ Ptr(t) \in Nat /\ req[t].len \in Nat /\ ALG \in Nat
        /\ aligned(Ptr(t)) <= Ptr(t) /\ Ptr(t) + req[t].len <= aligned(Ptr(t)) + ALG
    BY <2>4, InAccessIs, WordAssumption
  <2>6. \A h \in Bytes(t) : h - aligned(Ptr(t)) \in 0 .. ALG - 1
    BY <2>5 DEF Bytes
  <2>7. \A h \in Host \cap Bytes(t) : mem'[h] = val[t][h - Ptr(t) + 1]
    BY <2>3, <2>4, <2>6 DEF PatchOf
  <2> QED
    BY <2>3, <2>7
<1>2. Init => PatchInv
  BY DEF Init, PatchInv
<1>3. AccessInv /\ PatchInv /\ [Next]_vars => PatchInv'
  BY NextPatch
<1> QED
  BY <1>1, <1>2, <1>3, AccessInvariant, PTL DEF Spec
=============================================================================
