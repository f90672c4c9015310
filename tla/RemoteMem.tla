----------------------------- MODULE RemoteMem -----------------------------
(***************************************************************************)
(* store() and load() on guest memory (guest_memory.rs, mmap.rs) and the   *)
(* read-modify-write they are made of (src/src/remote_mem.rs).  There is   *)
(* no atomic access to another process: process_store reads the aligned    *)
(* word of ALG bytes around the value, puts the value into it and writes   *)
(* the word back.  As the comment on ALG assumes, each of the two system   *)
(* calls moves one aligned word in one piece.                              *)
(*                                                                         *)
(* Several threads make such accesses at the same time, the process that   *)
(* owns the memory writes to it directly, and it may unmap words.          *)
(***************************************************************************)
EXTENDS GuestRegions

CONSTANTS
  Threads,
  ALG,          \* size of an atomic word, 8 in the code
  Map,          \* the memory map
  Requests,     \* the accesses: records [thread, kind, addr, len]
  OwnerWrites,  \* host addresses the owner of the memory writes to itself
  HostSize,     \* host addresses are 0 .. HostSize - 1
  Vals          \* values of a byte

ASSUME WordAssumption == ALG \in Nat \ {0} /\ HostSize \in Nat
ASSUME RequestsAssumption ==
  Requests \subseteq [thread : Threads, kind : {"store", "load"}, addr : Raw, len : Nat]
\* A map without empty regions that from_arc_regions accepts.  Mappings start
\* and end on a page boundary, which is a word boundary.
ASSUME MapAssumption ==
  /\ Map \in Seq(GuestRegion) /\ from_arc_regions(Map).tag = "Ok"
  /\ \A i \in 1 .. Len(Map) : /\ Map[i].size > 0 /\ Map[i].start + Map[i].size \in Raw
                              /\ Map[i].host % ALG = 0 /\ Map[i].size % ALG = 0

VARIABLES
  mem,      \* the memory of the other process
  words,    \* the words it has mapped, by their number
  pc,       \* where each thread is
  req,      \* the request it works on
  val,      \* the value it stores, or has loaded
  data,     \* the word that process_store has read and patched
  out       \* the result of its last call

vars == <<mem, words, pc, req, val, data, out>>

Host == 0 .. HostSize - 1
NoReq == [kind |-> "none", addr |-> 0, len |-> 0]

Init ==
  /\ mem \in [Host -> {CHOOSE v \in Vals : TRUE}]
  /\ words = {h \div ALG : h \in Host}
  /\ pc = [t \in Threads |-> "idle"]
  /\ req = [t \in Threads |-> NoReq]
  /\ val = [t \in Threads |-> << >>]
  /\ data = [t \in Threads |-> << >>]
  /\ out = [t \in Threads |-> "none"]

----------------------------------------------------------------------------
(* The process that owns the memory                                        *)

OwnerWrite(h, v) ==
  /\ h \div ALG \in words /\ mem' = [mem EXCEPT ![h] = v]
  /\ UNCHANGED <<words, pc, req, val, data, out>>

OwnerUnmap(w) ==
  /\ words' = words \ {w}
  /\ UNCHANGED <<mem, pc, req, val, data, out>>

----------------------------------------------------------------------------
(* One access                                                              *)

\* addr.align_offset(ALG): how far the next word boundary is.
align_offset(ptr) == (ALG - (ptr % ALG)) % ALG

\* The first two lines of process_load and process_store.
offset(ptr)  == ALG - align_offset(ptr)
aligned(ptr) == ptr - offset(ptr)

\* Mutation of fits: the end of the value is not checked.
fits_any(ptr, len) == len <= ALG

\* The two assertions.
fits(ptr, len) == len <= ALG /\ ptr + len <= aligned(ptr) + ALG

\* The host address of guest address addr: to_region_addr of the map, the
\* bounds check of GuestRegionMmap::store and load, the mapping's pointer.
pointer(addr) ==
  LET at == memory_to_region_addr(Map, addr)
  IN  IF at.tag = "Err" \/ at.val.addr >= Map[at.val.region].size THEN None
      ELSE Map[at.val.region].host + at.val.addr

Ptr(t) == pointer(req[t].addr)

\* The word that a system call at the aligned address moves.
WordAt(t)   == [i \in 1 .. ALG |-> mem[aligned(Ptr(t)) + i - 1]]
Mapped(t)   == aligned(Ptr(t)) \div ALG \in words

return(t, r) ==
  /\ pc' = [pc EXCEPT ![t] = "idle"]
  /\ out' = [out EXCEPT ![t] = r]

\* The call: translation, bounds and the assertions, before any system call.
Call(t, r, v) ==
  /\ pc[t] = "idle" /\ r.thread = t
  /\ req' = [req EXCEPT ![t] = [kind |-> r.kind, addr |-> r.addr, len |-> r.len]]
  /\ val' = [val EXCEPT ![t] = IF r.kind = "store" THEN v ELSE << >>]
  /\ LET ptr == pointer(r.addr)
     IN  IF ptr = None THEN return(t, "InvalidGuestAddress")
         ELSE IF ~ fits(ptr, r.len) THEN return(t, "Panic")
         ELSE pc' = [pc EXCEPT ![t] = r.kind] /\ out' = [out EXCEPT ![t] = "running"]
  /\ UNCHANGED <<mem, words, data>>

\* Mutation of Load: the bytes before the border, not after it.
Load_off_by_one(t) ==
  /\ pc[t] = "load"
  /\ IF ~ Mapped(t) THEN return(t, "Rw") /\ UNCHANGED val
     ELSE /\ val' = [val EXCEPT ![t] =
                       SubSeq(WordAt(t), offset(Ptr(t)), offset(Ptr(t)) + req[t].len - 1)]
          /\ return(t, "Ok")
  /\ UNCHANGED <<mem, words, req, data>>

\* process_load: one read of the word, then the bytes of the value.
Load(t) ==
  /\ pc[t] = "load"
  /\ IF ~ Mapped(t) THEN return(t, "Rw") /\ UNCHANGED val
     ELSE /\ val' = [val EXCEPT ![t] =
                       SubSeq(WordAt(t), offset(Ptr(t)) + 1, offset(Ptr(t)) + req[t].len)]
          /\ return(t, "Ok")
  /\ UNCHANGED <<mem, words, req, data>>

\* Mutation of StoreRead: the patch goes up to the end of the word.
StoreRead_to_end(t) ==
  /\ pc[t] = "store"
  /\ IF ~ Mapped(t) THEN return(t, "Rw") /\ UNCHANGED data
     ELSE /\ data' = [data EXCEPT ![t] =
                        [i \in 1 .. ALG |->
                           IF i > offset(Ptr(t))
                           THEN val[t][((i - offset(Ptr(t)) - 1) % req[t].len) + 1]
                           ELSE WordAt(t)[i]]]
          /\ pc' = [pc EXCEPT ![t] = "patched"] /\ UNCHANGED out
  /\ UNCHANGED <<mem, words, req, val>>

\* process_store, first half: read the word and patch the copy.
StoreRead(t) ==
  /\ pc[t] = "store"
  /\ IF ~ Mapped(t) THEN return(t, "Rw") /\ UNCHANGED data
     ELSE /\ data' = [data EXCEPT ![t] =
                        [i \in 1 .. ALG |->
                           IF i - offset(Ptr(t)) \in 1 .. req[t].len
                           THEN val[t][i - offset(Ptr(t))] ELSE WordAt(t)[i]]]
          /\ pc' = [pc EXCEPT ![t] = "patched"] /\ UNCHANGED out
  /\ UNCHANGED <<mem, words, req, val>>

\* process_store, second half: write the whole word back.
StoreWrite(t) ==
  /\ pc[t] = "patched"
  /\ IF ~ Mapped(t) THEN return(t, "Rw") /\ UNCHANGED mem
     ELSE /\ mem' = [h \in Host |->
                       IF h - aligned(Ptr(t)) \in 0 .. ALG - 1
                       THEN data[t][h - aligned(Ptr(t)) + 1] ELSE mem[h]]
          /\ return(t, "Ok")
  /\ data' = [data EXCEPT ![t] = << >>]
  /\ UNCHANGED <<words, req, val>>

Next ==
  \/ \E h \in OwnerWrites, v \in Vals : OwnerWrite(h, v)
  \/ \E w \in words : OwnerUnmap(w)
  \/ \E r \in Requests : \E v \in [1 .. r.len -> Vals] : Call(r.thread, r, v)
  \/ \E t \in Threads : Load(t) \/ StoreRead(t) \/ StoreWrite(t)

Spec == Init /\ [][Next]_vars

----------------------------------------------------------------------------
(* Properties                                                              *)

\* The host addresses of the bytes of a thread's value.
Bytes(t) == Ptr(t) .. Ptr(t) + req[t].len - 1

\* The discipline that the comment on ALG (remote_mem.rs) asks for: no word that
\* a thread stores to is written by another thread or by the owner.
Stores ==
  {r \in Requests : r.kind = "store" /\ pointer(r.addr) # None /\ fits(pointer(r.addr), r.len)}

WordOf(r) == aligned(pointer(r.addr))

OneWriterPerWord ==
  \A r \in Stores :
    /\ \A s \in Stores : WordOf(s) = WordOf(r) => s.thread = r.thread
    /\ \A h \in OwnerWrites : h \notin WordOf(r) .. WordOf(r) + ALG - 1

\* A store (remote_mem.rs, process_store) that returns Ok leaves its value in
\* memory and every other byte as it was at that moment: what others wrote
\* into the rest of the word meanwhile survives.  A store that fails changes
\* nothing.
StoreExact ==
  [][\A t \in Threads :
       pc[t] = "patched" /\ pc'[t] = "idle"
         => mem' = IF out'[t] = "Ok"
                   THEN [h \in Host |-> IF h \in Bytes(t) THEN val[t][h - Ptr(t) + 1] ELSE mem[h]]
                   ELSE mem]_vars

\* A load (remote_mem.rs, process_load) that returns Ok returns the bytes that
\* were at its address, all of them at one moment.
LoadExact ==
  [][\A t \in Threads :
       pc[t] = "load" /\ pc'[t] = "idle" /\ out'[t] = "Ok"
         => val'[t] = [i \in 1 .. req[t].len |-> mem[Ptr(t) + i - 1]]]_vars

\* The bytes of an access in progress belong to the region it was made to,
\* although store and load (mmap.rs) check the first one only.
ValueInRegion ==
  \A t \in Threads :
    pc[t] # "idle" => \E i \in 1 .. Len(Map) :
                        Bytes(t) \subseteq Map[i].host .. Map[i].host + Map[i].size - 1

\* check_atomic_accesses (bytes.rs) stores and loads a value at the start of a
\* page, and both succeed: an access to mapped, naturally aligned memory of at
\* most ALG bytes does not panic.
AlignedAccessWorks ==
  \A t \in Threads :
    pointer(req[t].addr) # None /\ req[t].len \in 1 .. ALG
      /\ pointer(req[t].addr) % req[t].len = 0
      => out[t] # "Panic"
=============================================================================
