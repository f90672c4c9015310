---------------------------- MODULE VolatileCopy ----------------------------
(***************************************************************************)
(* copy_slice (src/src/volatile_memory.rs): the copy between a buffer and  *)
(* memory that the guest uses at the same time.  Up to a machine word it   *)
(* is made of volatile accesses as wide as both addresses allow, one step  *)
(* each here; anything longer is left to memcpy, which may move the bytes  *)
(* in any order.  Others may load what is copied meanwhile, through an     *)
(* AtomicInteger (src/src/atomic_integer.rs).                              *)
(***************************************************************************)
EXTENDS Integers, FiniteSets

CONSTANTS
  Word,          \* size_of::<usize>(): 8, or 4 on a 32-bit host
  SrcAddrs,      \* addresses of the source buffer
  DstAddrs,      \* addresses of the destination
  Lens           \* lengths of either

ASSUME WordAssumption == Word \in {4, 8}
ASSUME AddrsAssumption == SrcAddrs \cup DstAddrs \subseteq Nat \ {0} /\ Lens \subseteq Nat

VARIABLES
  src, dst,            \* addresses of the two buffers
  src_len, dst_len,    \* and their lengths
  src_addr, dst_addr,  \* the loop variables of copy_slice_volatile
  left,
  width,               \* min_align of the running copy_aligned_slice
  pc,
  new                  \* destination bytes (as offsets) that are copied already

copy_vars == <<src, dst, src_len, dst_len, src_addr, dst_addr, left, width, pc, new>>

total == IF src_len <= dst_len THEN src_len ELSE dst_len

Widths == {1, 2, 4, 8}

\* Mutation of alignment, the one that the comment on it speaks of.
alignment_one(addr) == 1

\* The largest of the widths that addr is aligned to; what alignment() returns
\* beyond 8 makes no difference.
alignment(addr) == CHOOSE w \in Widths : /\ addr % w = 0
                                         /\ \A v \in Widths : addr % v = 0 => v <= w

\* Mutation of align: the source's alignment is not taken into account.
align_of_dst == alignment(dst)

\* Taken once, from the addresses the copy starts with.
align == IF alignment(src) <= alignment(dst) THEN alignment(src) ELSE alignment(dst)

CopyInit ==
  /\ src \in SrcAddrs /\ dst \in DstAddrs
  /\ src_len \in Lens /\ dst_len \in Lens
  /\ src_addr = src /\ dst_addr = dst /\ left = total
  /\ width = Word
  /\ pc = IF total <= Word THEN "volatile" ELSE "memcpy"
  /\ new = {}

\* Mutation of CopySingle: neither the pointers nor the count move on.
CopySingle_in_place ==
  /\ pc = "volatile" /\ align >= width /\ left >= width
  /\ new' = new \cup (dst_addr - dst .. dst_addr - dst + width - 1)
  /\ UNCHANGED <<src, dst, src_len, dst_len, src_addr, dst_addr, left, width, pc>>

\* One turn of the loop in copy_aligned_slice: copy_single of width bytes.
CopySingle ==
  /\ pc = "volatile" /\ align >= width /\ left >= width
  /\ new' = new \cup (dst_addr - dst .. dst_addr - dst + width - 1)
  /\ src_addr' = src_addr + width /\ dst_addr' = dst_addr + width
  /\ left' = left - width
  /\ UNCHANGED <<src, dst, src_len, dst_len, width, pc>>

\* Mutation of Narrower: no copy_aligned_slice(1).
Narrower_to_two ==
  /\ pc = "volatile" /\ ~ (align >= width /\ left >= width)
  /\ IF width = 2 THEN pc' = "done" /\ UNCHANGED width
                  ELSE width' = width \div 2 /\ UNCHANGED pc
  /\ UNCHANGED <<src, dst, src_len, dst_len, src_addr, dst_addr, left, new>>

\* The loop is over: on to the next narrower copy_aligned_slice, or return.
Narrower ==
  /\ pc = "volatile" /\ ~ (align >= width /\ left >= width)
  /\ IF width = 1 THEN pc' = "done" /\ UNCHANGED width
                  ELSE width' = width \div 2 /\ UNCHANGED pc
  /\ UNCHANGED <<src, dst, src_len, dst_len, src_addr, dst_addr, left, new>>

\* copy_from_slice: some byte that is not copied yet.
MemcpyByte(i) ==
  /\ pc = "memcpy" /\ i \notin new
  /\ new' = new \cup {i}
  /\ pc' = IF Cardinality(new') = total THEN "done" ELSE pc
  /\ UNCHANGED <<src, dst, src_len, dst_len, src_addr, dst_addr, left, width>>

Done == pc = "done" /\ UNCHANGED copy_vars

----------------------------------------------------------------------------
(* The atomic loads of others                                              *)

\* The sizes of the types with AtomicAccess: those of 64 bits only have it on a
\* 64-bit host.
AtomicSizes == {1, 2, 4} \cup (IF Word = 8 THEN {8} ELSE {})

\* The offsets of the bytes of a value of w bytes at offset i.
Value(i, w) == i .. i + w - 1

\* get_atomic_ref gives out references to aligned values only.
atomic_ref_at(i, w) == (dst + i) % w = 0

\* AtomicInteger::load, in one piece: the bytes of the value that are new.
load(i, w) == Value(i, w) \cap new

CopyNext == CopySingle \/ Narrower \/ (\E i \in 0 .. total - 1 : MemcpyByte(i)) \/ Done

\* The copying thread is scheduled.
CopySpec == CopyInit /\ [][CopyNext]_copy_vars /\ WF_copy_vars(CopyNext)

----------------------------------------------------------------------------
(* Properties                                                              *)

\* What test_non_atomic_access (guest_memory.rs) looks for: while a copy of at
\* most a word runs, whoever loads a value that lies in it with an atomic load,
\* no wider than source and destination are both aligned to, finds all of the
\* old or all of the new one.
NotTorn ==
  total <= Word
    => \A w \in AtomicSizes : \A i \in 0 .. total - w :
         src % w = 0 /\ dst % w = 0 /\ atomic_ref_at(i, w)
           => load(i, w) \in {Value(i, w), {}}

\* The safety requirement of copy_single (volatile_memory.rs): every volatile
\* access is aligned at both ends and stays inside both buffers.
AlignedAndInside ==
  pc = "volatile" /\ align >= width /\ left >= width
    => /\ src_addr % width = 0 /\ dst_addr % width = 0
       /\ src_addr + width <= src + src_len /\ dst_addr + width <= dst + dst_len

\* copy_slice (volatile_memory.rs) returns having copied the count it reports,
\* the prefix that both buffers have, with all of its widths taken together.
CopiesAll == pc = "done" => new = 0 .. total - 1

\* It does return: the narrowest loop uses up what the wider ones left.
Returns == <>(pc = "done")
=============================================================================
