------------------------ MODULE VolatileMemoryProofs ------------------------
(***************************************************************************)
(* Proofs about src/src/volatile_memory.rs, its views (VolatileSlice) and  *)
(* its copy (VolatileCopy).                                                *)
(*                                                                         *)
(* For a buffer of any size at any address, any sizes of types, and any    *)
(* arguments: no sequence of calls derives a view that leaves the buffer,  *)
(* no access leaves its view, and a call succeeds exactly when the bytes   *)
(* it asks for are there.                                                  *)
(*                                                                         *)
(* For both word sizes and buffers of any address and length: copy_slice   *)
(* accesses aligned words of both buffers only, tears no atomic load,      *)
(* copies all there is, and every step of it leaves less to do.  The       *)
(* invariant follows the pointers: the loops have copied a prefix of the   *)
(* destination, whose length is a multiple of the running width, and every *)
(* wider loop that could run has left less than its width behind.          *)
(***************************************************************************)
EXTENDS VolatileSlice, VolatileCopy, FiniteSetTheorems, TLAPS

----------------------------------------------------------------------------
(* Views                                                                   *)

MemoryKinds == {"slice", "bytes", "mapping"}
Kinds       == MemoryKinds \cup {"ref", "array"}

\* A view inside the buffer; the memories that views are taken of are counted in
\* bytes, and a reference is to one element.
GoodView(v) ==
  /\ v \in [kind : Kinds, addr : Raw, nelem : Raw, elem : ElemSizes \cup {1}]
  /\ Base <= v.addr /\ v.addr + SizeOf(v) <= Base + Size
  /\ v.kind \in MemoryKinds => v.elem = 1
  /\ v.kind = "ref" => v.nelem = 1

\* The inductive invariant.
IInv == GoodView(view) /\ touched \subseteq BytesOf(view)

----------------------------------------------------------------------------
(* Arithmetic                                                              *)

\* A multiple of n is no less than n.
LEMMA Multiple == \A n \in Nat : \A e \in Nat \ {0} : n * e \in Nat /\ n <= n * e
<1> SUFFICES ASSUME NEW n \in Nat, NEW e \in Nat \ {0} PROVE n * e \in Nat /\ n <= n * e
  OBVIOUS
<1>1. n * (e - 1) \in Nat /\ n * e = n * (e - 1) + n
  OBVIOUS
<1> QED
  BY <1>1

\* An element with a smaller index ends no later than the last one.
LEMMA IndexInside ==
  \A n \in Nat, e \in Nat \ {0}, i \in Nat :
    i < n => e * i \in Nat /\ e * i + e <= n * e
<1> SUFFICES ASSUME NEW n \in Nat, NEW e \in Nat \ {0}, NEW i \in Nat, i < n
             PROVE  e * i \in Nat /\ e * i + e <= n * e
  OBVIOUS
<1>1. e * i \in Nat
  OBVIOUS
<1>2. (n - i - 1) \in Nat /\ (n - i - 1) * e \in Nat
  OBVIOUS
<1>3. n * e = (n - i - 1) * e + e * i + e
  OBVIOUS
<1> QED
  BY <1>1, <1>2, <1>3

\* Fewer elements have fewer bytes.
LEMMA FewerElements ==
  \A m, n \in Nat, e \in Nat \ {0} : m <= n => m * e \in Nat /\ m * e <= n * e
<1> SUFFICES ASSUME NEW m \in Nat, NEW n \in Nat, NEW e \in Nat \ {0}, m <= n
             PROVE  m * e \in Nat /\ m * e <= n * e
  OBVIOUS
<1>1. m * e \in Nat /\ (n - m) * e \in Nat
  OBVIOUS
<1>2. n * e = m * e + (n - m) * e
  OBVIOUS
<1> QED
  BY <1>1, <1>2

\* The sizes of types are positive.
LEMMA ElemsPositive == ElemSizes \cup {1} \subseteq Nat \ {0}
  BY ArgsAssumption

\* What a view of n elements at addr must satisfy to be inside the buffer.
LEMMA ViewIsGood ==
  ASSUME NEW kind \in Kinds, NEW addr \in Nat, NEW n \in Nat, NEW e \in ElemSizes \cup {1},
         kind \in MemoryKinds => e = 1, kind = "ref" => n = 1,
         Base <= addr, addr + n * e <= Base + Size
  PROVE  GoodView([kind |-> kind, addr |-> addr, nelem |-> n, elem |-> e])
<1>1. n * e \in Nat /\ n <= n * e
  BY Multiple, ElemsPositive
<1>2. addr \in Raw /\ n \in Raw
  BY <1>1, BufferAssumption, AddrSpaceAssumption DEF Raw
<1> QED
  BY <1>2 DEF GoodView, SizeOf

\* The fields of a view inside the buffer.
LEMMA Fields ==
  ASSUME NEW v, GoodView(v)
  PROVE  /\ v.kind \in Kinds /\ v.addr \in Nat /\ v.nelem \in Nat /\ v.elem \in ElemSizes \cup {1}
         /\ v.elem \in Nat \ {0} /\ SizeOf(v) \in Nat /\ v.nelem <= SizeOf(v)
         /\ SizeOf(v) = v.nelem * v.elem
         /\ Base <= v.addr /\ v.addr + SizeOf(v) <= Base + Size
         /\ v.elem = 1 => SizeOf(v) = v.nelem
<1>1. v.kind \in Kinds /\ v.addr \in Nat /\ v.nelem \in Nat /\ v.elem \in ElemSizes \cup {1}
  BY AddrSpaceAssumption DEF GoodView, Raw
<1>2. v.elem \in Nat \ {0}
  BY <1>1, ElemsPositive
<1>3. SizeOf(v) = v.nelem * v.elem /\ SizeOf(v) \in Nat /\ v.nelem <= SizeOf(v)
  BY <1>1, <1>2, Multiple DEF SizeOf
<1> QED
  BY <1>1, <1>2, <1>3 DEF GoodView

----------------------------------------------------------------------------
(* Derived views                                                           *)

\* A result that is an error, or a view inside the buffer.
Good(r) == r.tag = "Err" \/ (r.tag = "Ok" /\ GoodView(r.val))

\* A slice is only made of bytes that are in the memory it is made of.
LEMMA GetSlice ==
  ASSUME NEW v, GoodView(v), v.kind \in MemoryKinds, NEW offset \in Nat, NEW count \in Nat
  PROVE  \/ get_slice(v, offset, count).tag = "Err"
         \/ /\ offset + count <= v.nelem
            /\ get_slice(v, offset, count) = Ok(Slice(v.addr + offset, count))
<1> DEFINE end == IF v.kind = "mapping" THEN mapping_end_offset(v, offset, count)
                  ELSE compute_end_offset(v, offset, count)
<1>1. /\ v.addr \in Nat /\ v.nelem \in Nat /\ v.elem = 1 /\ SizeOf(v) = v.nelem
      /\ v.addr + SizeOf(v) <= Base + Size
  BY Fields DEF GoodView
<1>2. offset + count > v.nelem => end.tag = "Err"
  BY <1>1 DEF mapping_end_offset, compute_end_offset, compute_offset, checked_add, None, Ok, Err
<1>3. end.tag = "Err" \/ end.tag = "Ok"
  BY DEF mapping_end_offset, compute_end_offset, compute_offset, Ok, Err
<1>4. CASE end.tag = "Err"
  BY <1>4 DEF get_slice
<1>5. CASE end.tag # "Err"
  <2>1. offset + count <= v.nelem
    BY <1>1, <1>2, <1>5
  <2>2. v.addr + offset \in Raw
    BY <1>1, <2>1, BufferAssumption, AddrSpaceAssumption DEF Raw
  <2>3. plain(v.addr + offset) = v.addr + offset
    BY <2>2 DEF plain
  <2> QED
    BY <1>5, <2>1, <2>3 DEF get_slice
<1> QED
  BY <1>4, <1>5

\* A slice, reference or array at an offset in a memory of bytes is good.
LEMMA PartIsGood ==
  ASSUME NEW v, GoodView(v), v.kind \in MemoryKinds, NEW offset \in Nat, NEW n \in Nat,
         NEW e \in ElemSizes \cup {1}, offset + n * e <= v.nelem
  PROVE  /\ e = 1 => GoodView(Slice(v.addr + offset, n))
         /\ n = 1 => GoodView(Ref(v.addr + offset, e))
         /\ GoodView(ArrayRef(v.addr + offset, n, e))
<1>1. /\ v.addr \in Nat /\ v.nelem \in Nat /\ SizeOf(v) = v.nelem
      /\ Base <= v.addr /\ v.addr + SizeOf(v) <= Base + Size
  BY Fields DEF GoodView
<1>2. n * e \in Nat /\ e \in Nat \ {0}
  BY Multiple, ElemsPositive
<1>3. /\ v.addr + offset \in Nat /\ Base <= v.addr + offset
      /\ v.addr + offset + n * e <= Base + Size
  BY <1>1, <1>2, BufferAssumption
<1>4. e = 1 => GoodView(Slice(v.addr + offset, n))
  <2> SUFFICES ASSUME e = 1 PROVE GoodView(Slice(v.addr + offset, n))
    OBVIOUS
  <2> "slice" \in Kinds
    BY DEF Kinds, MemoryKinds
  <2> QED
    BY <1>3, ViewIsGood DEF Slice
<1>5. n = 1 => GoodView(Ref(v.addr + offset, e))
  <2> SUFFICES ASSUME n = 1 PROVE GoodView(Ref(v.addr + offset, e))
    OBVIOUS
  <2> "ref" \in Kinds /\ "ref" \notin MemoryKinds
    BY DEF Kinds, MemoryKinds
  <2> QED
    BY <1>3, ViewIsGood DEF Ref
<1>6. GoodView(ArrayRef(v.addr + offset, n, e))
  <2> "array" \in Kinds /\ "array" \notin MemoryKinds
    BY DEF Kinds, MemoryKinds
  <2> QED
    BY <1>3, ViewIsGood DEF ArrayRef
<1> QED
  BY <1>4, <1>5, <1>6

\* The provided methods of VolatileMemory.
LEMMA MemoryDerives ==
  ASSUME NEW v, GoodView(v), v.kind \in MemoryKinds,
         NEW a \in Nat, NEW b \in Nat, NEW e \in ElemSizes
  PROVE  /\ Good(get_slice(v, a, b)) /\ Good(as_volatile_slice(v))
         /\ Good(get_ref(v, a, e)) /\ Good(get_array_ref(v, a, b, e))
         /\ Good(get_atomic_ref(v, a, e))
<1>0. e \in Nat \ {0} /\ b * e \in Nat /\ v.nelem \in Nat /\ b * 1 = b /\ 1 * e = e
  BY ElemsPositive, Multiple, Fields
<1>1. ASSUME NEW o \in Nat, NEW n \in Nat PROVE Good(get_slice(v, o, n))
  <2>1. CASE get_slice(v, o, n).tag = "Err"
    BY <2>1 DEF Good
  <2>2. CASE o + n <= v.nelem /\ get_slice(v, o, n) = Ok(Slice(v.addr + o, n))
    <3>1. GoodView(Slice(v.addr + o, n))
      <4>1. 1 \in ElemSizes \cup {1} /\ o + n * 1 <= v.nelem
        BY <2>2
      <4> QED
        BY <4>1, PartIsGood
    <3> QED
      BY <2>2, <3>1 DEF Good, Ok
  <2> QED
    BY <2>1, <2>2, GetSlice
<1>2. Good(as_volatile_slice(v))
  BY <1>0, <1>1 DEF as_volatile_slice, Good, Err
<1>3. Good(get_ref(v, a, e)) /\ Good(get_atomic_ref(v, a, e))
  <2>1. CASE get_slice(v, a, e).tag = "Err"
    BY <2>1 DEF Good, get_ref, get_atomic_ref
  <2>2. CASE a + e <= v.nelem /\ get_slice(v, a, e) = Ok(Slice(v.addr + a, e))
    <3>1. GoodView(Ref(v.addr + a, e))
      BY <1>0, <2>2, PartIsGood
    <3>2. get_slice(v, a, e).tag = "Ok" /\ get_slice(v, a, e).val.addr = v.addr + a
      BY <2>2 DEF Ok, Slice
    <3> QED
      BY <3>1, <3>2 DEF Good, get_ref, get_atomic_ref, Ok, Err
  <2> QED
    BY <1>0, <2>1, <2>2, GetSlice
<1>4. Good(get_array_ref(v, a, b, e))
  <2>1. CASE b > ISIZE_MAX \/ b * e > ISIZE_MAX
    BY <2>1 DEF Good, get_array_ref, Err
  <2>2. CASE ~ (b > ISIZE_MAX \/ b * e > ISIZE_MAX)
    <3>1. CASE get_slice(v, a, b * e).tag = "Err"
      BY <2>2, <3>1 DEF Good, get_array_ref
    <3>2. CASE a + b * e <= v.nelem /\ get_slice(v, a, b * e) = Ok(Slice(v.addr + a, b * e))
      <4>1. GoodView(ArrayRef(v.addr + a, b, e))
        BY <1>0, <3>2, PartIsGood
      <4>2. get_slice(v, a, b * e).tag = "Ok" /\ get_slice(v, a, b * e).val.addr = v.addr + a
        BY <3>2 DEF Ok, Slice
      <4> QED
        BY <2>2, <4>1, <4>2 DEF Good, get_array_ref, Ok
    <3> QED
      BY <1>0, <3>1, <3>2, GetSlice
  <2> QED
    BY <2>1, <2>2
<1> QED
  BY <1>1, <1>2, <1>3, <1>4

\* Parts of a slice, and the whole of it as an array.
LEMMA SliceDerives ==
  ASSUME NEW v, GoodView(v), v.kind = "slice", NEW a \in Nat
  PROVE  /\ Good(offset_by(v, a)) /\ Good(array_from(v))
         /\ \A r \in split_at(v, a) : Good(r)
<1>0. v.kind \in MemoryKinds /\ v.nelem \in Nat /\ v.addr \in Nat /\ 1 \in ElemSizes \cup {1}
  BY Fields DEF MemoryKinds
<1>1. offset_by(v, a).tag = "Err" \/ (a <= v.nelem /\ offset_by(v, a) = Ok(Slice(v.addr + a, v.nelem - a)))
  BY <1>0 DEF offset_by, checked_add, checked_sub, None, Ok, Err
<1>2. a <= v.nelem => GoodView(Slice(v.addr + a, v.nelem - a)) /\ GoodView(Slice(v.addr, a))
  <2> SUFFICES ASSUME a <= v.nelem
               PROVE  GoodView(Slice(v.addr + a, v.nelem - a)) /\ GoodView(Slice(v.addr, a))
    OBVIOUS
  <2>1. v.nelem - a \in Nat /\ a + (v.nelem - a) * 1 <= v.nelem /\ 0 + a * 1 <= v.nelem
    BY <1>0
  <2>2. GoodView(Slice(v.addr + a, v.nelem - a)) /\ GoodView(Slice(v.addr + 0, a))
    BY <1>0, <2>1, PartIsGood
  <2>3. v.addr + 0 = v.addr
    BY <1>0
  <2> QED
    BY <2>2, <2>3
<1>3. Good(offset_by(v, a))
  BY <1>1, <1>2 DEF Good, Ok
<1>4. \A r \in split_at(v, a) : Good(r)
  <2>1. CASE offset_by(v, a).tag = "Err"
    BY <1>3, <2>1 DEF split_at
  <2>2. CASE offset_by(v, a).tag # "Err"
    <3>1. Good(Ok(Slice(v.addr, a)))
      BY <1>1, <1>2, <2>2 DEF Good, Ok
    <3> QED
      BY <1>3, <2>2, <3>1 DEF split_at
  <2> QED
    BY <2>1, <2>2
<1>5. Good(array_from(v))
  <2>1. 0 + v.nelem * 1 <= v.nelem /\ v.addr + 0 = v.addr
    BY <1>0
  <2>2. GoodView(ArrayRef(v.addr + 0, v.nelem, 1))
    BY <1>0, <2>1, PartIsGood
  <2> QED
    BY <2>1, <2>2 DEF Good, array_from, Ok
<1> QED
  BY <1>3, <1>4, <1>5

\* Bytes as an object, an object or an array as bytes, and its elements.
LEMMA ObjectDerives ==
  ASSUME NEW v, GoodView(v)
  PROVE  /\ v.kind = "bytes" => \A e \in ElemSizes : Good(from_slice(v, e))
         /\ Good(to_slice(v))
         /\ v.kind = "array" => \A i \in Nat : Good(ref_at(v, i))
<1>0. /\ v.addr \in Nat /\ v.nelem \in Nat /\ v.elem \in ElemSizes \cup {1} /\ v.elem \in Nat \ {0}
      /\ SizeOf(v) \in Nat /\ SizeOf(v) = v.nelem * v.elem
      /\ Base <= v.addr /\ v.addr + SizeOf(v) <= Base + Size
  BY Fields
<1>1. ASSUME v.kind = "bytes", NEW e \in ElemSizes PROVE Good(from_slice(v, e))
  <2>1. CASE v.nelem # e \/ v.addr % e # 0
    BY <2>1 DEF from_slice, Good, Err
  <2>2. CASE ~ (v.nelem # e \/ v.addr % e # 0)
    <3>1. v.kind \in MemoryKinds /\ 0 + 1 * e <= v.nelem /\ v.addr + 0 = v.addr
      BY <1>0, <1>1, <2>2 DEF MemoryKinds
    <3>2. GoodView(Ref(v.addr + 0, e))
      BY <3>1, PartIsGood
    <3> QED
      BY <2>2, <3>1, <3>2 DEF from_slice, Good, Ok
  <2> QED
    BY <2>1, <2>2
<1>2. Good(to_slice(v))
  <2>1. "slice" \in Kinds /\ 1 \in ElemSizes \cup {1} /\ SizeOf(v) * 1 = SizeOf(v)
    BY <1>0 DEF Kinds, MemoryKinds
  <2>2. GoodView(Slice(v.addr, SizeOf(v)))
    BY <1>0, <2>1, ViewIsGood DEF Slice
  <2> QED
    BY <2>2 DEF to_slice, Good, Ok
<1>3. ASSUME v.kind = "array", NEW i \in Nat PROVE Good(ref_at(v, i))
  <2>1. CASE i >= v.nelem
    BY <2>1 DEF ref_at, Good, Err
  <2>2. CASE i < v.nelem
    <3>1. v.elem * i \in Nat /\ v.elem * i + v.elem <= v.nelem * v.elem
      BY <1>0, <2>2, IndexInside
    <3>2. "ref" \in Kinds /\ "ref" \notin MemoryKinds /\ 1 * v.elem = v.elem
      BY <1>0 DEF Kinds, MemoryKinds
    <3>3. /\ v.addr + v.elem * i \in Nat /\ Base <= v.addr + v.elem * i
          /\ v.addr + v.elem * i + 1 * v.elem <= Base + Size
      BY <1>0, <3>1, <3>2, BufferAssumption
    <3>4. GoodView(Ref(v.addr + v.elem * i, v.elem))
      BY <1>0, <3>2, <3>3, ViewIsGood DEF Ref
    <3>5. ~ (i >= v.nelem)
      BY <1>0, <2>2
    <3> QED
      BY <3>4, <3>5 DEF ref_at, Good, Ok
  <2> QED
    BY <1>0, <2>1, <2>2
<1> QED
  BY <1>1, <1>2, <1>3

----------------------------------------------------------------------------
(* Accesses                                                                *)

\* An access that stays inside view v.
Inside(a, v) == a.bytes \subseteq BytesOf(v)

\* A range of bytes that lies between the ends of a view.
LEMMA RangeInside ==
  ASSUME NEW v, GoodView(v), NEW res, NEW from \in Nat, NEW n \in Nat,
         v.addr <= from, from + n <= v.addr + SizeOf(v)
  PROVE  Inside(Access(res, from, n), v)
<1>1. v.addr \in Nat /\ SizeOf(v) \in Nat
  BY Fields
<1> QED
  BY <1>1 DEF Inside, Access, BytesOf

\* An access that touches nothing.
LEMMA NothingTouched ==
  ASSUME NEW v, GoodView(v), NEW res
  PROVE  Inside(Access(res, v.addr, 0), v)
<1>1. v.addr \in Nat /\ SizeOf(v) \in Nat /\ v.addr <= v.addr /\ v.addr + 0 <= v.addr + SizeOf(v)
  BY Fields
<1> QED
  BY <1>1, RangeInside

\* copy_to and copy_from of elements.
LEMMA ElemsInside ==
  ASSUME NEW v, GoodView(v), NEW len \in Nat
  PROVE  Inside(copy_elems(v, len), v) /\ Inside(copy_to_slice(v, len), v)
<1>0. /\ v.addr \in Nat /\ v.nelem \in Nat /\ v.elem \in Nat \ {0} /\ SizeOf(v) \in Nat
      /\ SizeOf(v) = v.nelem * v.elem
  BY Fields
<1>1. /\ min(len, v.nelem) \in Nat /\ min(len, v.nelem) <= v.nelem
      /\ min(SizeOf(v), len) \in Nat /\ min(SizeOf(v), len) <= SizeOf(v)
  BY <1>0 DEF min
<1>2. min(len, v.nelem) * v.elem \in Nat /\ min(len, v.nelem) * v.elem <= SizeOf(v)
  BY <1>0, <1>1, FewerElements
<1>3. Inside(copy_elems(v, len), v)
  BY <1>0, <1>2, RangeInside DEF copy_elems
<1>4. Inside(copy_to_slice(v, len), v)
  BY <1>0, <1>1, RangeInside DEF copy_to_slice
<1> QED
  BY <1>3, <1>4

\* The Bytes operations of a slice.
LEMMA BytesInside ==
  ASSUME NEW v, GoodView(v), v.kind = "slice", NEW addr \in Nat, NEW len \in Nat
  PROVE  /\ Inside(copy_bytes(v, addr, len), v) /\ Inside(copy_all_bytes(v, addr, len), v)
         /\ Inside(copy_obj(v, addr, len), v)
<1>0. v.addr \in Nat /\ v.nelem \in Nat /\ SizeOf(v) = v.nelem
  BY Fields DEF GoodView, MemoryKinds
<1>1. Inside(copy_bytes(v, addr, len), v)
  <2>1. CASE addr >= v.nelem
    BY <2>1, NothingTouched DEF copy_bytes
  <2>2. CASE addr < v.nelem
    <3> DEFINE n == min(len, v.nelem - addr)
    <3>1. /\ v.addr + addr \in Nat /\ n \in Nat /\ v.addr <= v.addr + addr
          /\ v.addr + addr + n <= v.addr + SizeOf(v)
      BY <1>0, <2>2 DEF min
    <3>2. Inside(Access(Ok(n), v.addr + addr, n), v)
      BY <3>1, RangeInside
    <3>3. copy_bytes(v, addr, len) = Access(Ok(n), v.addr + addr, n)
      BY <1>0, <2>2 DEF copy_bytes
    <3> QED
      BY <3>2, <3>3
  <2> QED
    BY <1>0, <2>1, <2>2
<1>2. copy_all_bytes(v, addr, len).bytes = copy_bytes(v, addr, len).bytes
  BY DEF copy_all_bytes, copy_bytes, Access
<1>3. copy_obj(v, addr, len).bytes = copy_bytes(v, addr, len).bytes
  <2>1. \E res, b : copy_all_bytes(v, addr, len) = [res |-> res, bytes |-> b]
    BY DEF copy_all_bytes, copy_bytes, Access
  <2> QED
    BY <1>2, <2>1 DEF copy_obj
<1> QED
  BY <1>1, <1>2, <1>3 DEF Inside

\* The stream operations of a slice, and those through atomic references.
LEMMA StreamsInside ==
  ASSUME NEW v, GoodView(v), v.kind = "slice", NEW addr \in Nat, NEW count \in Nat,
         NEW e \in ElemSizes
  PROVE  /\ \A s \in stream(v, addr, count) : Inside(s, v)
         /\ \A s \in stream_all(v, addr, count) : Inside(s, v)
         /\ Inside(atomic(v, addr, e), v)
<1> DEFINE end == compute_end_offset(v, addr, count)
<1>0. v.addr \in Nat /\ v.nelem \in Nat /\ SizeOf(v) = v.nelem /\ v.kind \in MemoryKinds
  BY Fields DEF GoodView, MemoryKinds
<1>1. end.tag = "Err" \/ (end = Ok(addr + count) /\ addr + count <= v.nelem)
  BY <1>0 DEF compute_end_offset, compute_offset, checked_add, None, Ok, Err
<1>2. \A res : Inside(Access(res, v.addr, 0), v)
  BY NothingTouched
<1>3. ASSUME addr + count <= v.nelem, NEW n \in 0 .. count, NEW res
      PROVE  Inside(Access(res, v.addr + addr, n), v)
  <2>1. /\ v.addr + addr \in Nat /\ n \in Nat /\ v.addr <= v.addr + addr
        /\ v.addr + addr + n <= v.addr + SizeOf(v)
    BY <1>0, <1>3
  <2> QED
    BY <2>1, RangeInside
<1>4. Inside(atomic(v, addr, e), v)
  <2>0. e \in Nat \ {0}
    BY ElemsPositive
  <2>1. CASE get_slice(v, addr, e).tag = "Err"
    BY <1>2, <2>1 DEF atomic, get_atomic_ref
  <2>2. CASE addr + e <= v.nelem /\ get_slice(v, addr, e) = Ok(Slice(v.addr + addr, e))
    <3>1. get_slice(v, addr, e).tag = "Ok" /\ get_slice(v, addr, e).val = Slice(v.addr + addr, e)
      BY <2>2 DEF Ok
    <3>2. get_slice(v, addr, e).val.addr = v.addr + addr
      BY <3>1 DEF Slice
    <3>3. CASE ~ check_alignment(get_slice(v, addr, e).val, e)
      BY <1>2, <3>1, <3>3 DEF atomic, get_atomic_ref, Err
    <3>4. CASE check_alignment(get_slice(v, addr, e).val, e)
      <4>1. get_atomic_ref(v, addr, e) = Ok(Ref(v.addr + addr, e))
        BY <3>1, <3>2, <3>4 DEF get_atomic_ref
      <4>2. atomic(v, addr, e) = Access(Ok(e), v.addr + addr, e)
        BY <4>1 DEF atomic, Ok, Ref
      <4>3. /\ v.addr + addr \in Nat /\ e \in Nat /\ v.addr <= v.addr + addr
            /\ v.addr + addr + e <= v.addr + SizeOf(v)
        BY <1>0, <2>0, <2>2
      <4> QED
        BY <4>2, <4>3, RangeInside
    <3> QED
      BY <3>3, <3>4
  <2> QED
    BY <1>0, <2>0, <2>1, <2>2, GetSlice
<1>5. CASE end.tag = "Err"
  BY <1>2, <1>4, <1>5 DEF stream, stream_all
<1>6. CASE end.tag # "Err"
  <2>1. end.tag = "Ok" /\ end.val = addr + count /\ addr + count <= v.nelem
    BY <1>1, <1>6 DEF Ok
  <2>2. end.val - addr = count /\ count \in 0 .. count
    BY <2>1
  <2>3. \A s \in stream(v, addr, count) : Inside(s, v)
    BY <1>2, <1>3, <1>6, <2>1, <2>2 DEF stream
  <2>4. \A s \in stream_all(v, addr, count) : Inside(s, v)
    BY <1>3, <1>6, <2>1, <2>2 DEF stream_all
  <2> QED
    BY <1>4, <2>3, <2>4
<1> QED
  BY <1>5, <1>6

\* copy_to and copy_from of a slice, as an array of larger elements.
LEMMA TypedInside ==
  ASSUME NEW v, GoodView(v), v.kind = "slice", NEW len \in Nat, NEW e \in ElemSizes
  PROVE  Inside(copy_typed(v, len, e), v)
<1>0. /\ v.addr \in Nat /\ v.nelem \in Nat /\ SizeOf(v) = v.nelem /\ v.kind \in MemoryKinds
      /\ e \in Nat \ {0}
  BY Fields, ElemsPositive DEF GoodView, MemoryKinds
<1>1. CASE e = 1
  BY <1>1, ElemsInside DEF copy_typed
<1>2. CASE e # 1
  <2> DEFINE n == v.nelem \div e
             a == get_array_ref(v, 0, n, e)
  <2>1. n \in Nat /\ n * e \in Nat
    BY <1>0
  <2>2. CASE a.tag = "Err"
    BY <1>2, <2>2, NothingTouched DEF copy_typed
  <2>3. CASE a.tag # "Err"
    <3>1. ~ (n > ISIZE_MAX \/ n * e > ISIZE_MAX)
      BY <2>3 DEF get_array_ref, Err
    <3>2. get_slice(v, 0, n * e).tag # "Err"
      BY <2>3, <3>1 DEF get_array_ref
    <3>3. 0 + n * e <= v.nelem /\ get_slice(v, 0, n * e) = Ok(Slice(v.addr + 0, n * e))
      BY <1>0, <2>1, <3>2, GetSlice
    <3>4. get_slice(v, 0, n * e).val.addr = v.addr + 0 /\ v.addr + 0 = v.addr
      BY <1>0, <3>3 DEF Ok, Slice
    <3>5. a = Ok(ArrayRef(v.addr, n, e))
      BY <3>1, <3>2, <3>4 DEF get_array_ref
    <3>6. GoodView(ArrayRef(v.addr, n, e))
      BY <1>0, <2>1, <3>3, <3>4, PartIsGood
    <3>7. Inside(copy_elems(ArrayRef(v.addr, n, e), len), ArrayRef(v.addr, n, e))
      BY <3>6, ElemsInside
    <3>8. BytesOf(ArrayRef(v.addr, n, e)) \subseteq BytesOf(v)
      BY <1>0, <2>1, <3>3 DEF BytesOf, SizeOf, ArrayRef
    <3>9. copy_typed(v, len, e) = copy_elems(ArrayRef(v.addr, n, e), len)
      BY <1>2, <2>3, <3>5 DEF copy_typed, Ok
    <3> QED
      BY <3>7, <3>8, <3>9 DEF Inside
  <2> QED
    BY <2>2, <2>3
<1> QED
  BY <1>1, <1>2

----------------------------------------------------------------------------
(* The invariant is inductive                                              *)

\* The views there are to start with lie in the buffer.
LEMMA InitInv == Init => IInv
<1> SUFFICES ASSUME Init PROVE IInv
  OBVIOUS
<1> DEFINE Rooted ==
      \E kind \in MemoryKinds, addr \in Nat, n \in Nat :
        /\ view = [kind |-> kind, addr |-> addr, nelem |-> n, elem |-> 1]
        /\ Base <= addr
<1>1. Rooted
  <2>1. view \in Roots
    BY DEF Init
  <2>2. CASE view \in {Slice(Base, Size), Mapping(Base, Size)}
    BY <2>2, BufferAssumption DEF Slice, Mapping, MemoryKinds
  <2>3. ASSUME NEW a \in 0 .. Size, NEW n \in 0 .. Size, view = Bytes(Base + a, n)
        PROVE  Rooted
    BY <2>3, BufferAssumption DEF Bytes, MemoryKinds
  <2>4. ASSUME NEW a \in 0 .. Size, NEW e \in ElemSizes,
               view = as_slice(Base + a, e) \/ view = as_bytes(Base + a, e)
        PROVE  Rooted
    <3>1. e \in Nat /\ Base + a \in Nat /\ Base <= Base + a
      BY ElemsPositive, BufferAssumption
    <3> QED
      BY <2>4, <3>1 DEF as_slice, as_bytes, Bytes, Slice, MemoryKinds
  <2> QED
    BY <2>1, <2>2, <2>3, <2>4 DEF Roots
<1>2. PICK kind \in MemoryKinds, addr \in Nat, n \in Nat :
        /\ view = [kind |-> kind, addr |-> addr, nelem |-> n, elem |-> 1]
        /\ Base <= addr
  BY <1>1
<1>3. /\ addr + n * 1 <= Base + Size /\ 1 \in ElemSizes \cup {1}
      /\ kind \in Kinds /\ kind # "ref"
  BY <1>2 DEF Init, Kinds, MemoryKinds
<1>4. GoodView(view)
  BY <1>2, <1>3, ViewIsGood
<1> QED
  BY <1>4 DEF IInv, Init

\* A derivation replaces the view by a good one, or leaves it alone.
LEMMA DeriveKeeps ==
  ASSUME IInv, NEW r, Good(r), derive(r)
  PROVE  IInv'
<1>1. GoodView(view')
  BY DEF Good, derive, IInv
<1>2. GoodView(view)'
  BY <1>1 DEF GoodView, SizeOf
<1> QED
  BY <1>2 DEF IInv, derive

\* An access inside the view.
LEMMA AccessKeeps ==
  ASSUME IInv, NEW a, Inside(a, view), access(a)
  PROVE  IInv'
  BY DEF IInv, Inside, access, GoodView, BytesOf, SizeOf

\* Every call keeps the view in the buffer and its accesses in the view.
LEMMA NextInv == IInv /\ [Next]_vars => IInv'
<1> SUFFICES ASSUME IInv, [Next]_vars PROVE IInv'
  OBVIOUS
<1>0. Nums \subseteq Nat /\ GoodView(view)
  BY ArgsAssumption, AddrSpaceAssumption DEF Raw, IInv
<1>1. CASE MemoryDerive
  <2>1. view.kind \in MemoryKinds
    BY <1>1 DEF MemoryDerive, MemoryKinds
  <2>2. PICK a \in Nums, b \in Nums, e \in ElemSizes :
          \/ derive(get_slice(view, a, b)) \/ derive(as_volatile_slice(view))
          \/ derive(get_ref(view, a, e)) \/ derive(get_array_ref(view, a, b, e))
          \/ derive(get_atomic_ref(view, a, e))
    BY <1>1 DEF MemoryDerive
  <2>3. /\ Good(get_slice(view, a, b)) /\ Good(as_volatile_slice(view))
        /\ Good(get_ref(view, a, e)) /\ Good(get_array_ref(view, a, b, e))
        /\ Good(get_atomic_ref(view, a, e))
    BY <1>0, <2>1, MemoryDerives
  <2> QED
    BY <2>2, <2>3, DeriveKeeps
<1>2. CASE SliceDerive
  <2>1. PICK a \in Nums :
          \/ derive(offset_by(view, a)) \/ derive(array_from(view))
          \/ \E r \in split_at(view, a) : derive(r)
    BY <1>2 DEF SliceDerive
  <2>2. /\ Good(offset_by(view, a)) /\ Good(array_from(view))
        /\ \A r \in split_at(view, a) : Good(r)
    BY <1>0, <1>2, SliceDerives DEF SliceDerive
  <2> QED
    BY <2>1, <2>2, DeriveKeeps
<1>3. ASSUME NEW e \in ElemSizes, FromSlice(e) PROVE IInv'
  <2>1. Good(from_slice(view, e)) /\ derive(from_slice(view, e))
    BY <1>0, <1>3, ObjectDerives DEF FromSlice
  <2> QED
    BY <2>1, DeriveKeeps
<1>4. CASE ToSlice
  <2>1. Good(to_slice(view)) /\ derive(to_slice(view))
    BY <1>0, <1>4, ObjectDerives DEF ToSlice
  <2> QED
    BY <2>1, DeriveKeeps
<1>5. ASSUME NEW n \in Nums, RefAt(n) PROVE IInv'
  <2>1. Good(ref_at(view, n)) /\ derive(ref_at(view, n))
    BY <1>0, <1>5, ObjectDerives DEF RefAt
  <2> QED
    BY <2>1, DeriveKeeps
<1>6. CASE SliceAccess
  <2>1. PICK a \in Nums, b \in Nums, e \in ElemSizes :
          \/ access(copy_bytes(view, a, b)) \/ access(copy_all_bytes(view, a, b))
          \/ access(copy_obj(view, a, e))
          \/ \E s \in stream(view, a, b) \cup stream_all(view, a, b) : access(s)
          \/ access(atomic(view, a, e)) \/ access(copy_typed(view, b, e))
    BY <1>6 DEF SliceAccess
  <2>2. a \in Nat /\ b \in Nat /\ e \in Nat /\ view.kind = "slice"
    BY <1>0, <1>6, ElemsPositive DEF SliceAccess
  <2>3. /\ Inside(copy_bytes(view, a, b), view) /\ Inside(copy_all_bytes(view, a, b), view)
        /\ Inside(copy_obj(view, a, e), view)
    BY <1>0, <2>2, BytesInside
  <2>4. /\ \A s \in stream(view, a, b) \cup stream_all(view, a, b) : Inside(s, view)
        /\ Inside(atomic(view, a, e), view) /\ Inside(copy_typed(view, b, e), view)
    BY <1>0, <2>2, StreamsInside, TypedInside
  <2> QED
    BY <2>1, <2>3, <2>4, AccessKeeps
<1>7. ASSUME NEW n \in Nums, ArrayAccess(n) \/ CopyToSlice(n) PROVE IInv'
  <2>1. Inside(copy_elems(view, n), view) /\ Inside(copy_to_slice(view, n), view)
    BY <1>0, ElemsInside
  <2> QED
    BY <1>7, <2>1, AccessKeeps DEF ArrayAccess, CopyToSlice
<1>8. CASE RefAccess
  <2>1. /\ view.addr \in Nat /\ view.elem \in Nat \ {0} /\ view.nelem = 1
        /\ SizeOf(view) = view.elem
    <3>1. view.nelem = 1
      BY <1>0, <1>8 DEF RefAccess, GoodView
    <3> QED
      BY <1>0, <3>1, Fields
  <2>2. Inside(Access(Ok(1), view.addr, view.elem), view)
    BY <1>0, <2>1, RangeInside
  <2> QED
    BY <1>8, <2>2, AccessKeeps DEF RefAccess
<1>9. CASE Return \/ UNCHANGED vars
  BY <1>9 DEF Return, vars, IInv, GoodView, BytesOf, SizeOf
<1> QED
  BY <1>1, <1>2, <1>3, <1>4, <1>5, <1>6, <1>7, <1>8, <1>9 DEF Next

\* The invariant, in every reachable state.
THEOREM Invariance == Spec => []IInv
  BY InitInv, NextInv, PTL DEF Spec

\* The fields of every view are in the range of usize.
THEOREM TypeCorrect == Spec => []TypeOK
<1>1. IInv => TypeOK
  <2> SUFFICES ASSUME IInv PROVE TypeOK
    OBVIOUS
  <2>1. /\ view.addr \in Nat /\ SizeOf(view) \in Nat
        /\ view.addr + SizeOf(view) <= Base + Size
    BY Fields DEF IInv
  <2>2. BytesOf(view) \subseteq Raw
    BY <2>1, BufferAssumption, AddrSpaceAssumption DEF BytesOf, Raw
  <2> QED
    BY <2>2 DEF IInv, GoodView, TypeOK, Kinds, MemoryKinds
<1> QED
  BY <1>1, Invariance, PTL

\* No sequence of get_slice, offset, split_at, get_ref, get_array_ref, ref_at,
\* to_slice and the other derivations (volatile_memory.rs, mmap_unix.rs,
\* bytes.rs) makes a view that leaves the memory the first one was taken of.
THEOREM ViewsInside == Spec => []InsideBuffer
<1>1. IInv => InsideBuffer
  BY DEF IInv, GoodView, InsideBuffer
<1> QED
  BY <1>1, Invariance, PTL

\* No access touches a byte outside its view, whatever it is called with
\* (volatile_memory.rs).
THEOREM AccessesInside == Spec => []AccessInside
<1>1. IInv => AccessInside
  BY DEF IInv, AccessInside
<1> QED
  BY <1>1, Invariance, PTL

----------------------------------------------------------------------------
(* What is derived                                                         *)

\* Result r of operation op on view v is a view of b elements of e bytes at
\* offset a exactly when there is one.
Derived(v, r, op, a, b, e) ==
  /\ r.tag \in {"Ok", "Err"}
  /\ r.tag = "Ok" <=>
       /\ b >= 0 /\ a + b * e <= SizeOf(v)
       /\ op \in {"get_atomic_ref", "from_slice"} => (v.addr + a) % e = 0
       /\ op = "from_slice" => e = SizeOf(v)
  /\ r.tag = "Ok" => r.val.addr = v.addr + a /\ SizeOf(r.val) = b * e

\* What DeriveExact says of one step.
DeriveStep ==
  LET c    == call'
      fits == c.b >= 0 /\ c.a + c.b * c.elem <= SizeOf(view)
      met  == /\ c.op \in {"get_atomic_ref", "from_slice"} => (view.addr + c.a) % c.elem = 0
              /\ c.op = "from_slice" => c.elem = SizeOf(view)
  IN  c.op \in {"get_slice", "as_volatile_slice", "offset", "get_ref", "get_array_ref",
                "get_atomic_ref", "ref_at", "to_slice", "array_from", "from_slice"}
        => /\ out'.tag = "Ok" <=> fits /\ met
           /\ out'.tag = "Ok" => /\ view'.addr = view.addr + c.a
                                 /\ SizeOf(view') = c.b * c.elem

\* A call that returns such a result (volatile_memory.rs).
LEMMA DerivedStep ==
  ASSUME NEW r, NEW op, NEW a, NEW b, NEW e, Called(op, a, b, e), derive(r),
         Derived(view, r, op, a, b, e)
  PROVE  DeriveStep
<1>1. call'.op = op /\ call'.a = a /\ call'.b = b /\ call'.elem = e
  BY DEF Called
<1>2. (out'.tag = "Ok" <=> r.tag = "Ok") /\ (r.tag = "Ok" => view' = r.val)
  BY DEF derive, Derived, Ok
<1> QED
  BY <1>1, <1>2 DEF DeriveStep, Derived

\* A slice is made of the bytes asked for whenever they are all there.
LEMMA GetSliceIs ==
  ASSUME NEW v, GoodView(v), v.kind \in MemoryKinds, NEW offset \in Nat, NEW count \in Nat,
         NEW r, r = get_slice(v, offset, count)
  PROVE  /\ offset + count <= v.nelem => r = Ok(Slice(v.addr + offset, count))
         /\ ~ (offset + count <= v.nelem) => r.tag = "Err"
         /\ v.elem = 1 /\ SizeOf(v) = v.nelem /\ v.nelem \in Nat /\ v.addr \in Nat
<1> DEFINE end == IF v.kind = "mapping" THEN mapping_end_offset(v, offset, count)
                  ELSE compute_end_offset(v, offset, count)
<1>1. /\ v.addr \in Nat /\ v.nelem \in Nat /\ v.elem = 1 /\ SizeOf(v) = v.nelem
      /\ v.addr + SizeOf(v) <= Base + Size
  BY Fields DEF GoodView
<1>2. CASE offset + count <= v.nelem
  <2>1. offset + count < AddrSpace /\ AddrSpace \in Nat
    BY <1>1, <1>2, BufferAssumption, AddrSpaceAssumption
  <2>2. end.tag = "Ok"
    BY <1>1, <1>2, <2>1
    DEF mapping_end_offset, compute_end_offset, compute_offset, checked_add, None, Ok, Err
  <2>3. r.tag # "Err"
    BY <2>2 DEF get_slice, Ok, Slice
  <2> QED
    BY <1>1, <1>2, <2>3, GetSlice
<1>3. CASE ~ (offset + count <= v.nelem)
  BY <1>1, <1>3, GetSlice
<1> QED
  BY <1>1, <1>2, <1>3

\* What the size of a new view is.
LEMMA SizesAre ==
  ASSUME NEW addr, NEW n \in Nat, NEW e \in Nat
  PROVE  /\ Slice(addr, n).addr = addr /\ SizeOf(Slice(addr, n)) = n
         /\ Ref(addr, e).addr = addr /\ SizeOf(Ref(addr, e)) = e
         /\ ArrayRef(addr, n, e).addr = addr /\ SizeOf(ArrayRef(addr, n, e)) = n * e
<1> QED
  BY DEF Slice, Ref, ArrayRef, SizeOf

\* The provided methods of VolatileMemory (volatile_memory.rs) and get_slice of
\* an MmapRegion (mmap_unix.rs).
LEMMA MemoryDerived ==
  ASSUME NEW v, GoodView(v), v.kind \in MemoryKinds,
         NEW a \in Nat, NEW b \in Nat, NEW e \in ElemSizes
  PROVE  /\ Derived(v, get_slice(v, a, b), "get_slice", a, b, 1)
         /\ Derived(v, as_volatile_slice(v), "as_volatile_slice", 0, v.nelem, 1)
         /\ Derived(v, get_ref(v, a, e), "get_ref", a, 1, e)
         /\ Derived(v, get_atomic_ref(v, a, e), "get_atomic_ref", a, 1, e)
         /\ Derived(v, get_array_ref(v, a, b, e), "get_array_ref", a, b, e)
<1>0. /\ e \in Nat \ {0} /\ e \in Nat /\ b * e \in Nat /\ b <= b * e /\ 1 * e = e /\ b * 1 = b
      /\ v.nelem \in Nat /\ v.addr \in Nat /\ v.nelem * 1 = v.nelem
      /\ SizeOf(v) = v.nelem /\ SizeOf(v) <= Size
  <2>1. /\ SizeOf(v) = v.nelem /\ v.nelem \in Nat /\ v.addr \in Nat /\ SizeOf(v) \in Nat
        /\ Base <= v.addr /\ v.addr + SizeOf(v) <= Base + Size
    BY Fields DEF GoodView
  <2>2. SizeOf(v) <= Size
    BY <2>1, BufferAssumption
  <2> QED
    BY <2>1, <2>2, ElemsPositive, Multiple
<1>1. \A x, y : Ok(x).tag = "Ok" /\ Ok(x).val = x /\ Err(y).tag = "Err"
  BY DEF Ok, Err
<1>2. Derived(v, get_slice(v, a, b), "get_slice", a, b, 1)
  <2> DEFINE r == get_slice(v, a, b)
  <2>1. /\ a + b <= v.nelem => r = Ok(Slice(v.addr + a, b))
        /\ ~ (a + b <= v.nelem) => r.tag = "Err"
    BY GetSliceIs
  <2>2. Slice(v.addr + a, b).addr = v.addr + a /\ SizeOf(Slice(v.addr + a, b)) = b
    BY SizesAre
  <2> HIDE DEF r
  <2>3. Derived(v, r, "get_slice", a, b, 1)
    BY <1>0, <1>1, <2>1, <2>2 DEF Derived
  <2> QED
    BY <2>3 DEF r
<1>3. Derived(v, as_volatile_slice(v), "as_volatile_slice", 0, v.nelem, 1)
  <2>1. 0 + v.nelem <= v.nelem /\ v.addr + 0 = v.addr
    BY <1>0
  <2>2. get_slice(v, 0, v.nelem) = Ok(Slice(v.addr + 0, v.nelem))
    BY <1>0, <2>1, GetSliceIs
  <2>3. as_volatile_slice(v) = Ok(Slice(v.addr + 0, v.nelem))
    BY <1>1, <2>2 DEF as_volatile_slice
  <2>4. Slice(v.addr + 0, v.nelem).addr = v.addr + 0 /\ SizeOf(Slice(v.addr + 0, v.nelem)) = v.nelem
    BY <1>0, SizesAre
  <2>5. v.nelem >= 0
    BY <1>0
  <2> QED
    BY <1>0, <1>1, <2>1, <2>3, <2>4, <2>5 DEF Derived
<1>4. /\ Derived(v, get_ref(v, a, e), "get_ref", a, 1, e)
      /\ Derived(v, get_atomic_ref(v, a, e), "get_atomic_ref", a, 1, e)
  <2> DEFINE s == get_slice(v, a, e)
             p == v.addr + a
  <2>1. /\ a + e <= v.nelem => s = Ok(Slice(p, e))
        /\ ~ (a + e <= v.nelem) => s.tag = "Err"
    BY <1>0, GetSliceIs
  <2>2. Slice(p, e).addr = p /\ Ref(p, e).addr = p /\ SizeOf(Ref(p, e)) = e
    <3>1. /\ Slice(p, e).addr = p /\ Ref(p, e).addr = p
          /\ Ref(p, e).nelem = 1 /\ Ref(p, e).elem = e
      BY DEF Slice, Ref
    <3> QED
      BY <1>0, <3>1 DEF SizeOf
  <2>3. /\ get_ref(v, a, e) = IF s.tag = "Err" THEN s ELSE Ok(Ref(s.val.addr, e))
        /\ get_atomic_ref(v, a, e) = IF s.tag = "Err" THEN s
                                     ELSE IF ~ (s.val.addr % e = 0) THEN Err("Misaligned")
                                     ELSE Ok(Ref(s.val.addr, e))
    BY DEF get_ref, get_atomic_ref, check_alignment
  <2> HIDE DEF s, p
  <2>4. CASE a + e <= v.nelem
    <3>1. s.tag = "Ok" /\ s.val.addr = p
      BY <1>1, <2>1, <2>2, <2>4
    <3>2. /\ get_ref(v, a, e) = Ok(Ref(p, e))
          /\ get_atomic_ref(v, a, e) = IF ~ (p % e = 0) THEN Err("Misaligned") ELSE Ok(Ref(p, e))
      BY <2>3, <3>1
    <3>3. 1 >= 0 /\ a + 1 * e <= SizeOf(v)
      BY <1>0, <2>4
    <3> QED
      BY <1>0, <1>1, <2>2, <3>2, <3>3 DEF Derived, p
  <2>5. CASE ~ (a + e <= v.nelem)
    <3>1. get_ref(v, a, e).tag = "Err" /\ get_atomic_ref(v, a, e).tag = "Err"
      BY <2>1, <2>3, <2>5
    <3>2. ~ (a + 1 * e <= SizeOf(v))
      BY <1>0, <2>5
    <3> QED
      BY <3>1, <3>2 DEF Derived
  <2> QED
    BY <2>4, <2>5
<1>5. Derived(v, get_array_ref(v, a, b, e), "get_array_ref", a, b, e)
  <2> DEFINE m == b * e
             s == get_slice(v, a, m)
             p == v.addr + a
             r == get_array_ref(v, a, b, e)
  <2>1. /\ a + m <= v.nelem => s = Ok(Slice(p, m))
        /\ ~ (a + m <= v.nelem) => s.tag = "Err"
    BY <1>0, GetSliceIs
  <2>2. ArrayRef(p, b, e).addr = p /\ SizeOf(ArrayRef(p, b, e)) = m /\ Slice(p, m).addr = p
    <3>1. Slice(p, m).addr = p
      BY DEF Slice
    <3>2. ArrayRef(p, b, e).addr = p /\ ArrayRef(p, b, e).nelem = b /\ ArrayRef(p, b, e).elem = e
      BY DEF ArrayRef
    <3> QED
      BY <3>1, <3>2 DEF SizeOf
  <2>3. r = IF b > ISIZE_MAX \/ m > ISIZE_MAX THEN Err("TooBig")
            ELSE IF s.tag = "Err" THEN s ELSE Ok(ArrayRef(s.val.addr, b, e))
    BY DEF get_array_ref
  <2>4. m \in Nat /\ b <= m /\ ISIZE_MAX \in Int /\ Size <= ISIZE_MAX /\ Size \in Nat
    BY <1>0, BufferAssumption, AddrSpaceAssumption DEF ISIZE_MAX
  <2>5. (r.tag = "Ok" <=> b >= 0 /\ a + m <= SizeOf(v)) => Derived(v, r, "get_array_ref", a, b, e)
          \/ ~ (r.tag \in {"Ok", "Err"} /\ (r.tag = "Ok" => r.val.addr = p /\ SizeOf(r.val) = m))
    BY DEF Derived
  <2> HIDE DEF m, s, p, r
  <2>6. CASE a + m <= v.nelem
    <3>1. ~ (b > ISIZE_MAX \/ m > ISIZE_MAX) /\ b >= 0
      BY <1>0, <2>4, <2>6
    <3>2. s.tag = "Ok" /\ s.val.addr = p
      BY <1>1, <2>1, <2>2, <2>6
    <3>3. r = Ok(ArrayRef(p, b, e))
      BY <2>3, <3>1, <3>2
    <3> QED
      BY <1>0, <1>1, <2>2, <2>5, <2>6, <3>1, <3>3 DEF r
  <2>7. CASE ~ (a + m <= v.nelem)
    <3>1. r.tag = "Err"
      BY <1>1, <2>1, <2>3, <2>7
    <3> QED
      BY <1>0, <2>5, <2>7, <3>1 DEF r
  <2> QED
    BY <2>6, <2>7
<1> QED
  BY <1>2, <1>3, <1>4, <1>5

\* Parts of a slice, and the whole of it as an array (volatile_memory.rs).
LEMMA SliceDerived ==
  ASSUME NEW v, GoodView(v), v.kind = "slice", NEW a \in Nat
  PROVE  /\ Derived(v, offset_by(v, a), "offset", a, v.nelem - a, 1)
         /\ Derived(v, array_from(v), "array_from", 0, v.nelem, 1)
<1>0. /\ v.nelem \in Nat /\ v.addr \in Nat /\ SizeOf(v) = v.nelem
      /\ v.addr + v.nelem < AddrSpace /\ AddrSpace \in Nat
  <2>1. /\ SizeOf(v) = v.nelem /\ v.nelem \in Nat /\ v.addr \in Nat
        /\ v.addr + SizeOf(v) <= Base + Size
    BY Fields DEF GoodView, MemoryKinds
  <2> QED
    BY <2>1, BufferAssumption, AddrSpaceAssumption
<1>1. \A x, y : Ok(x).tag = "Ok" /\ Ok(x).val = x /\ Err(y).tag = "Err"
  BY DEF Ok, Err
<1>2. Derived(v, offset_by(v, a), "offset", a, v.nelem - a, 1)
  <2> DEFINE b == v.nelem - a
             p == v.addr + a
  <2>1. CASE a <= v.nelem
    <3>1. b \in Nat /\ b >= 0 /\ a + b * 1 <= SizeOf(v) /\ b * 1 = b
      BY <1>0, <2>1
    <3>2. offset_by(v, a) = Ok(Slice(p, b))
      BY <1>0, <2>1 DEF offset_by, checked_add, checked_sub, None
    <3> HIDE DEF b
    <3>3. Slice(p, b).addr = p /\ SizeOf(Slice(p, b)) = b
      BY <3>1, SizesAre
    <3>4. Derived(v, offset_by(v, a), "offset", a, b, 1)
      BY <1>1, <3>1, <3>2, <3>3 DEF Derived
    <3> QED
      BY <3>4 DEF b
  <2>2. CASE ~ (a <= v.nelem)
    <3>1. offset_by(v, a).tag = "Err"
      BY <1>0, <2>2 DEF offset_by, checked_add, checked_sub, None, Err
    <3>2. ~ (b >= 0)
      BY <1>0, <2>2
    <3> QED
      BY <3>1, <3>2 DEF Derived
  <2> QED
    BY <2>1, <2>2
<1>3. Derived(v, array_from(v), "array_from", 0, v.nelem, 1)
  <2>1. v.nelem >= 0 /\ 0 + v.nelem * 1 <= SizeOf(v) /\ v.addr + 0 = v.addr
    BY <1>0
  <2>2. ArrayRef(v.addr, v.nelem, 1).addr = v.addr
    BY DEF ArrayRef
  <2>3. SizeOf(ArrayRef(v.addr, v.nelem, 1)) = v.nelem * 1
    BY DEF ArrayRef, SizeOf
  <2> QED
    BY <1>1, <2>1, <2>2, <2>3 DEF Derived, array_from
<1> QED
  BY <1>2, <1>3

\* The i-th of n elements of e bytes is there exactly when its bytes are.
LEMMA IndexExact ==
  ASSUME NEW n \in Nat, NEW e \in Nat \ {0}, NEW i \in Nat
  PROVE  i * e \in Nat /\ (i < n <=> i * e + e <= n * e)
<1>1. i * e \in Nat /\ i * e = e * i
  OBVIOUS
<1>2. i < n => i * e + e <= n * e
  BY <1>1, IndexInside
<1>3. ASSUME ~ (i < n) PROVE ~ (i * e + e <= n * e)
  <2>1. n * e \in Nat /\ n * e <= i * e
    BY <1>3, FewerElements
  <2>2. \A x, y, z \in Nat : x <= y /\ z > 0 => ~ (y + z <= x)
    OBVIOUS
  <2> QED
    BY <1>1, <2>1, <2>2
<1> QED
  BY <1>1, <1>2, <1>3

\* Bytes as an object, an object or an array as bytes, and its elements
\* (bytes.rs, volatile_memory.rs).
LEMMA ObjectDerived ==
  ASSUME NEW v, GoodView(v)
  PROVE  /\ v.kind = "bytes" =>
              \A e \in ElemSizes : Derived(v, from_slice(v, e), "from_slice", 0, 1, e)
         /\ Derived(v, to_slice(v), "to_slice", 0, v.nelem, v.elem)
         /\ v.kind = "array" =>
              \A i \in Nat : Derived(v, ref_at(v, i), "ref_at", i * v.elem, 1, v.elem)
<1>0. /\ v.nelem \in Nat /\ v.addr \in Nat /\ v.elem \in Nat \ {0} /\ v.elem \in Nat
      /\ SizeOf(v) \in Nat /\ SizeOf(v) = v.nelem * v.elem /\ v.addr + 0 = v.addr
  BY Fields
<1>1. \A x, y : Ok(x).tag = "Ok" /\ Ok(x).val = x /\ Err(y).tag = "Err"
  BY DEF Ok, Err
<1>2. ASSUME v.kind = "bytes", NEW e \in ElemSizes
      PROVE  Derived(v, from_slice(v, e), "from_slice", 0, 1, e)
  <2>1. SizeOf(v) = v.nelem
    BY <1>2, Fields DEF GoodView, MemoryKinds
  <2>2. e \in Nat /\ 1 * e = e /\ 0 + 1 * e = e /\ e <= e /\ 1 >= 0
    BY ElemsPositive
  <2>3. Ref(v.addr, e).addr = v.addr /\ SizeOf(Ref(v.addr, e)) = e
    BY <2>2, SizesAre
  <2>4. CASE v.nelem = e /\ v.addr % e = 0
    <3>1. from_slice(v, e) = Ok(Ref(v.addr, e))
      BY <2>4 DEF from_slice
    <3>2. 0 + 1 * e <= SizeOf(v) /\ (v.addr + 0) % e = 0 /\ e = SizeOf(v)
      BY <1>0, <2>1, <2>2, <2>4
    <3> QED
      BY <1>0, <1>1, <2>2, <2>3, <3>1, <3>2 DEF Derived
  <2>5. CASE ~ (v.nelem = e /\ v.addr % e = 0)
    <3>1. from_slice(v, e).tag = "Err"
      BY <1>1, <2>5 DEF from_slice
    <3>2. ~ ((v.addr + 0) % e = 0 /\ e = SizeOf(v))
      BY <1>0, <2>1, <2>5
    <3> QED
      BY <3>1, <3>2 DEF Derived
  <2> QED
    BY <2>4, <2>5
<1>3. Derived(v, to_slice(v), "to_slice", 0, v.nelem, v.elem)
  <2>1. v.nelem >= 0 /\ 0 + v.nelem * v.elem <= SizeOf(v)
    BY <1>0
  <2>2. Slice(v.addr, SizeOf(v)).addr = v.addr /\ SizeOf(Slice(v.addr, SizeOf(v))) = SizeOf(v)
    BY <1>0, SizesAre
  <2> QED
    BY <1>0, <1>1, <2>1, <2>2 DEF Derived, to_slice
<1>4. ASSUME NEW i \in Nat
      PROVE  Derived(v, ref_at(v, i), "ref_at", i * v.elem, 1, v.elem)
  <2> DEFINE e == v.elem
             o == i * v.elem
             p == v.addr + v.elem * i
  <2>1. o \in Nat /\ (i < v.nelem <=> o + e <= SizeOf(v))
    BY <1>0, IndexExact
  <2>2. p = v.addr + o /\ 1 * e = e
    BY <1>0
  <2>3. Ref(p, e).addr = p /\ SizeOf(Ref(p, e)) = e
    <3>1. Ref(p, e).addr = p /\ Ref(p, e).nelem = 1 /\ Ref(p, e).elem = e
      BY DEF Ref
    <3> QED
      BY <2>2, <3>1 DEF SizeOf
  <2>4. ref_at(v, i) = IF i >= v.nelem THEN Err("Panic") ELSE Ok(Ref(p, e))
    BY DEF ref_at
  <2>5. (i >= v.nelem <=> ~ (i < v.nelem)) /\ 1 >= 0
    BY <1>0
  <2> HIDE DEF o, p, e
  <2>6. CASE i < v.nelem
    <3>1. ref_at(v, i) = Ok(Ref(p, e)) /\ o + 1 * e <= SizeOf(v)
      BY <2>1, <2>2, <2>4, <2>5, <2>6
    <3>2. Derived(v, ref_at(v, i), "ref_at", o, 1, e)
      BY <1>1, <2>2, <2>3, <2>5, <3>1 DEF Derived
    <3> QED
      BY <3>2 DEF o, e
  <2>7. CASE ~ (i < v.nelem)
    <3>1. ref_at(v, i).tag = "Err" /\ ~ (o + 1 * e <= SizeOf(v))
      BY <1>1, <2>1, <2>2, <2>4, <2>5, <2>7
    <3>2. Derived(v, ref_at(v, i), "ref_at", o, 1, e)
      BY <3>1 DEF Derived
    <3> QED
      BY <3>2 DEF o, e
  <2> QED
    BY <2>6, <2>7
<1> QED
  BY <1>2, <1>3, <1>4

\* A view is derived exactly when its bytes are in the view it is derived from,
\* and its type's alignment, where asked for, is met (volatile_memory.rs,
\* mmap_unix.rs, bytes.rs): for every buffer, every element size and every
\* offset and count that a usize holds.
THEOREM DerivationsExact == Spec => DeriveExact
<1> DEFINE Others == {"split_at", "copy", "copy_all", "obj", "stream", "stream_all", "atomic",
                      "copy_typed", "copy_elems", "copy_to_slice", "ref", "none"}
<1>0. ASSUME call'.op \in Others PROVE DeriveStep
  BY <1>0 DEF DeriveStep
<1>1. ASSUME IInv, Next PROVE DeriveStep
  <2>1. GoodView(view) /\ Nums \subseteq Nat
    BY <1>1, ArgsAssumption, AddrSpaceAssumption DEF IInv, Raw
  <2>2. CASE MemoryDerive
    <3>1. view.kind \in MemoryKinds
      BY <2>2 DEF MemoryDerive, MemoryKinds
    <3>2. PICK a \in Nums, b \in Nums, e \in ElemSizes :
            \/ Called("get_slice", a, b, 1) /\ derive(get_slice(view, a, b))
            \/ Called("as_volatile_slice", 0, view.nelem, 1) /\ derive(as_volatile_slice(view))
            \/ Called("get_ref", a, 1, e) /\ derive(get_ref(view, a, e))
            \/ Called("get_array_ref", a, b, e) /\ derive(get_array_ref(view, a, b, e))
            \/ Called("get_atomic_ref", a, 1, e) /\ derive(get_atomic_ref(view, a, e))
      BY <2>2 DEF MemoryDerive
    <3>3. /\ Derived(view, get_slice(view, a, b), "get_slice", a, b, 1)
          /\ Derived(view, as_volatile_slice(view), "as_volatile_slice", 0, view.nelem, 1)
          /\ Derived(view, get_ref(view, a, e), "get_ref", a, 1, e)
          /\ Derived(view, get_atomic_ref(view, a, e), "get_atomic_ref", a, 1, e)
          /\ Derived(view, get_array_ref(view, a, b, e), "get_array_ref", a, b, e)
      BY <2>1, <3>1, MemoryDerived
    <3> QED
      BY <3>2, <3>3, DerivedStep
  <2>3. CASE SliceDerive
    <3>1. PICK a \in Nums :
            \/ Called("offset", a, view.nelem - a, 1) /\ derive(offset_by(view, a))
            \/ Called("split_at", a, 0, 1) /\ \E r \in split_at(view, a) : derive(r)
            \/ Called("array_from", 0, view.nelem, 1) /\ derive(array_from(view))
      BY <2>3 DEF SliceDerive
    <3>2. /\ Derived(view, offset_by(view, a), "offset", a, view.nelem - a, 1)
          /\ Derived(view, array_from(view), "array_from", 0, view.nelem, 1)
      BY <2>1, <2>3, SliceDerived DEF SliceDerive
    <3>3. Called("split_at", a, 0, 1) => DeriveStep
      BY <1>0 DEF Called
    <3> QED
      BY <3>1, <3>2, <3>3, DerivedStep
  <2>4. ASSUME NEW e \in ElemSizes, FromSlice(e) PROVE DeriveStep
    <3>1. Derived(view, from_slice(view, e), "from_slice", 0, 1, e)
      BY <2>1, <2>4, ObjectDerived DEF FromSlice
    <3> QED
      BY <2>4, <3>1, DerivedStep DEF FromSlice
  <2>5. CASE ToSlice
    <3>1. Derived(view, to_slice(view), "to_slice", 0, view.nelem, view.elem)
      BY <2>1, ObjectDerived
    <3> QED
      BY <2>5, <3>1, DerivedStep DEF ToSlice
  <2>6. ASSUME NEW n \in Nums, RefAt(n) PROVE DeriveStep
    <3>1. Derived(view, ref_at(view, n), "ref_at", n * view.elem, 1, view.elem)
      BY <2>1, <2>6, ObjectDerived DEF RefAt
    <3> QED
      BY <2>6, <3>1, DerivedStep DEF RefAt
  <2>8. \A op, a, b, e : Called(op, a, b, e) => call'.op = op
    BY DEF Called
  <2>7. CASE SliceAccess \/ RefAccess \/ Return \/ \E n \in Nums : ArrayAccess(n) \/ CopyToSlice(n)
    <3>1. SliceAccess => call'.op \in Others
      BY <2>8 DEF SliceAccess
    <3>2. RefAccess \/ Return => call'.op \in Others
      BY <2>8 DEF RefAccess, Return, NoCall
    <3>3. (\E n \in Nums : ArrayAccess(n) \/ CopyToSlice(n)) => call'.op \in Others
      BY <2>8 DEF ArrayAccess, CopyToSlice
    <3> QED
      BY <1>0, <2>7, <3>1, <3>2, <3>3
  <2> QED
    BY <1>1, <2>2, <2>3, <2>4, <2>5, <2>6, <2>7 DEF Next
<1>2. ASSUME IInv, [Next]_vars PROVE [DeriveStep]_vars
  BY <1>1, <1>2
<1>3. (Spec => [][DeriveStep]_vars) => (Spec => DeriveExact)
  BY DEF DeriveExact, DeriveStep
<1> QED
  BY <1>2, <1>3, Invariance, PTL DEF Spec

----------------------------------------------------------------------------
(* What an access moves                                                    *)

\* The access acc through v, made by a call with these arguments, reports what
\* it touched, and is short only at the end of v.
Moved(v, acc, op, a, b, e) ==
  acc.res.tag = "Ok" =>
    /\ acc.bytes = v.addr + a .. v.addr + a + acc.res.val * e - 1
    /\ op # "stream" => acc.res.val = b \/ (SizeOf(v) - a) - acc.res.val * e < e

\* What AccessExact says of one step.
AccessStep ==
  LET c    == call'
      room == SizeOf(view) - c.a
      n    == out'.val * c.elem
  IN  c.op \in {"copy", "copy_all", "obj", "stream", "stream_all", "copy_typed", "copy_elems",
                "copy_to_slice"} /\ out'.tag = "Ok"
        => /\ touched' = view.addr + c.a .. view.addr + c.a + n - 1
           /\ c.op # "stream" => out'.val = c.b \/ room - n < c.elem

\* A call that makes such an access (volatile_memory.rs).
LEMMA MovedStep ==
  ASSUME NEW acc, NEW op, NEW a, NEW b, NEW e, Called(op, a, b, e), access(acc),
         Moved(view, acc, op, a, b, e)
  PROVE  AccessStep
<1>1. call'.op = op /\ call'.a = a /\ call'.b = b /\ call'.elem = e
  BY DEF Called
<1>2. out' = acc.res /\ touched' = acc.bytes
  BY DEF access
<1> QED
  BY <1>1, <1>2 DEF AccessStep, Moved

\* An access that failed reports nothing.
LEMMA FailedMoves ==
  ASSUME NEW v, NEW acc, acc.res.tag # "Ok", NEW op, NEW a, NEW b, NEW e
  PROVE  Moved(v, acc, op, a, b, e)
<1> QED
  BY DEF Moved

\* An access that succeeded with n elements of e bytes.
LEMMA OkMoves ==
  ASSUME NEW v, NEW n, NEW op, NEW a, NEW b, NEW e, NEW m, m = n * e,
         op # "stream" => n = b \/ (SizeOf(v) - a) - n * e < e
  PROVE  Moved(v, Access(Ok(n), v.addr + a, m), op, a, b, e)
<1>1. /\ Access(Ok(n), v.addr + a, m).res.tag = "Ok"
      /\ Access(Ok(n), v.addr + a, m).res.val = n
      /\ Access(Ok(n), v.addr + a, m).bytes = v.addr + a .. v.addr + a + m - 1
  BY DEF Access, Ok
<1> QED
  BY <1>1 DEF Moved

\* write, read, write_slice, read_slice, write_obj and read_obj of a slice
\* (volatile_memory.rs, bytes.rs).
LEMMA BytesMoved ==
  ASSUME NEW v, GoodView(v), v.kind = "slice", NEW a \in Nat, NEW b \in Nat, NEW e \in ElemSizes
  PROVE  /\ Moved(v, copy_bytes(v, a, b), "copy", a, b, 1)
         /\ Moved(v, copy_all_bytes(v, a, b), "copy_all", a, b, 1)
         /\ Moved(v, copy_obj(v, a, e), "obj", a, 1, e)
<1>0. v.nelem \in Nat /\ v.addr \in Nat /\ SizeOf(v) = v.nelem /\ e \in Nat
  BY Fields, ElemsPositive DEF GoodView, MemoryKinds
<1>1. \A x, y : Access(x, y, 0).res = x
  BY DEF Access
<1>2. \A x, y : Ok(x).tag = "Ok" /\ Ok(x).val = x /\ Err(y).tag = "Err"
  BY DEF Ok, Err
<1>3. ASSUME NEW len \in Nat, NEW op
      PROVE  Moved(v, copy_bytes(v, a, len), op, a, len, 1)
  <2>1. CASE a >= v.nelem
    BY <1>1, <1>2, <2>1, FailedMoves DEF copy_bytes
  <2>2. CASE ~ (a >= v.nelem)
    <3> DEFINE n == min(len, v.nelem - a)
    <3>1. n \in Nat /\ n = n * 1 /\ (n = len \/ (SizeOf(v) - a) - n * 1 < 1)
      BY <1>0, <2>2 DEF min
    <3>2. copy_bytes(v, a, len) = Access(Ok(n), v.addr + a, n)
      BY <2>2 DEF copy_bytes
    <3> HIDE DEF n
    <3> QED
      BY <3>1, <3>2, OkMoves
  <2> QED
    BY <2>1, <2>2
<1>4. ASSUME NEW len \in Nat
      PROVE  \/ copy_all_bytes(v, a, len).res.tag # "Ok"
             \/ /\ copy_all_bytes(v, a, len) = copy_bytes(v, a, len)
                /\ copy_bytes(v, a, len).res.val = len
                /\ copy_bytes(v, a, len).res.tag = "Ok"
  <2> DEFINE c == copy_bytes(v, a, len)
  <2>1. copy_all_bytes(v, a, len) = IF c.res.tag = "Ok" /\ c.res.val # len
                                    THEN [c EXCEPT !.res = Err("PartialBuffer")] ELSE c
    BY DEF copy_all_bytes
  <2>2. [c EXCEPT !.res = Err("PartialBuffer")].res = Err("PartialBuffer")
    <3>1. \E x, y, z : c = Access(x, y, z)
      BY DEF copy_bytes
    <3> HIDE DEF c
    <3> QED
      BY <3>1 DEF Access
  <2> HIDE DEF c
  <2>3. CASE c.res.tag = "Ok" /\ c.res.val # len
    BY <1>2, <2>1, <2>2, <2>3
  <2>4. CASE ~ (c.res.tag = "Ok" /\ c.res.val # len)
    BY <2>1, <2>4 DEF c
  <2> QED
    BY <2>3, <2>4
<1>5. Moved(v, copy_all_bytes(v, a, b), "copy_all", a, b, 1)
  <2>1. Moved(v, copy_bytes(v, a, b), "copy_all", a, b, 1)
    BY <1>3
  <2> QED
    BY <1>4, <2>1, FailedMoves
<1>6. Moved(v, copy_obj(v, a, e), "obj", a, 1, e)
  <2> DEFINE c == copy_all_bytes(v, a, e)
  <2>1. copy_obj(v, a, e) = IF c.res.tag = "Ok" THEN [c EXCEPT !.res = Ok(1)] ELSE c
    BY DEF copy_obj
  <2>2. CASE c.res.tag # "Ok"
    BY <2>1, <2>2, FailedMoves
  <2>3. CASE c.res.tag = "Ok"
    <3>1. c = copy_bytes(v, a, e) /\ c.res.val = e
      BY <1>0, <1>4, <2>3
    <3>2. c = Access(Ok(e), v.addr + a, e)
      <4>1. ~ (a >= v.nelem)
        BY <1>1, <1>2, <2>3, <3>1 DEF copy_bytes
      <4> DEFINE n == min(e, v.nelem - a)
      <4>2. c = Access(Ok(n), v.addr + a, n)
        BY <3>1, <4>1 DEF copy_bytes
      <4> HIDE DEF n, c
      <4>3. n = e
        BY <1>2, <3>1, <4>2 DEF Access
      <4> QED
        BY <4>2, <4>3
    <3>3. [c EXCEPT !.res = Ok(1)] = Access(Ok(1), v.addr + a, e)
      BY <3>2 DEF Access
    <3>4. copy_obj(v, a, e) = Access(Ok(1), v.addr + a, e)
      BY <2>1, <2>3, <3>3
    <3>5. e = 1 * e
      BY <1>0
    <3> HIDE DEF c
    <3> QED
      BY <3>4, <3>5, OkMoves
  <2> QED
    BY <2>2, <2>3
<1> QED
  BY <1>3, <1>5, <1>6

\* read_from, write_to, read_exact_from and write_all_to (volatile_memory.rs).
LEMMA StreamsMoved ==
  ASSUME NEW v, GoodView(v), v.kind = "slice", NEW a \in Nat, NEW b \in Nat
  PROVE  /\ \A s \in stream(v, a, b) : Moved(v, s, "stream", a, b, 1)
         /\ \A s \in stream_all(v, a, b) : Moved(v, s, "stream_all", a, b, 1)
<1> DEFINE end == compute_end_offset(v, a, b)
<1>1. \A x, y, z : Access(x, y, z).res = x
  BY DEF Access
<1>2. \A x, y : Ok(x).tag = "Ok" /\ Ok(x).val = x /\ Err(y).tag = "Err"
  BY DEF Ok, Err
<1>3. end.tag # "Err" => end.val = a + b
  BY <1>2 DEF compute_end_offset, compute_offset
<1>4. ASSUME NEW s \in stream(v, a, b)
      PROVE  Moved(v, s, "stream", a, b, 1)
  <2>1. s.res.tag # "Ok" \/ \E n \in 0 .. end.val - a : s = Access(Ok(n), v.addr + a, n) /\ end.tag # "Err"
    BY <1>1, <1>2, <1>4 DEF stream
  <2>2. ASSUME NEW n \in 0 .. end.val - a, s = Access(Ok(n), v.addr + a, n), end.tag # "Err"
        PROVE  Moved(v, s, "stream", a, b, 1)
    <3>1. n = n * 1
      BY <1>3, <2>2
    <3> QED
      BY <2>2, <3>1, OkMoves
  <2> QED
    BY <2>1, <2>2, FailedMoves
<1>5. ASSUME NEW s \in stream_all(v, a, b)
      PROVE  Moved(v, s, "stream_all", a, b, 1)
  <2>1. s.res.tag # "Ok" \/ s = Access(Ok(b), v.addr + a, b)
    BY <1>1, <1>2, <1>5 DEF stream_all
  <2>2. b = b * 1
    OBVIOUS
  <2> QED
    BY <2>1, <2>2, OkMoves, FailedMoves
<1> QED
  BY <1>4, <1>5

\* copy_to and copy_from of an array (volatile_memory.rs), for a view v with
\* room for fewer than one element behind the array's.
LEMMA ElemsMoved ==
  ASSUME NEW v, NEW w, NEW b \in Nat, NEW op, w.nelem \in Nat, w.elem \in Nat \ {0},
         v.addr \in Nat, w.addr = v.addr, SizeOf(v) \in Nat, SizeOf(v) - w.nelem * w.elem < w.elem
  PROVE  Moved(v, copy_elems(w, b), op, 0, b, w.elem)
<1> DEFINE n == min(b, w.nelem)
<1>1. n \in Nat /\ (n = b \/ n = w.nelem) /\ w.addr = v.addr + 0 /\ SizeOf(v) - 0 = SizeOf(v)
  BY DEF min
<1>2. copy_elems(w, b) = Access(Ok(n), v.addr + 0, n * w.elem)
  BY <1>1 DEF copy_elems
<1> HIDE DEF n
<1>3. n = b \/ (SizeOf(v) - 0) - n * w.elem < w.elem
  BY <1>1
<1> QED
  BY <1>2, <1>3, OkMoves

\* What is left of s bytes behind the last whole element of e bytes.
LEMMA LessThanOne ==
  ASSUME NEW s \in Nat, NEW e \in Nat \ {0}
  PROVE  s \div e \in Nat /\ s - (s \div e) * e < e
<1>1. s = e * (s \div e) + (s % e) /\ s % e < e /\ s \div e \in Nat /\ s % e \in Nat
  OBVIOUS
<1>2. e * (s \div e) = (s \div e) * e /\ e * (s \div e) \in Nat
  BY <1>1
<1>3. \A x, y, z, w \in Nat : x = y + z /\ z < w => x - y < w
  OBVIOUS
<1> QED
  BY <1>1, <1>2, <1>3

\* copy_to and copy_from of an array, and copy_to_volatile_slice of a slice or
\* an array (volatile_memory.rs).
LEMMA CopiesMoved ==
  ASSUME NEW v, GoodView(v), NEW b \in Nat
  PROVE  /\ \A op : Moved(v, copy_elems(v, b), op, 0, b, v.elem)
         /\ Moved(v, copy_to_slice(v, b), "copy_to_slice", 0, b, 1)
<1>0. /\ v.nelem \in Nat /\ v.addr \in Nat /\ v.elem \in Nat \ {0} /\ SizeOf(v) \in Nat
      /\ SizeOf(v) = v.nelem * v.elem
  BY Fields
<1>1. ASSUME NEW op PROVE Moved(v, copy_elems(v, b), op, 0, b, v.elem)
  <2>1. SizeOf(v) - v.nelem * v.elem < v.elem
    BY <1>0
  <2> QED
    BY <1>0, <2>1, ElemsMoved
<1>2. Moved(v, copy_to_slice(v, b), "copy_to_slice", 0, b, 1)
  <2> DEFINE n == min(SizeOf(v), b)
  <2>1. n = n * 1 /\ (n = b \/ (SizeOf(v) - 0) - n * 1 < 1) /\ v.addr = v.addr + 0
    BY <1>0 DEF min
  <2>2. copy_to_slice(v, b) = Access(Ok(n), v.addr + 0, n)
    BY <2>1 DEF copy_to_slice
  <2> HIDE DEF n
  <2> QED
    BY <2>1, <2>2, OkMoves
<1> QED
  BY <1>1, <1>2

\* copy_to and copy_from of a slice (volatile_memory.rs).
LEMMA TypedMoved ==
  ASSUME NEW v, GoodView(v), v.kind = "slice", NEW b \in Nat, NEW e \in ElemSizes
  PROVE  Moved(v, copy_typed(v, b, e), "copy_typed", 0, b, e)
<1>0. v.nelem \in Nat /\ v.addr \in Nat /\ SizeOf(v) \in Nat /\ e \in Nat \ {0}
  BY Fields, ElemsPositive
<1>1. v.elem = 1 /\ SizeOf(v) = v.nelem /\ v.kind \in MemoryKinds
  BY Fields DEF GoodView, MemoryKinds
<1>2. CASE e = 1
  <2>1. copy_typed(v, b, e) = copy_elems(v, b)
    BY <1>2 DEF copy_typed
  <2> QED
    BY <1>1, <1>2, <2>1, CopiesMoved
<1>3. CASE e # 1
  <2> DEFINE m == v.nelem \div e
             r == get_array_ref(v, 0, m, e)
             s == get_slice(v, 0, m * e)
             w == ArrayRef(v.addr, m, e)
  <2>1. m \in Nat /\ m * e \in Nat /\ SizeOf(v) - m * e < e
    BY <1>0, <1>1, LessThanOne, Multiple
  <2>2. copy_typed(v, b, e) = IF r.tag = "Err" THEN Access(Err("Panic"), v.addr, 0)
                              ELSE copy_elems(r.val, b)
    BY <1>3 DEF copy_typed
  <2>3. r.tag = "Err" \/ r = Ok(w)
    <3> HIDE DEF m
    <3>1. s.tag = "Err" \/ s = Ok(Slice(v.addr + 0, m * e))
      BY <1>0, <1>1, <2>1, GetSliceIs
    <3>2. r = IF m > ISIZE_MAX \/ m * e > ISIZE_MAX THEN Err("TooBig")
              ELSE IF s.tag = "Err" THEN s ELSE Ok(ArrayRef(s.val.addr, m, e))
      BY DEF get_array_ref
    <3>3. Ok(Slice(v.addr + 0, m * e)).val.addr = v.addr /\ Err("TooBig").tag = "Err"
      BY <1>0 DEF Ok, Err, Slice
    <3> HIDE DEF s, r
    <3> QED
      BY <3>1, <3>2, <3>3
  <2>4. CASE r.tag = "Err"
    <3>1. Access(Err("Panic"), v.addr, 0).res.tag # "Ok"
      BY DEF Access, Err
    <3> QED
      BY <2>2, <2>4, <3>1, FailedMoves
  <2>5. CASE r.tag # "Err"
    <3>1. w.nelem = m /\ w.elem = e /\ w.addr = v.addr /\ Ok(w).val = w
      BY DEF ArrayRef, Ok
    <3>2. copy_typed(v, b, e) = copy_elems(w, b)
      BY <2>2, <2>3, <2>5, <3>1
    <3> HIDE DEF m, r, w
    <3>3. Moved(v, copy_elems(w, b), "copy_typed", 0, b, w.elem)
      BY <1>0, <2>1, <3>1, ElemsMoved
    <3> QED
      BY <3>1, <3>2, <3>3
  <2> QED
    BY <2>4, <2>5
<1> QED
  BY <1>2, <1>3

\* An access reports exactly what it touched, from the offset asked for on, and
\* is short only at the end of the view (volatile_memory.rs, bytes.rs): for every
\* buffer, every element size and every offset and length that a usize holds.
THEOREM AccessesExact == Spec => AccessExact
<1> DEFINE Others == {"get_slice", "as_volatile_slice", "get_ref", "get_array_ref",
                      "get_atomic_ref", "offset", "split_at", "array_from", "from_slice",
                      "to_slice", "ref_at", "atomic", "ref", "none"}
<1>0. ASSUME call'.op \in Others PROVE AccessStep
  BY <1>0 DEF AccessStep
<1>1. ASSUME IInv, Next PROVE AccessStep
  <2>1. GoodView(view) /\ Nums \subseteq Nat
    BY <1>1, ArgsAssumption, AddrSpaceAssumption DEF IInv, Raw
  <2>2. CASE SliceAccess
    <3>1. PICK a \in Nums, b \in Nums, e \in ElemSizes :
            \/ Called("copy", a, b, 1) /\ access(copy_bytes(view, a, b))
            \/ Called("copy_all", a, b, 1) /\ access(copy_all_bytes(view, a, b))
            \/ Called("obj", a, 1, e) /\ access(copy_obj(view, a, e))
            \/ Called("stream", a, b, 1) /\ \E s \in stream(view, a, b) : access(s)
            \/ Called("stream_all", a, b, 1) /\ \E s \in stream_all(view, a, b) : access(s)
            \/ Called("atomic", a, 1, e) /\ access(atomic(view, a, e))
            \/ Called("copy_typed", 0, b, e) /\ access(copy_typed(view, b, e))
      BY <2>2 DEF SliceAccess
    <3>2. view.kind = "slice" /\ a \in Nat /\ b \in Nat
      BY <2>1, <2>2 DEF SliceAccess
    <3>3. /\ Moved(view, copy_bytes(view, a, b), "copy", a, b, 1)
          /\ Moved(view, copy_all_bytes(view, a, b), "copy_all", a, b, 1)
          /\ Moved(view, copy_obj(view, a, e), "obj", a, 1, e)
      BY <2>1, <3>2, BytesMoved
    <3>4. /\ \A s \in stream(view, a, b) : Moved(view, s, "stream", a, b, 1)
          /\ \A s \in stream_all(view, a, b) : Moved(view, s, "stream_all", a, b, 1)
      BY <2>1, <3>2, StreamsMoved
    <3>5. Moved(view, copy_typed(view, b, e), "copy_typed", 0, b, e)
      BY <2>1, <3>2, TypedMoved
    <3>6. Called("atomic", a, 1, e) => AccessStep
      BY <1>0 DEF Called
    <3> QED
      BY <3>1, <3>3, <3>4, <3>5, <3>6, MovedStep
  <2>3. ASSUME NEW len \in Nums, ArrayAccess(len) PROVE AccessStep
    <3>1. Moved(view, copy_elems(view, len), "copy_elems", 0, len, view.elem)
      BY <2>1, CopiesMoved
    <3> QED
      BY <2>3, <3>1, MovedStep DEF ArrayAccess
  <2>4. ASSUME NEW len \in Nums, CopyToSlice(len) PROVE AccessStep
    <3>1. Moved(view, copy_to_slice(view, len), "copy_to_slice", 0, len, 1)
      BY <2>1, CopiesMoved
    <3> QED
      BY <2>4, <3>1, MovedStep DEF CopyToSlice
  <2>8. \A op, a, b, e : Called(op, a, b, e) => call'.op = op
    BY DEF Called
  <2>5. CASE MemoryDerive \/ SliceDerive \/ ToSlice \/ RefAccess \/ Return
    <3>1. MemoryDerive => call'.op \in Others
      BY <2>8 DEF MemoryDerive
    <3>2. SliceDerive => call'.op \in Others
      BY <2>8 DEF SliceDerive
    <3>3. ToSlice => call'.op = "to_slice"
      BY <2>8, Zenon DEF ToSlice
    <3>4. RefAccess => call'.op = "ref"
      BY <2>8, Zenon DEF RefAccess
    <3>5. Return => call'.op = "none"
      BY DEF Return, NoCall
    <3> QED
      BY <1>0, <2>5, <3>1, <3>2, <3>3, <3>4, <3>5
  <2>6. CASE (\E e \in ElemSizes : FromSlice(e)) \/ (\E n \in Nums : RefAt(n))
    BY <1>0, <2>6, <2>8 DEF FromSlice, RefAt
  <2> QED
    BY <1>1, <2>2, <2>3, <2>4, <2>5, <2>6 DEF Next
<1>2. ASSUME IInv, [Next]_vars PROVE [AccessStep]_vars
  BY <1>1, <1>2
<1>3. (Spec => [][AccessStep]_vars) => (Spec => AccessExact)
  BY DEF AccessExact, AccessStep
<1> QED
  BY <1>2, <1>3, Invariance, PTL DEF Spec

----------------------------------------------------------------------------
(* The copy                                                                *)

\* The bytes copied so far by the loops of copy_slice_volatile.
copied == total - left

TypeInv ==
  /\ src \in Nat \ {0} /\ dst \in Nat \ {0} /\ src_len \in Nat /\ dst_len \in Nat
  /\ left \in 0 .. total
  /\ width \in Widths /\ width <= Word
  /\ pc \in {"volatile", "memcpy", "done"}

\* The pointers have advanced by what is copied, a multiple of the width.
VolatileInv ==
  /\ src_addr = src + copied /\ dst_addr = dst + copied
  /\ new = 0 .. copied - 1
  /\ copied % width = 0

\* A wider loop that the alignment allowed has copied all whole values.
WiderInv ==
  \A w \in Widths : width < w /\ w <= Word /\ w <= align
    => total - (total % w) <= copied

\* memcpy has copied some of the bytes, and not all before it returns.
MemcpyInv == new \subseteq 0 .. total - 1

CopyInv ==
  /\ TypeInv
  /\ IF total <= Word
     THEN pc # "memcpy" /\ VolatileInv /\ WiderInv /\ (pc = "done" => left = 0)
     ELSE pc # "volatile" /\ MemcpyInv /\ (pc = "done" <=> new = 0 .. total - 1)

\* Multiples of a width: the next one, and those of half of it.
LEMMA MultipleIs ==
  ASSUME NEW k \in Nat, NEW w \in Widths, k % w = 0
  PROVE  /\ (k + w) % w = 0
         /\ \A v \in Widths : v <= w => k % v = 0
BY DEF Widths

\* Between two neighbouring widths there is no other.
LEMMA HalfIs ==
  ASSUME NEW w \in Widths, NEW v \in Widths, w = 2 * v
  PROVE  v <= w /\ \A u \in Widths : v < u => u = w \/ w < u
BY DEF Widths

\* alignment(addr) is a width that divides addr, and the largest such.
LEMMA AlignmentIs ==
  ASSUME NEW addr \in Nat
  PROVE  /\ alignment(addr) \in Widths
         /\ addr % alignment(addr) = 0
         /\ \A w \in Widths : addr % w = 0 <=> w <= alignment(addr)
<1>1. alignment(addr) \in Widths /\ addr % alignment(addr) = 0
  BY DEF alignment, Widths
<1>2. \A w \in Widths : addr % w = 0 => w <= alignment(addr)
  BY DEF alignment, Widths
<1>3. \A w \in Widths : w <= alignment(addr) => addr % w = 0
  BY <1>1 DEF Widths
<1> QED
  BY <1>1, <1>2, <1>3

\* Both buffers are aligned to exactly the widths up to align.
LEMMA AlignIs ==
  ASSUME TypeInv
  PROVE  /\ align \in Widths
         /\ \A w \in Widths : w <= align <=> src % w = 0 /\ dst % w = 0
<1>1. /\ alignment(src) \in Widths /\ alignment(dst) \in Widths
      /\ \A w \in Widths : src % w = 0 <=> w <= alignment(src)
      /\ \A w \in Widths : dst % w = 0 <=> w <= alignment(dst)
  BY AlignmentIs DEF TypeInv
<1> HIDE DEF alignment
<1> QED
  BY <1>1 DEF align, Widths

\* total is a length that both buffers have.
LEMMA TotalIs ==
  ASSUME src_len \in Nat, dst_len \in Nat
  PROVE  total \in Nat /\ total <= src_len /\ total <= dst_len
BY DEF total

\* The state in which copy_slice starts.
LEMMA CopyInitInv ==
  ASSUME CopyInit
  PROVE  CopyInv
<1>1. /\ src \in Nat \ {0} /\ dst \in Nat \ {0} /\ src_len \in Nat /\ dst_len \in Nat
      /\ left = total /\ width = Word /\ Word \in {4, 8}
      /\ src_addr = src /\ dst_addr = dst /\ new = {}
      /\ pc = IF total <= Word THEN "volatile" ELSE "memcpy"
  BY AddrsAssumption, WordAssumption DEF CopyInit
<1>2. total \in Nat
  BY <1>1, TotalIs
<1>3. TypeInv
  BY <1>1, <1>2 DEF TypeInv, Widths
<1>4. CASE total <= Word
  <2>1. copied = 0
    BY <1>1, <1>2 DEF copied
  <2>2. VolatileInv
    BY <1>1, <2>1 DEF VolatileInv
  <2>3. WiderInv
    BY <1>1 DEF WiderInv, Widths
  <2> QED
    BY <1>1, <1>3, <1>4, <2>2, <2>3 DEF CopyInv
<1>5. CASE ~ (total <= Word)
  <2>1. 0 \in 0 .. total - 1
    BY <1>1, <1>2, <1>5
  <2> QED
    BY <1>1, <1>3, <1>5, <2>1 DEF CopyInv, MemcpyInv
<1> QED
  BY <1>4, <1>5

\* What an action leaves alone when it does not touch the buffers.
LEMMA SameBuffers ==
  ASSUME UNCHANGED <<src, dst, src_len, dst_len>>
  PROVE  total' = total /\ align' = align
BY DEF total, align

\* One access of the loop in copy_aligned_slice.
LEMMA CopySingleInv ==
  ASSUME CopyInv, CopySingle
  PROVE  CopyInv'
<1>1. total' = total /\ align' = align
  BY SameBuffers DEF CopySingle
<1>2. /\ TypeInv /\ total <= Word /\ pc = "volatile" /\ VolatileInv /\ WiderInv
  BY DEF CopyInv, CopySingle
<1>3. total \in Nat /\ Word \in {4, 8} /\ align \in Widths
  BY <1>2, TotalIs, AlignIs, WordAssumption DEF TypeInv
<1>4. copied \in Nat /\ left \in 0 .. total /\ width \in Widths /\ copied = total - left
  BY <1>2, <1>3 DEF copied, TypeInv
<1>5. left' = left - width /\ width' = width /\ left >= width /\ pc' = pc
  BY DEF CopySingle
<1>6. copied' = copied + width
  BY <1>1, <1>3, <1>4, <1>5 DEF copied, Widths
<1>7. TypeInv'
  <2>1. left' \in 0 .. total'
    BY <1>1, <1>3, <1>4, <1>5 DEF Widths
  <2> QED
    BY <1>2, <2>1, <1>5 DEF TypeInv, CopySingle
<1>8. VolatileInv'
  <2>1. src_addr' = src' + copied' /\ dst_addr' = dst' + copied'
    <3>1. src' = src /\ dst' = dst /\ src_addr' = src_addr + width /\ dst_addr' = dst_addr + width
      BY DEF CopySingle
    <3>2. src \in Nat /\ dst \in Nat /\ src_addr = src + copied /\ dst_addr = dst + copied
      BY <1>2 DEF VolatileInv, TypeInv
    <3> QED
      BY <1>4, <1>6, <3>1, <3>2 DEF Widths
  <2>2. new' = 0 .. copied' - 1
    <3>1. dst_addr - dst = copied
      BY <1>2, <1>4 DEF VolatileInv, TypeInv
    <3>2. new' = (0 .. copied - 1) \cup (copied .. copied + width - 1)
      BY <1>2, <3>1 DEF VolatileInv, CopySingle
    <3> QED
      BY <1>4, <1>6, <3>2 DEF Widths
  <2>3. copied' % width' = 0
    BY <1>2, <1>4, <1>5, <1>6, MultipleIs DEF VolatileInv
  <2> QED
    BY <2>1, <2>2, <2>3 DEF VolatileInv
<1>9. WiderInv'
  BY <1>1, <1>2, <1>3, <1>4, <1>5, <1>6 DEF WiderInv, Widths
<1> QED
  BY <1>1, <1>2, <1>5, <1>7, <1>8, <1>9 DEF CopyInv

\* From one copy_aligned_slice to the next, and the return.
LEMMA NarrowerInv ==
  ASSUME CopyInv, Narrower
  PROVE  CopyInv'
<1>1. total' = total /\ align' = align /\ copied' = copied
  BY SameBuffers DEF Narrower, copied
<1>2. /\ TypeInv /\ total <= Word /\ pc = "volatile" /\ VolatileInv /\ WiderInv
  BY DEF CopyInv, Narrower
<1>3. total \in Nat /\ Word \in {4, 8} /\ align \in Widths
  BY <1>2, TotalIs, AlignIs, WordAssumption DEF TypeInv
<1>4. /\ copied \in Nat /\ left \in 0 .. total /\ width \in Widths /\ copied = total - left
      /\ copied % width = 0 /\ width <= Word
  BY <1>2, <1>3 DEF copied, TypeInv, VolatileInv
<1>5. width <= align => left < width
  BY <1>3, <1>4 DEF Narrower, Widths
<1>6. UNCHANGED <<src, dst, src_len, dst_len, src_addr, dst_addr, left, new>>
  BY DEF Narrower
<1>7. CASE width = 1
  <2>1. pc' = "done" /\ width' = width
    BY <1>7 DEF Narrower
  <2>2. left = 0
    BY <1>3, <1>4, <1>5, <1>7 DEF Widths
  <2>3. TypeInv'
    BY <1>1, <1>2, <1>6, <2>1 DEF TypeInv
  <2>4. VolatileInv' /\ WiderInv'
    BY <1>1, <1>2, <1>6, <2>1 DEF VolatileInv, WiderInv
  <2> QED
    BY <1>1, <1>2, <1>6, <2>1, <2>2, <2>3, <2>4 DEF CopyInv
<1>8. CASE width # 1
  <2>1. pc' = pc /\ width' = width \div 2
    BY <1>8 DEF Narrower
  <2>2. width' \in Widths /\ width' <= Word /\ width = 2 * width'
    BY <1>3, <1>4, <1>8, <2>1 DEF Widths
  <2>3. TypeInv'
    BY <1>1, <1>2, <1>6, <2>1, <2>2 DEF TypeInv
  <2>4. VolatileInv'
    <3>1. copied' % width' = 0
      <4>1. width' <= width
        BY <1>4, <2>2, HalfIs
      <4> QED
        BY <1>1, <1>4, <2>2, <4>1, MultipleIs
    <3> QED
      BY <1>1, <1>2, <1>6, <3>1 DEF VolatileInv
  <2>5. WiderInv'
    <3>1. width <= align => total - (total % width) <= copied
      BY <1>3, <1>4, <1>5 DEF Widths
    <3>2. \A w \in Widths : width' < w => w = width \/ width < w
      BY <1>4, <2>2, HalfIs
    <3> QED
      BY <1>1, <1>2, <3>1, <3>2 DEF WiderInv
  <2> QED
    BY <1>1, <1>2, <2>1, <2>3, <2>4, <2>5 DEF CopyInv
<1> QED
  BY <1>7, <1>8

\* One byte of copy_from_slice: it returns when as many bytes as there are in
\* the copy are there, and then these are all of them.
LEMMA MemcpyByteInv ==
  ASSUME CopyInv, NEW i \in 0 .. total - 1, MemcpyByte(i)
  PROVE  CopyInv'
<1>1. total' = total
  BY SameBuffers DEF MemcpyByte
<1>2. TypeInv /\ ~ (total <= Word) /\ MemcpyInv
  BY DEF CopyInv, MemcpyByte
<1>3. total \in Nat
  BY <1>2, TotalIs DEF TypeInv
<1>4. TypeInv'
  BY <1>1, <1>2 DEF TypeInv, MemcpyByte
<1>5. new' \subseteq 0 .. total - 1
  BY <1>2 DEF MemcpyInv, MemcpyByte
<1>6. pc' \in {"memcpy", "done"}
  BY DEF MemcpyByte
<1>7. pc' = "done" <=> new' = 0 .. total - 1
  <2>1. pc' = "done" <=> Cardinality(new') = total
    BY DEF MemcpyByte
  <2>2. IsFiniteSet(0 .. total - 1) /\ Cardinality(0 .. total - 1) = total
    BY <1>3, FS_Interval
  <2> QED
    BY <1>5, <2>1, <2>2, FS_Subset
<1> QED
  BY <1>1, <1>2, <1>4, <1>5, <1>6, <1>7 DEF CopyInv, MemcpyInv

\* CopyInv is inductive.
LEMMA CopyNextInv ==
  ASSUME CopyInv, [CopyNext]_copy_vars
  PROVE  CopyInv'
<1>1. CASE UNCHANGED copy_vars
  BY <1>1 DEF copy_vars, CopyInv, TypeInv, VolatileInv, WiderInv, MemcpyInv, copied, total, align
<1>2. CASE CopySingle
  BY <1>2, CopySingleInv
<1>3. CASE Narrower
  BY <1>3, NarrowerInv
<1>4. CASE \E i \in 0 .. total - 1 : MemcpyByte(i)
  BY <1>4, MemcpyByteInv
<1>5. CASE Done
  BY <1>1, <1>5 DEF Done
<1> QED
  BY <1>1, <1>2, <1>3, <1>4, <1>5 DEF CopyNext

\* The invariant of copy_slice: a prefix in whole values, or some bytes.
THEOREM CopyInvariance == CopySpec => []CopyInv
<1>1. CopyInit => CopyInv
  BY CopyInitInv
<1>2. CopyInv /\ [CopyNext]_copy_vars => CopyInv'
  BY CopyNextInv
<1> QED
  BY <1>1, <1>2, PTL DEF CopySpec

\* copy_single (volatile_memory.rs) is only called on addresses aligned to its
\* width, and on bytes of the two buffers.
THEOREM AccessesAligned == CopySpec => []AlignedAndInside
<1>1. ASSUME CopyInv
      PROVE  AlignedAndInside
  <2> SUFFICES ASSUME pc = "volatile", align >= width, left >= width
               PROVE  /\ src_addr % width = 0 /\ dst_addr % width = 0
                      /\ src_addr + width <= src + src_len
                      /\ dst_addr + width <= dst + dst_len
    BY DEF AlignedAndInside
  <2>1. TypeInv /\ VolatileInv
    BY <1>1 DEF CopyInv
  <2>2. /\ total \in Nat /\ total <= src_len /\ total <= dst_len
        /\ align \in Widths /\ width \in Widths
    BY <2>1, TotalIs, AlignIs DEF TypeInv
  <2>3. src % width = 0 /\ dst % width = 0
    BY <2>1, <2>2, AlignIs DEF Widths
  <2>4. copied \in Nat /\ copied + width <= total /\ copied % width = 0
    BY <2>1, <2>2 DEF copied, TypeInv, VolatileInv, Widths
  <2>5. src \in Nat /\ dst \in Nat /\ src_addr = src + copied /\ dst_addr = dst + copied
    BY <2>1 DEF TypeInv, VolatileInv
  <2>6. src_addr % width = 0 /\ dst_addr % width = 0
    BY <2>2, <2>3, <2>4, <2>5 DEF Widths
  <2>7. src_len \in Nat /\ dst_len \in Nat
    BY <2>1 DEF TypeInv
  <2> QED
    BY <2>2, <2>4, <2>5, <2>6, <2>7 DEF Widths
<1> QED
  BY <1>1, CopyInvariance, PTL

\* copy_slice (volatile_memory.rs) returns with every byte copied of the prefix
\* that both buffers have, on the volatile path and through memcpy.
THEOREM CopyComplete == CopySpec => []CopiesAll
<1>1. ASSUME CopyInv
      PROVE  CopiesAll
  <2> SUFFICES ASSUME pc = "done"
               PROVE  new = 0 .. total - 1
    BY DEF CopiesAll
  <2>1. CASE total <= Word
    <3>1. TypeInv /\ left = 0 /\ new = 0 .. copied - 1
      BY <1>1, <2>1 DEF CopyInv, VolatileInv
    <3>2. copied = total
      BY <3>1, TotalIs DEF copied, TypeInv
    <3> QED
      BY <3>1, <3>2
  <2>2. CASE ~ (total <= Word)
    BY <1>1, <2>2 DEF CopyInv
  <2> QED
    BY <2>1, <2>2
<1> QED
  BY <1>1, CopyInvariance, PTL

\* While copy_slice copies at most a word, an atomic load of a value inside it,
\* no wider than both buffers are aligned to, returns all of the old bytes or
\* all of the new ones.
THEOREM LoadsNotTorn == CopySpec => []NotTorn
<1>1. ASSUME CopyInv
      PROVE  NotTorn
  <2> SUFFICES ASSUME total <= Word, NEW w \in AtomicSizes, NEW i \in 0 .. total - w,
                      src % w = 0, dst % w = 0, (dst + i) % w = 0
               PROVE  load(i, w) \in {Value(i, w), {}}
    BY DEF NotTorn, atomic_ref_at
  <2>1. TypeInv /\ VolatileInv /\ WiderInv
    BY <1>1 DEF CopyInv
  <2>2. w \in Widths /\ w <= Word
    BY WordAssumption DEF AtomicSizes, Widths
  <2>3. w <= align
    BY <2>1, <2>2, AlignIs
  <2>4. total \in Nat /\ i \in Nat /\ i + w <= total
    BY <2>1, <2>2, TotalIs DEF TypeInv, Widths
  <2>5. i % w = 0
    BY <2>1, <2>2, <2>4 DEF TypeInv, Widths
  <2>6. copied \in Nat /\ width \in Widths /\ copied % width = 0 /\ new = 0 .. copied - 1
    BY <2>1, <2>4 DEF copied, TypeInv, VolatileInv
  <2>7. i + w <= copied \/ copied <= i
    <3>1. CASE width < w
      <4>1. total - (total % w) <= copied
        BY <2>1, <2>2, <2>3, <3>1 DEF WiderInv
      <4>2. i + w <= total - (total % w)
        BY <2>2, <2>4, <2>5 DEF Widths
      <4> QED
        BY <2>2, <2>4, <2>6, <4>1, <4>2 DEF Widths
    <3>2. CASE w <= width
      <4>1. copied % w = 0
        BY <2>2, <2>6, <3>2 DEF Widths
      <4> QED
        BY <2>2, <2>4, <2>5, <2>6, <4>1 DEF Widths
    <3> QED
      BY <2>2, <2>6, <3>1, <3>2 DEF Widths
  <2>8. CASE i + w <= copied
    <3>1. Value(i, w) \subseteq new
      BY <2>2, <2>4, <2>6, <2>8 DEF Value, Widths
    <3> QED
      BY <3>1 DEF load
  <2>9. CASE copied <= i
    <3>1. Value(i, w) \cap new = {}
      BY <2>2, <2>4, <2>6, <2>9 DEF Value, Widths
    <3> QED
      BY <3>1 DEF load
  <2> QED
    BY <2>7, <2>8, <2>9
<1> QED
  BY <1>1, CopyInvariance, PTL

\* What is left to do of a copy: bytes and widths on the volatile path, bytes in
\* memcpy, and the return.
Remaining ==
  IF pc = "done" THEN 0
  ELSE IF pc = "volatile" THEN 1 + left + width
  ELSE 1 + total - Cardinality(new)

\* Some step of copy_slice is left to take: the loop test decides which on the
\* volatile path, and memcpy has a byte to move.
Unfinished ==
  \/ pc = "volatile"
  \/ pc = "memcpy" /\ \E i \in 0 .. total - 1 : i \notin new

\* In the invariant there is a step to take until copy_slice returns, and the
\* number of steps left is bounded.
LEMMA RemainingIs ==
  ASSUME CopyInv
  PROVE  /\ Remaining \in Nat /\ (pc # "done" => Unfinished /\ Remaining > 0)
         /\ (pc = "memcpy" => IsFiniteSet(new) /\ Cardinality(new) \in 0 .. total - 1)
<1>1. TypeInv /\ total \in Nat /\ left \in Nat /\ width \in Nat \ {0}
  BY TotalIs DEF CopyInv, TypeInv, Widths
<1>2. CASE pc = "done"
  BY <1>2 DEF Remaining
<1>3. CASE pc = "volatile"
  BY <1>1, <1>3 DEF Remaining, Unfinished
<1>4. CASE pc = "memcpy"
  <2>1. new \subseteq 0 .. total - 1 /\ new # 0 .. total - 1
    BY <1>4 DEF CopyInv, MemcpyInv
  <2>2. IsFiniteSet(0 .. total - 1) /\ Cardinality(0 .. total - 1) = total
    BY <1>1, FS_Interval
  <2>3. IsFiniteSet(new) /\ Cardinality(new) <= total /\ Cardinality(new) # total
    BY <2>1, <2>2, FS_Subset
  <2>4. Cardinality(new) \in Nat
    BY <2>3, FS_CardinalityType
  <2>5. Cardinality(new) \in 0 .. total - 1
    BY <1>1, <2>3, <2>4
  <2>6. Unfinished
    BY <1>4, <2>1 DEF Unfinished
  <2> QED
    BY <1>1, <1>4, <2>3, <2>5, <2>6 DEF Remaining
<1> QED
  BY <1>1, <1>2, <1>3, <1>4 DEF TypeInv

\* copy_slice (volatile_memory.rs) cannot run for ever: every step of it leaves
\* less to do, down to the return, and before the return a step is left to take.
THEOREM CopyRunsOut ==
  CopySpec => /\ [](pc # "done" => Unfinished)
              /\ [][Remaining' \in Nat /\ Remaining' < Remaining]_copy_vars
<1>1. CopyInv => (pc # "done" => Unfinished)
  BY RemainingIs
<1>2. ASSUME CopyInv, (Remaining \in Nat)', [CopyNext]_copy_vars
      PROVE  [Remaining' \in Nat /\ Remaining' < Remaining]_copy_vars
  <2>1. Remaining \in Nat /\ Remaining' \in Nat
    BY <1>2, RemainingIs
  <2>2. TypeInv /\ total \in Nat /\ left \in Nat /\ width \in Widths
    BY <1>2, TotalIs DEF CopyInv, TypeInv
  <2>3. CASE CopySingle
    <3>1. pc = "volatile" /\ pc' = "volatile" /\ left' = left - width /\ width' = width
      BY <2>3 DEF CopySingle
    <3>2. Remaining = 1 + left + width /\ Remaining' = 1 + left' + width'
      BY <3>1 DEF Remaining
    <3>3. Remaining' < Remaining
      BY <2>2, <3>1, <3>2 DEF Widths
    <3> QED
      BY <2>1, <3>3
  <2>4. CASE Narrower
    <3>1. pc = "volatile" /\ left' = left
      BY <2>4 DEF Narrower
    <3>2. Remaining = 1 + left + width
      BY <3>1 DEF Remaining
    <3>3. CASE width = 1
      <4>1. Remaining' = 0
        BY <2>4, <3>3 DEF Narrower, Remaining
      <4>2. Remaining' < Remaining
        BY <2>2, <3>2, <3>3, <4>1
      <4> QED
        BY <2>1, <4>2
    <3>4. CASE width # 1
      <4>1. pc' = "volatile" /\ width' = width \div 2
        BY <2>4, <3>1, <3>4 DEF Narrower
      <4>2. Remaining' = 1 + left + (width \div 2)
        BY <3>1, <4>1 DEF Remaining
      <4>3. Remaining' < Remaining
        BY <2>2, <3>2, <3>4, <4>2 DEF Widths
      <4> QED
        BY <2>1, <4>3
    <3> QED
      BY <3>3, <3>4
  <2>5. CASE \E i \in 0 .. total - 1 : MemcpyByte(i)
    <3>1. PICK i \in 0 .. total - 1 : MemcpyByte(i)
      BY <2>5
    <3>2. pc = "memcpy" /\ i \notin new /\ new' = new \cup {i} /\ total' = total
      BY <3>1, SameBuffers DEF MemcpyByte
    <3>3. IsFiniteSet(new) /\ Cardinality(new) \in 0 .. total - 1
      BY <1>2, <3>2, RemainingIs
    <3>4. Cardinality(new') = Cardinality(new) + 1
      BY <3>2, <3>3, FS_AddElement
    <3>5. Remaining = 1 + total - Cardinality(new)
      BY <3>2 DEF Remaining
    <3>6. pc' \in {"memcpy", "done"}
      BY <3>1, <3>2 DEF MemcpyByte
    <3>7. Remaining' = 0 \/ Remaining' = 1 + total - (Cardinality(new) + 1)
      BY <3>2, <3>4, <3>6 DEF Remaining
    <3>8. Remaining' < Remaining
      BY <2>2, <3>3, <3>5, <3>7
    <3> QED
      BY <2>1, <3>8
  <2>6. CASE UNCHANGED copy_vars \/ Done
    BY <2>6 DEF Done
  <2> QED
    BY <1>2, <2>3, <2>4, <2>5, <2>6 DEF CopyNext
<1>3. CopyInv => Remaining \in Nat
  BY RemainingIs
<1> QED
  BY <1>1, <1>2, <1>3, CopyInvariance, PTL DEF CopySpec
=============================================================================
