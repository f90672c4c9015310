--------------------------- MODULE VolatileSlice ---------------------------
(***************************************************************************)
(* Views of raw memory and the bounds checks that keep them inside it      *)
(* (src/src/volatile_memory.rs): VolatileSlice, VolatileRef and            *)
(* VolatileArrayRef, derived from each other by any sequence of calls, and *)
(* the accesses made through them.  The first view is taken of a byte      *)
(* slice, of an MmapRegion or of an object of a ByteValued type            *)
(* (src/src/mmap_unix.rs, src/src/bytes.rs).                               *)
(*                                                                         *)
(* A view is a record [kind, addr, nelem, elem]; its memory is nelem       *)
(* elements of elem bytes from addr on.  A raw value is a usize here, and  *)
(* AddrSpace the number of them.  What an access moves is left out: it     *)
(* counts which bytes it touches.                                          *)
(***************************************************************************)
EXTENDS Address

CONSTANTS
  Base, Size,   \* the memory the first view was taken of
  ElemSizes,    \* sizes of the types T the caller uses
  Nums          \* offsets, counts and lengths the caller passes

ASSUME BufferAssumption ==
  Base \in Nat \ {0} /\ Size \in Nat /\ Base + Size < AddrSpace /\ Size < AddrSpace \div 2
ASSUME ArgsAssumption == Nums \subseteq Raw /\ ElemSizes \subseteq Nat \ {0}

VARIABLES
  view,      \* the view the caller works with
  call,      \* the call that has just been made, or NoCall
  out,       \* what it returned
  touched    \* the bytes it read or wrote

vars == <<view, call, out, touched>>

Slice(addr, size)        == [kind |-> "slice", addr |-> addr, nelem |-> size, elem |-> 1]
Ref(addr, elem)          == [kind |-> "ref", addr |-> addr, nelem |-> 1, elem |-> elem]
ArrayRef(addr, n, elem)  == [kind |-> "array", addr |-> addr, nelem |-> n, elem |-> elem]

\* &[u8] and &mut [u8], and an MmapRegion.
Bytes(addr, size)        == [kind |-> "bytes", addr |-> addr, nelem |-> size, elem |-> 1]
Mapping(addr, size)      == [kind |-> "mapping", addr |-> addr, nelem |-> size, elem |-> 1]

SizeOf(v)  == v.nelem * v.elem
BytesOf(v) == v.addr .. v.addr + SizeOf(v) - 1

min(a, b) == IF a <= b THEN a ELSE b

ISIZE_MAX == (AddrSpace \div 2) - 1

----------------------------------------------------------------------------
(* Deriving a view from a view                                             *)

\* Mutation of compute_offset: wrapping_add for checked_add.
compute_offset_wrapping(base, offset) == Ok((base + offset) % AddrSpace)

compute_offset(base, offset) ==
  IF checked_add(base, offset) = None THEN Err("Overflow") ELSE Ok(base + offset)

\* Mutation of compute_end_offset: >= for >.
compute_end_offset_strict(v, base, offset) ==
  LET end == compute_offset(base, offset)
  IN  IF end.tag = "Ok" /\ end.val >= v.nelem THEN Err("OutOfBounds") ELSE end

compute_end_offset(v, base, offset) ==
  LET end == compute_offset(base, offset)
  IN  IF end.tag = "Ok" /\ end.val > v.nelem THEN Err("OutOfBounds") ELSE end

\* The bounds check of MmapRegion::get_slice.
mapping_end_offset(v, offset, count) ==
  LET end == compute_offset(offset, count)
  IN  IF end.tag = "Ok" /\ end.val > v.nelem THEN Err("OutOfBounds") ELSE end

\* get_slice of VolatileSlice, &mut [u8] and MmapRegion; subslice is the same.
get_slice(v, offset, count) ==
  LET end == IF v.kind = "mapping" THEN mapping_end_offset(v, offset, count)
             ELSE compute_end_offset(v, offset, count)
  IN  IF end.tag = "Err" THEN end ELSE Ok(Slice(plain(v.addr + offset), count))

\* get_slice(0, len()).unwrap()
as_volatile_slice(v) ==
  LET slice == get_slice(v, 0, v.nelem)
  IN  IF slice.tag = "Err" THEN Err("Panic") ELSE slice

\* Mutation of offset_by: the size is not checked.
offset_by_unchecked(v, count) ==
  IF checked_add(v.addr, count) = None THEN Err("Overflow")
  ELSE Ok(Slice(v.addr + count, v.nelem - count))

offset_by(v, count) ==
  IF checked_add(v.addr, count) = None THEN Err("Overflow")
  ELSE IF checked_sub(v.nelem, count) = None THEN Err("OutOfBounds")
  ELSE Ok(Slice(v.addr + count, v.nelem - count))

\* split_at: both parts.
split_at(v, mid) ==
  LET end == offset_by(v, mid)
  IN  IF end.tag = "Err" THEN {end} ELSE {end, Ok(Slice(v.addr, mid))}

get_ref(v, offset, elem) ==
  LET slice == get_slice(v, offset, elem)
  IN  IF slice.tag = "Err" THEN slice ELSE Ok(Ref(slice.val.addr, elem))

\* The element count and the byte count must both fit an isize.
get_array_ref(v, offset, n, elem) ==
  IF n > ISIZE_MAX \/ n * elem > ISIZE_MAX THEN Err("TooBig")
  ELSE LET slice == get_slice(v, offset, n * elem)
       IN  IF slice.tag = "Err" THEN slice ELSE Ok(ArrayRef(slice.val.addr, n, elem))

\* addr & (alignment - 1), for an alignment that is a power of two.
check_alignment(v, align_to) == v.addr % align_to = 0

\* get_atomic_ref, aligned_as_ref and aligned_as_mut.
get_atomic_ref(v, offset, elem) ==
  LET slice == get_slice(v, offset, elem)
  IN  IF slice.tag = "Err" THEN slice
      ELSE IF ~ check_alignment(slice.val, elem) THEN Err("Misaligned")
      ELSE Ok(Ref(slice.val.addr, elem))

\* ref_at asserts its index.
ref_at(v, index) ==
  IF index >= v.nelem THEN Err("Panic") ELSE Ok(Ref(v.addr + v.elem * index, v.elem))

to_slice(v) == Ok(Slice(v.addr, SizeOf(v)))

\* From<VolatileSlice> for VolatileArrayRef<u8>.
array_from(v) == Ok(ArrayRef(v.addr, v.nelem, 1))

\* An object of elem bytes at addr, as bytes: as_slice and as_mut_slice, and
\* as_bytes.
as_slice(addr, elem) == Bytes(addr, elem)
as_bytes(addr, elem) == Slice(addr, elem)

\* ByteValued::from_slice and from_mut_slice: the bytes as an object of exactly
\* their size, when align_to finds it aligned.
from_slice(v, elem) ==
  IF v.nelem # elem \/ v.addr % elem # 0 THEN Err("None") ELSE Ok(Ref(v.addr, elem))

----------------------------------------------------------------------------
(* Accesses: a result and the bytes touched                                *)

Access(res, from, n) == [res |-> res, bytes |-> from .. from + n - 1]

\* Mutation of copy_bytes: the length of the buffer only.
copy_bytes_all(v, addr, len) ==
  IF addr >= v.nelem THEN Access(Err("OutOfBounds"), v.addr, 0)
  ELSE Access(Ok(len), v.addr + addr, len)

\* write and read: as much of a buffer of len bytes as fits behind addr.
copy_bytes(v, addr, len) ==
  IF addr >= v.nelem THEN Access(Err("OutOfBounds"), v.addr, 0)
  ELSE LET n == min(len, v.nelem - addr) IN Access(Ok(n), v.addr + addr, n)

\* write_slice and read_slice.
copy_all_bytes(v, addr, len) ==
  LET a == copy_bytes(v, addr, len)
  IN  IF a.res.tag = "Ok" /\ a.res.val # len
      THEN [a EXCEPT !.res = Err("PartialBuffer")] ELSE a

\* write_obj and read_obj: all bytes of one object.
copy_obj(v, addr, elem) ==
  LET a == copy_all_bytes(v, addr, elem)
  IN  IF a.res.tag = "Ok" THEN [a EXCEPT !.res = Ok(1)] ELSE a

\* read_from and write_to: one call of the stream, which may be short or fail.
stream(v, addr, count) ==
  LET end == compute_end_offset(v, addr, count)
  IN  IF end.tag = "Err" THEN {Access(end, v.addr, 0)}
      ELSE {Access(Ok(n), v.addr + addr, n) : n \in 0 .. end.val - addr}
             \cup {Access(Err("IOError"), v.addr, 0)}

\* read_exact_from and write_all_to: all of it, or an error on the way.
stream_all(v, addr, count) ==
  LET end == compute_end_offset(v, addr, count)
  IN  IF end.tag = "Err" THEN {Access(end, v.addr, 0)}
      ELSE {Access(Ok(count), v.addr + addr, count)}
             \cup {Access(Err("IOError"), v.addr + addr, n) : n \in 0 .. count}

\* store and load through an atomic reference.
atomic(v, addr, elem) ==
  LET r == get_atomic_ref(v, addr, elem)
  IN  IF r.tag = "Err" THEN Access(r, v.addr, 0) ELSE Access(Ok(elem), r.val.addr, elem)

\* Mutation of copy_elems: the pointer moves by one byte per element.
copy_elems_by_byte(v, len) ==
  LET n == min(len, v.nelem) IN Access(Ok(n), v.addr, n)

\* copy_to and copy_from of an array: element by element, as many as both have.
copy_elems(v, len) ==
  LET n == min(len, v.nelem) IN Access(Ok(n), v.addr, n * v.elem)

\* copy_to and copy_from of a slice, with a buffer of len elements.
copy_typed(v, len, elem) ==
  IF elem = 1 THEN copy_elems(v, len)
  ELSE LET a == get_array_ref(v, 0, v.nelem \div elem, elem)
       IN  IF a.tag = "Err" THEN Access(Err("Panic"), v.addr, 0) ELSE copy_elems(a.val, len)

\* copy_to_volatile_slice, to a slice of len bytes.
copy_to_slice(v, len) == Access(Ok(min(SizeOf(v), len)), v.addr, min(SizeOf(v), len))

----------------------------------------------------------------------------
(* The caller                                                              *)

NoCall == [op |-> "none", a |-> 0, b |-> 0, elem |-> 1]

\* The views there are to start with: of the whole memory, of any bytes of it,
\* and of any object in it.
Roots ==
  {Slice(Base, Size), Mapping(Base, Size)}
    \cup {Bytes(Base + a, n) : a \in 0 .. Size, n \in 0 .. Size}
    \cup {as_slice(Base + a, e) : a \in 0 .. Size, e \in ElemSizes}
    \cup {as_bytes(Base + a, e) : a \in 0 .. Size, e \in ElemSizes}

Init ==
  /\ view \in {v \in Roots : v.addr + v.nelem <= Base + Size}
  /\ call = NoCall /\ out = Ok(0) /\ touched = {}

Called(op, a, b, elem) ==
  call = NoCall /\ call' = [op |-> op, a |-> a, b |-> b, elem |-> elem]

\* The caller has taken the result and is ready for the next call.
Return ==
  /\ call # NoCall /\ call' = NoCall /\ out' = Ok(0) /\ touched' = {}
  /\ UNCHANGED view

derive(r) ==
  /\ out' = IF r.tag = "Ok" THEN Ok(0) ELSE r
  /\ view' = IF r.tag = "Ok" THEN r.val ELSE view
  /\ touched' = {}

access(a) == out' = a.res /\ touched' = a.bytes /\ UNCHANGED view

\* The provided methods of VolatileMemory.
MemoryDerive ==
  /\ view.kind \in {"slice", "bytes", "mapping"}
  /\ \E a, b \in Nums, e \in ElemSizes :
       \/ Called("get_slice", a, b, 1) /\ derive(get_slice(view, a, b))
       \/ Called("as_volatile_slice", 0, view.nelem, 1) /\ derive(as_volatile_slice(view))
       \/ Called("get_ref", a, 1, e) /\ derive(get_ref(view, a, e))
       \/ Called("get_array_ref", a, b, e) /\ derive(get_array_ref(view, a, b, e))
       \/ Called("get_atomic_ref", a, 1, e) /\ derive(get_atomic_ref(view, a, e))

SliceDerive ==
  /\ view.kind = "slice"
  /\ \E a \in Nums :
       \/ Called("offset", a, view.nelem - a, 1) /\ derive(offset_by(view, a))
       \/ Called("split_at", a, 0, 1) /\ \E r \in split_at(view, a) : derive(r)
       \/ Called("array_from", 0, view.nelem, 1) /\ derive(array_from(view))

FromSlice(e) ==
  /\ view.kind = "bytes"
  /\ Called("from_slice", 0, 1, e) /\ derive(from_slice(view, e))

ToSlice ==
  /\ view.kind \in {"ref", "array"}
  /\ Called("to_slice", 0, view.nelem, view.elem) /\ derive(to_slice(view))

RefAt(index) ==
  /\ view.kind = "array"
  /\ Called("ref_at", index * view.elem, 1, view.elem) /\ derive(ref_at(view, index))

SliceAccess ==
  /\ view.kind = "slice"
  /\ \E a, b \in Nums, e \in ElemSizes :
       \/ Called("copy", a, b, 1) /\ access(copy_bytes(view, a, b))
       \/ Called("copy_all", a, b, 1) /\ access(copy_all_bytes(view, a, b))
       \/ Called("obj", a, 1, e) /\ access(copy_obj(view, a, e))
       \/ Called("stream", a, b, 1) /\ \E s \in stream(view, a, b) : access(s)
       \/ Called("stream_all", a, b, 1) /\ \E s \in stream_all(view, a, b) : access(s)
       \/ Called("atomic", a, 1, e) /\ access(atomic(view, a, e))
       \/ Called("copy_typed", 0, b, e) /\ access(copy_typed(view, b, e))

ArrayAccess(len) ==
  /\ view.kind = "array"
  /\ Called("copy_elems", 0, len, view.elem) /\ access(copy_elems(view, len))

CopyToSlice(len) ==
  /\ view.kind \in {"slice", "array"}
  /\ Called("copy_to_slice", 0, len, 1) /\ access(copy_to_slice(view, len))

RefAccess ==
  /\ view.kind = "ref"
  /\ Called("ref", 0, 1, view.elem) /\ access(Access(Ok(1), view.addr, view.elem))

Next ==
  \/ MemoryDerive \/ SliceDerive \/ SliceAccess \/ ToSlice \/ RefAccess \/ Return
  \/ \E e \in ElemSizes : FromSlice(e)
  \/ \E n \in Nums : RefAt(n) \/ ArrayAccess(n) \/ CopyToSlice(n)

Spec == Init /\ [][Next]_vars

----------------------------------------------------------------------------
(* Properties                                                              *)

TypeOK ==
  /\ view \in [kind : {"slice", "ref", "array", "bytes", "mapping"},
               addr : Raw, nelem : Raw, elem : ElemSizes \cup {1}]
  /\ touched \subseteq Raw

\* However a view was derived (volatile_memory.rs), its memory lies in the
\* memory that the first one was taken of; the sums and products made on the way
\* never leave the range of usize.
InsideBuffer == Base <= view.addr /\ view.addr + SizeOf(view) <= Base + Size

\* No access through a view (volatile_memory.rs) touches a byte outside the
\* memory of the view, whatever offset and length it is called with.
AccessInside == touched \subseteq BytesOf(view)

\* A view of b elements at byte offset a is derived exactly when those bytes
\* are in the view and its type's alignment, where asked for, is met; it then
\* starts at that byte and has that size (volatile_memory.rs: get_slice,
\* subslice, as_volatile_slice, offset, get_ref, get_array_ref, get_atomic_ref,
\* ref_at, to_slice; mmap_unix.rs: get_slice).  An object is seen in bytes
\* exactly when they are aligned and neither fewer nor more than its size
\* (bytes.rs: from_slice, from_mut_slice).
DeriveExact ==
  [][LET c    == call'
         fits == c.b >= 0 /\ c.a + c.b * c.elem <= SizeOf(view)
         met  == /\ c.op \in {"get_atomic_ref", "from_slice"} => (view.addr + c.a) % c.elem = 0
                 /\ c.op = "from_slice" => c.elem = SizeOf(view)
     IN  c.op \in {"get_slice", "as_volatile_slice", "offset", "get_ref", "get_array_ref",
                   "get_atomic_ref", "ref_at", "to_slice", "array_from", "from_slice"}
           => /\ out'.tag = "Ok" <=> fits /\ met
              /\ out'.tag = "Ok" => /\ view'.addr = view.addr + c.a
                                    /\ SizeOf(view') = c.b * c.elem]_vars

\* The bytes an access reports are the ones it touched, from the offset asked
\* for on, and a copy is short only at the end of the view (volatile_memory.rs:
\* write, read, copy_to, copy_from and the stream operations; bytes.rs:
\* write_obj, read_obj).
AccessExact ==
  [][LET c    == call'
         room == SizeOf(view) - c.a
         n    == out'.val * c.elem
     IN  c.op \in {"copy", "copy_all", "obj", "stream", "stream_all", "copy_typed", "copy_elems",
                   "copy_to_slice"} /\ out'.tag = "Ok"
           => /\ touched' = view.addr + c.a .. view.addr + c.a + n - 1
              /\ c.op # "stream" => out'.val = c.b \/ room - n < c.elem]_vars
=============================================================================
