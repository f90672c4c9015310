------------------------------ MODULE RawValue ------------------------------
(***************************************************************************)
(* The bits and the bytes of a raw value.  Bits: the operators &, | and    *)
(* mask of an address (src/src/address.rs).  Bytes: how an integer lies in *)
(* memory, where write_obj puts it and read_obj finds it (src/src/         *)
(* bytes.rs), and the types of src/src/endian.rs, whose values lie there   *)
(* the same way whatever the byte order of the host.                       *)
(***************************************************************************)
EXTENDS Address, Sequences

CONSTANTS
  Bits,       \* bits of a raw value, 64 in the code
  ByteSpace,  \* number of values of a byte, 256 in the code
  ValueSize   \* size_of the integer type, in bytes

\* Power(b)[n] is b to the power of n.
Power(b) == LET power[n \in Nat] == IF n = 0 THEN 1 ELSE b * power[n - 1] IN power

\* The i-th digit of x in base b, the lowest one being digit 0.
digit(b, x, i) == (x \div Power(b)[i]) % b

ASSUME BitsAssumption == Bits \in Nat /\ AddrSpace = Power(2)[Bits]
ASSUME ByteAssumption ==
  /\ ByteSpace \in Nat \ {0, 1} /\ ValueSize \in Nat \ {0}
  /\ AddrSpace = Power(ByteSpace)[ValueSize]

Orders == {"little", "big"}

----------------------------------------------------------------------------
(* Bits                                                                    *)

bit(x, i) == digit(2, x, i) = 1

bitand(addr, other) ==
  CHOOSE v \in Raw : \A i \in 0 .. Bits - 1 : bit(v, i) <=> bit(addr, i) /\ bit(other, i)

bitor(addr, other) ==
  CHOOSE v \in Raw : \A i \in 0 .. Bits - 1 : bit(v, i) <=> bit(addr, i) \/ bit(other, i)

mask(addr, m) == bitand(addr, m)

\* The complement of a value, all of its bits flipped.
complement(x) == AddrSpace - 1 - x

----------------------------------------------------------------------------
(* Bytes                                                                   *)

\* The bytes of a native integer v in the memory of a host.
as_slice(host, v) ==
  [i \in 1 .. ValueSize |->
     digit(ByteSpace, v, IF host = "little" THEN i - 1 ELSE ValueSize - i)]

\* What read_obj finds: the native integer with those bytes.
read_obj(host, bytes) == CHOOSE v \in Raw : as_slice(host, v) = bytes

\* The memory of a host, of ValueSize bytes or more, after write_obj at offset addr.
write_obj(host, memory, addr, v) ==
  LET bytes == as_slice(host, v)
  IN  [i \in DOMAIN memory |-> IF i - addr \in 1 .. ValueSize THEN bytes[i - addr] ELSE memory[i]]

swap_bytes(v) == read_obj("big", as_slice("little", v))

\* to_le and to_be, and from_le and from_be: bytes are swapped where the host's
\* order is another.
to_new(order, host, v)   == IF order = host THEN v ELSE swap_bytes(v)
from_new(order, host, x) == IF order = host THEN x ELSE swap_bytes(x)

\* Mutation of from: the value is wrapped as it is.
from_unconverted(order, host, v) == v

\* From<old_type> for new_type; the value wrapped is a native integer.
from(order, host, v) == to_new(order, host, v)

\* to_native, and Into<old_type>.
to_native(order, host, x) == from_new(order, host, x)

\* x == v, for a value x of the new type and a native one; and v == x.
eq_native(order, host, x, v) == x = to_new(order, host, v)
eq_new(order, host, v, x)    == to_new(order, host, x) = v
=============================================================================
