-------------------------- MODULE RawValueAlgebra --------------------------
(***************************************************************************)
(* Alignment, bits and bytes (modules Address and RawValue) against their  *)
(* meaning over the integers, for every pair of raw values.                *)
(***************************************************************************)
EXTENDS AddressAlgebra, RawValue

\* checked_align_up (address.rs) rounds up to the least multiple, gives None
\* exactly when that multiple is no address, and panics exactly for what is no
\* power of two; unchecked_align_up agrees whenever there is a result.  The
\* lowest bits, up to that power, and the rest of them are what mask, & and |
\* take an address apart into and put together again, which is what the two
\* arithmetic definitions in module Address stand for.
AlignUpExact ==
  LET aligned   == checked_align_up(addr, other)
      Multiples == {m \in addr .. 2 * AddrSpace : m % other = 0}
      least     == CHOOSE m \in Multiples : \A n \in Multiples : m <= n
  IN  IF other \notin {Power(2)[k] : k \in 0 .. Bits - 1}
      THEN aligned = Panic /\ (other # 0 => bitand(other, other - 1) # 0)
      ELSE LET low  == mask(addr, other - 1)
               high == bitand(addr, complement(other - 1))
           IN  /\ bitand(other, other - 1) = 0 /\ high = ClearLow(addr, other)
               /\ low < other /\ high % other = 0 /\ low + high = addr
               /\ bitor(high, low) = addr
               /\ high + (IF low = 0 THEN 0 ELSE other) = least
               /\ IF least \notin Raw THEN aligned = None
                  ELSE aligned = least /\ unchecked_align_up(addr, other) = least

\* A value of an endian type (endian.rs) that one host writes as an object
\* (bytes.rs) anywhere in memory has its bytes in the order of the type, and
\* another host that reads it gets the same number out of it, whatever the byte
\* orders of the two hosts; both == operators compare the number, not the
\* bytes.
EndianExact ==
  \A order, writer, reader \in Orders, at \in 0 .. 2 :
    LET x      == from(order, writer, addr)
        memory == write_obj(writer, [i \in 1 .. ValueSize + 2 |-> 0], at, x)
        bytes  == SubSeq(memory, at + 1, at + ValueSize)
        weight(i) == Power(ByteSpace)[IF order = "little" THEN i - 1 ELSE ValueSize - i]
    IN  /\ \A i \in 1 .. ValueSize : bytes[i] = (addr \div weight(i)) % ByteSpace
        /\ to_native(order, reader, read_obj(reader, bytes)) = addr
        /\ eq_native(order, writer, x, other) <=> addr = other
        /\ eq_new(order, writer, other, x) <=> addr = other
=============================================================================
