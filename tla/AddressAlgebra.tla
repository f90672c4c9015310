--------------------------- MODULE AddressAlgebra ---------------------------
(***************************************************************************)
(* The arithmetic of module Address against its meaning over the integers, *)
(* for every pair of raw values.                                           *)
(***************************************************************************)
EXTENDS Address

VARIABLES addr, other

vars == <<addr, other>>

Init == addr \in Raw /\ other = default

\* The caller computes with the next operand.
Next == other' = (other + 1) % AddrSpace /\ UNCHANGED addr

Spec == Init /\ [][Next]_vars

\* The checked, overflowing and plain operations (address.rs) agree: the flag
\* is set exactly when the checked one gives None, which is when the integer
\* result is no address, and adding back what was taken away gives addr again,
\* also across the wrap.
ArithmeticAgrees ==
  LET sum  == overflowing_add(addr, other)
      diff == overflowing_sub(addr, other)
  IN  /\ sum.overflow <=> addr + other \notin Raw
      /\ diff.overflow <=> addr - other \notin Raw
      /\ checked_add(addr, other) = IF sum.overflow THEN None ELSE sum.value
      /\ checked_sub(addr, other) = IF diff.overflow THEN None ELSE diff.value
      /\ checked_offset_from(addr, other) = checked_sub(addr, other)
      /\ ~ sum.overflow => unchecked_add(addr, other) = sum.value
      /\ ~ diff.overflow => /\ unchecked_sub(addr, other) = diff.value
                            /\ unchecked_offset_from(addr, other) = diff.value
      /\ overflowing_add(diff.value, other).value = addr
=============================================================================
