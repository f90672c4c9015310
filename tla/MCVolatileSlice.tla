-------------------------- MODULE MCVolatileSlice --------------------------
(* A buffer of seven bytes at an address that is aligned to two only, and  *)
(* arguments on both sides of its size, of isize::MAX and of usize::MAX.   *)
EXTENDS VolatileSlice

MCNums == (0 .. 8) \cup {AddrSpace - 2, AddrSpace - 1}
=============================================================================
