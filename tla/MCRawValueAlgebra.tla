------------------------- MODULE MCRawValueAlgebra -------------------------
(* Raw values of six bits, which are three bytes of four values each.  The *)
(* operators on bits are compared with those of the community modules.     *)
EXTENDS RawValueAlgebra, Bitwise

ASSUME BitwiseAgrees ==
  \A x, y \in Raw : bitand(x, y) = x & y /\ bitor(x, y) = x | y
=============================================================================
