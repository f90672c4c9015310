------------------------- MODULE MCGuestMemoryMmap -------------------------
(* GuestMemoryMmap on a six-address guest: every base, sizes 0 to 3.       *)
EXTENDS GuestMemoryMmap

MCBases    == 0 .. 5
MCSizes    == 0 .. 3
MCRawSizes == {2}
MCZeroSize == {0, 2}
=============================================================================
