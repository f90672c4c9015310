--------------------------- MODULE MCGuestMemory ---------------------------
(* GuestMemory on three small maps: two regions that touch in the guest    *)
(* and lie the other way round in the host, two regions with a hole        *)
(* between them, and one region that ends at the last usable address.      *)
EXTENDS GuestMemory

R(s, n, h) == [start |-> s, size |-> n, host |-> h]

MCLayouts == {<<R(2, 3, 8), R(5, 3, 2)>>,
              <<R(1, 3, 0), R(6, 2, 6)>>,
              <<R(8, 3, 4)>>}

MCAddrs  == {0, 1, 2, 3, 4, 5, 7, 8, 10, 11}
MCCounts == {0, 1, 2, 4, 6, 7}

MCStreamKinds == StreamIn \cup StreamOut
MCKinds       == MCStreamKinds \cup {"check_range"} \cup Writes \cup Reads \cup RegionKinds
MCWrite       == {"write"}
MCReadFrom    == {"read_exact_from"}
=============================================================================
