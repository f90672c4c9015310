--------------------------- MODULE MCMmapRegion ---------------------------
(* Pages of two bytes, the first of them mapped by somebody else.  File    *)
(* offsets and sizes reach up to and beyond the largest offset.            *)
EXTENDS MmapRegionWindows, TLC

CONSTANTS a, b, f, g, x, y

MCIds == {a, b}
MCFds == {f, g}
MCFiles == {x, y}
MCExternal == {0}
MCFileLens == {3, 7}
MCUnstatable == {y}
MCOffsets == {0, 2, 6}
MCSizes == {0, 1, 2, 4}

Symmetry == Permutations(MCIds)
=============================================================================
