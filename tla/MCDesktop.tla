----------------------------- MODULE MCDesktop -----------------------------
EXTENDS Desktop

(* Neither the addresses nor the rectangles are told apart.                *)
DesktopSymmetry == Permutations(Addr) \cup Permutations(Geoms)
=============================================================================
