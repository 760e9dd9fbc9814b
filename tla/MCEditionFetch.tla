--------------------------- MODULE MCEditionFetch ---------------------------
(* EditionFetch with small files, for TLC. *)
EXTENDS EditionFetch

CONSTANTS pinned, longer

TwoVersions == {pinned, longer}
TightAndAmple == {5, 9}
Lengths == [v \in Versions |-> IF v = pinned THEN 2 ELSE 3]
=============================================================================
