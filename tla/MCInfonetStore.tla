--------------------------- MODULE MCInfonetStore ---------------------------
(***************************************************************************)
(* Instances of InfonetStore for TLC: authors and threads.                 *)
(***************************************************************************)
EXTENDS InfonetStore, TLC

CONSTANTS ana, luis, loop, sync

\* Writers are alike.
ThreadsAlike == Permutations(Writers)

\* Nothing is claimed of a chain that a race has touched.
Orderly == ~overlapped
=============================================================================
