----------------------------- MODULE MCCaPmtPacer -----------------------------
(* CaPmtPacer with two programs; used by CaPmtPacer.cfg. *)
EXTENDS CaPmtPacer, TLC

CONSTANTS p1, p2, v1, v2

\* Sets and removes of two programs meet in the queue.
TwoPrograms == {p1, p2}

\* A re-selection with a changed program map section.
TwoVersions == {v1, v2}

\* Zero, one that gates a pass, and Duration::MAX.
FewIntervals == {0, 1, Overflow}
=============================================================================
