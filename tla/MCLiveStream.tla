---------------------------- MODULE MCLiveStream -----------------------------
(***************************************************************************)
(* Small instances of LiveStream for TLC.                                  *)
(***************************************************************************)
EXTENDS LiveStream, TLC

\* Generators are interchangeable, and so are ports (safety runs only).
Symmetry == Permutations(Streams) \cup Permutations(Ports)
=============================================================================
