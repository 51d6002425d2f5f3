--------------------------- MODULE MCFuReassembly ----------------------------
(***************************************************************************)
(* Small instances of FuReassembly for TLC.                                *)
(***************************************************************************)
EXTENDS FuReassembly, TLC
=============================================================================
