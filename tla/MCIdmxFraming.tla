--------------------------- MODULE MCIdmxFraming -----------------------------
(***************************************************************************)
(* Small instances of IdmxFraming for TLC.                                 *)
(***************************************************************************)
EXTENDS IdmxFraming
=============================================================================
