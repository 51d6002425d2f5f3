----------------------------- MODULE MCDownload ------------------------------
(***************************************************************************)
(* Small instances of Download for TLC.                                    *)
(***************************************************************************)
EXTENDS Download
=============================================================================
