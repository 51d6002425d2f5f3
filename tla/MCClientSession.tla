-------------------------- MODULE MCClientSession ----------------------------
(***************************************************************************)
(* Small instances of ClientSession for TLC: neither the tasks nor the     *)
(* domains are distinguished.                                              *)
(***************************************************************************)
EXTENDS ClientSession, TLC

Symmetry == Permutations(Tasks) \cup Permutations(Domains)
=============================================================================
