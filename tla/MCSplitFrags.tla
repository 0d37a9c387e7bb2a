---------------------------- MODULE MCSplitFrags ----------------------------
(***************************************************************************)
(* SplitFrags for TLC.                                                     *)
(***************************************************************************)
EXTENDS SplitFrags
=============================================================================
