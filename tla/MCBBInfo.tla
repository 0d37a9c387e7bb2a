------------------------------ MODULE MCBBInfo ------------------------------
(***************************************************************************)
(* BBInfo for TLC: two sections that are collected and one that is not.    *)
(***************************************************************************)
EXTENDS BBInfo

MCSecOrder == <<".text", ".text.unlikely", ".init">>
=============================================================================
