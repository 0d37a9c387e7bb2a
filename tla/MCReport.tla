------------------------------ MODULE MCReport ------------------------------
(***************************************************************************)
(* Report for TLC, with the statements of MCAsmXom.                        *)
(***************************************************************************)
EXTENDS MCAsmXom, Report

\* Labelled strings among labelled bytes.
Strings == {"label", "cons", "string", "plain"}
=============================================================================
