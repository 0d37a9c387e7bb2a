----------------------------- MODULE MCDataDump -----------------------------
(***************************************************************************)
(* DataDump for TLC.  The magic word is 7, a value no counter has.         *)
(***************************************************************************)
EXTENDS DataDump

\* An address like any other, and one that is the magic word.
LowHalves == {3, MAGIC}
=============================================================================
