------------------------------ MODULE MCMpkXom ------------------------------
(***************************************************************************)
(* MpkXom for TLC: pages of two bytes, and header tables that put the      *)
(* bounds of segments on, before and behind those of pages.                *)
(***************************************************************************)
EXTENDS MpkXom

Seg(flags, lo, memsz) ==
  [load |-> TRUE, flags |-> flags, lo |-> lo, memsz |-> memsz]

RX == {"r", "x"}
RW == {"r", "w"}

\* Code that begins in the middle of page 0 and ends in the middle of page 1.
Straddling == <<Seg(RW, 4, 1), Seg(RX, 1, 2)>>

\* Code that fills page 1 exactly, with writable code, and data behind it.
Aligned == <<Seg(RX \cup RW, 2, 2), Seg(RW, 4, 2)>>

\* Two pieces of code, an executable segment without bytes where the data
\* is, and a header that is no segment (PT_GNU_STACK).
TwoPieces ==
  <<Seg(RX, 0, 1), Seg(RW, 4, 2), Seg(RX, 5, 0), Seg(RX, 3, 1),
    [load |-> FALSE, flags |-> RW \cup RX, lo |-> 0, memsz |-> 0]>>

\* No code at all.
NoCode == <<Seg(RW, 2, 1)>>

MCPrograms  == {Straddling, Aligned, TwoPieces, NoCode}
MCLibraries == {<<Seg(RX, 7, 1)>>}
=============================================================================
