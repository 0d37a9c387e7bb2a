----------------------------- MODULE MCAsmXom ------------------------------
(***************************************************************************)
(* AsmXom for TLC: the sets of statements the runs let a source file use.  *)
(***************************************************************************)
EXTENDS AsmXom, TLC

\* Data, instructions, labels and alignment outside functions.
Mixed == {"label", "cons", "string", "space", "plain", "branch",
          "aligncode", "alignfill"}

\* Functions around data, references to symbols from code and data, reserved
\* bytes, and a second section.
Whole == {"label", "numlabel", "cons", "consref", "space", "plain", "call",
          "mem", "lea", "aligncode", "type", "size", "section"}

\* The least that brings labels, data, code and alignment together.
Growing == {"label", "cons", "plain", "aligncode"}

\* `.align 1' among instructions and labelled data.
AlignOne == {"align0", "plain", "label", "cons"}

\* The names of the symbols do not matter.
Symmetry == Permutations(Syms)
=============================================================================
