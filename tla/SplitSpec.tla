----------------------------- MODULE SplitSpec -----------------------------
(***************************************************************************)
(* What split_text_frags promises of the two chains, without pointers: the *)
(* data frags of .text, each with the alignment frag right before it, go   *)
(* to the end of .xom_data in one step; both sections keep their order and *)
(* no frag is lost or doubled.                                             *)
(***************************************************************************)
EXTENDS Naturals, Sequences

CONSTANT TAIL  \* the empty frag that may close .xom_data

VARIABLES
  text, xom,  \* the frags of the two sections, in order
  data,       \* frags that are embedded data
  align,      \* alignment frags
  ends_align, \* frags whose variable part is a code alignment
  split       \* the step has been made

vars == <<text, xom, data, align, ends_align, split>>

\* The place k of .text holds data, or the alignment of the data at k + 1.
Moves(k) ==
  \/ text[k] \in data
  \/ text[k] \in align /\ k < Len(text) /\ text[k + 1] \in data

\* The frags of .text at the places of S, in order.
At(S) ==
  LET pick[k \in 0 .. Len(text)] ==
        IF k = 0 THEN <<>>
        ELSE IF k \in S THEN Append(pick[k - 1], text[k]) ELSE pick[k - 1]
  IN  pick[Len(text)]

\* A section that would end in an alignment frag gets an empty frag behind it.
Closed(chain) ==
  IF chain # <<>> /\ chain[Len(chain)] \in ends_align
  THEN Append(chain, TAIL) ELSE chain

Init ==
  /\ split = FALSE
  /\ text # <<>>

SplitAll ==
  LET places == {k \in 1 .. Len(text) : Moves(k)}
  IN  /\ ~split
      /\ split' = TRUE
      /\ text' = At((1 .. Len(text)) \ places)
      /\ xom' = Closed(xom \o At(places))
      /\ UNCHANGED <<data, align, ends_align>>

Spec == Init /\ [][SplitAll]_vars /\ WF_vars(SplitAll)
=============================================================================
