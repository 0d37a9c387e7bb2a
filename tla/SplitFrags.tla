----------------------------- MODULE SplitFrags -----------------------------
(***************************************************************************)
(* The loop of split_text_frags over the linked list of the frags of       *)
(* .text, pointer by pointer: fr_next, the roots and ends of the two       *)
(* chains, prev_frag and curr_frag.  One action is one pass of the loop.   *)
(*                                                                         *)
(* Frags 1 .. N are the chain of .text that subsegs_finish left: N is the  *)
(* empty frag at its end and N - 1 the one closed by the last alignment.   *)
(* Frags N + 1 .. N + XLen are the chain of .xom_data, which gas_init made *)
(* and subsegs_finish closed, and TAIL is the frag that may be allocated   *)
(* for it at the end.                                                      *)
(***************************************************************************)
EXTENDS Naturals, Sequences, Functions

CONSTANTS
  N,     \* frags of .text
  XLen,  \* frags of .xom_data before the split
  NULL   \* the null pointer

TAIL  == N + XLen + 1
Frags == 1 .. TAIL

ASSUME SizesOK == N \in Nat /\ N > 1 /\ XLen \in Nat /\ XLen > 0
ASSUME NullOK  == NULL \notin Frags

\* A frag by the first of the tests of the loop that it meets: align_frag,
\* insn_frag, fr_fix = 0, S_IS_CF_SYMBOL (frag_symbol), none of them.
Kinds == {"align", "insn", "empty", "target", "data"}

VARIABLES
  kind,        \* what the reading pass left on the frags ...
  align_code,  \* ... and those with fr_type = rs_align_code
  fr_next, text_root, text_last, xom_root, xom_last,
  prev_frag, curr_frag,
  xom_syms,    \* frags whose symbol S_SET_SEGMENT put in .xom_data
  pc

attrs  == <<kind, align_code>>
chains == <<fr_next, text_root, text_last, xom_root, xom_last>>
vars   == <<attrs, chains, prev_frag, curr_frag, xom_syms, pc>>

\* Faults: empty frags are taken for data; so are jump targets.
IsData_Empty(f)   == kind[f] \in {"data", "empty"}
IsData_Targets(f) == kind[f] \in {"data", "target"}

\* The test for a frag that is to be moved.
IsData(f) == kind[f] = "data"

next_frag == fr_next[curr_frag]

Looking == pc = "loop" /\ curr_frag # NULL /\ next_frag # NULL

----------------------------------------------------------------------------
\* The loop ends off the chain, or at the last frag, which it never moves.
LoopEnds ==
  /\ pc = "loop"
  /\ curr_frag = NULL \/ next_frag = NULL
  /\ pc' = "close"
  /\ UNCHANGED <<attrs, chains, prev_frag, curr_frag, xom_syms>>

\* A fault: the last frag moved still points into .text.
Cut_KeepsNext(final, after) ==
  [f \in Frags |-> IF f = prev_frag THEN after ELSE fr_next[f]]

\* fr_next when the frags up to final, with `after' behind them, have been
\* taken out of .text.
Cut(final, after) ==
  [f \in Frags |-> IF f = prev_frag THEN after
                   ELSE IF f = final THEN NULL ELSE fr_next[f]]

\* A fault: the symbol of the alignment frag is taken.
SymbolOf_First(first, final) == first

\* The frag whose symbol goes to .xom_data when first .. final are moved.
SymbolOf(first, final) == final

\* Unlink the frags from first to final, with `after' behind them, from .text
\* and append them to .xom_data.
Unlink(first, final, after) ==
  /\ text_root' = IF prev_frag # NULL THEN text_root ELSE after
  /\ fr_next' = IF xom_last # NULL
                THEN [Cut(final, after) EXCEPT ![xom_last] = first]
                ELSE Cut(final, after)
  /\ xom_root' = IF xom_last # NULL THEN xom_root ELSE first
  /\ xom_last' = final
  /\ xom_syms' = xom_syms \cup {SymbolOf(first, final)}

\* An alignment frag with data behind it: gas_assert wants the data not to be
\* the end of .text, both frags go, and the loop continues behind them.
SplitAlignData ==
  /\ Looking
  /\ kind[curr_frag] = "align"
  /\ IsData(next_frag)
  /\ IF text_last = next_frag
     THEN /\ pc' = "abort"
          /\ UNCHANGED <<fr_next, text_root, xom_root, xom_last, curr_frag,
                         xom_syms>>
     ELSE /\ Unlink(curr_frag, next_frag, fr_next[next_frag])
          /\ curr_frag' = fr_next[next_frag]
          /\ UNCHANGED pc
  /\ UNCHANGED <<attrs, text_last, prev_frag>>

\* A data frag.
SplitDataFrag ==
  /\ Looking
  /\ kind[curr_frag] # "align"
  /\ IsData(curr_frag)
  /\ Unlink(curr_frag, curr_frag, next_frag)
  /\ text_last' = IF text_last # curr_frag THEN text_last
                  ELSE IF prev_frag # NULL THEN prev_frag ELSE next_frag
  /\ curr_frag' = next_frag
  /\ UNCHANGED <<attrs, prev_frag, pc>>

\* A fault: prev_frag is left behind.
Keep_PrevStays ==
  /\ Looking
  /\ ~IsData(IF kind[curr_frag] = "align" THEN next_frag ELSE curr_frag)
  /\ curr_frag' = next_frag
  /\ UNCHANGED <<attrs, chains, prev_frag, xom_syms, pc>>

\* Any other frag, or an alignment that is not followed by data.
Keep ==
  /\ Looking
  /\ ~IsData(IF kind[curr_frag] = "align" THEN next_frag ELSE curr_frag)
  /\ prev_frag' = curr_frag
  /\ curr_frag' = next_frag
  /\ UNCHANGED <<attrs, chains, xom_syms, pc>>

\* A fault: .xom_data is left as it is.
Close_AsIs ==
  /\ pc = "close"
  /\ pc' = "done"
  /\ UNCHANGED <<attrs, chains, prev_frag, curr_frag, xom_syms>>

\* The end of .xom_data: an empty frag behind an alignment.
Close ==
  /\ pc = "close"
  /\ pc' = "done"
  /\ IF xom_last \in align_code
     THEN /\ fr_next' = [fr_next EXCEPT ![xom_last] = TAIL]
          /\ xom_last' = TAIL
     ELSE UNCHANGED <<fr_next, xom_last>>
  /\ UNCHANGED <<attrs, text_root, text_last, xom_root, prev_frag, curr_frag,
                 xom_syms>>

Stopped == pc \in {"done", "abort"} /\ UNCHANGED vars

----------------------------------------------------------------------------
\* The chain the reading pass leaves, with any marks on its frags.  The last
\* frag is an empty .fill and the one before it ends in the final alignment;
\* without --fiy-dcollect frags with bytes may end in an alignment, too.
Init ==
  /\ kind \in {k \in [Frags -> Kinds] : \A f \in N .. TAIL : k[f] = "empty"}
  /\ align_code \in {{f \in 1 .. N - 1 : f = N - 1 \/ kind[f] \in more}
                       : more \in {{"align"}, Kinds}}
  /\ fr_next = [f \in Frags |-> IF f \in {N, N + XLen, TAIL} THEN NULL
                                ELSE f + 1]
  /\ text_root = 1
  /\ text_last = N
  /\ xom_root = N + 1
  /\ xom_last = N + XLen
  /\ prev_frag = NULL
  /\ curr_frag = text_root
  /\ xom_syms = {}
  /\ pc = "loop"

Next ==
  LoopEnds \/ SplitAlignData \/ SplitDataFrag \/ Keep \/ Close \/ Stopped

\* The loop is sequential code: it does not stop before it has returned.
Spec == Init /\ [][Next]_vars /\ WF_vars(Next)

----------------------------------------------------------------------------
(***************************************************************************)
(* Properties.                                                             *)
(***************************************************************************)

\* Where next leads from root in k - 1 steps, for every k; a chain without a
\* cycle has ended by the last of them.
Walk(next, root) ==
  LET at[k \in 1 .. TAIL + 1] ==
        IF k = 1 THEN root
        ELSE IF at[k - 1] = NULL THEN NULL ELSE next[at[k - 1]]
  IN  at

\* The frags met on the way.  A cycle shows as a sequence that repeats frags.
Chain(next, root) ==
  LET at == Walk(next, root)
  IN  Restrict(at, {k \in 1 .. TAIL + 1 : at[k] # NULL})

\* The end of a chain.
End(chain) == chain[Len(chain)]

\* After every pass of the loop each frag is on exactly one of the chains,
\* once: unlinking and appending by hand loses none and makes no cycle.
NoFragLost ==
  LET text == Chain(fr_next, text_root)
      xom  == Chain(fr_next, xom_root)
  IN  /\ IsInjective(text) /\ IsInjective(xom)
      /\ Range(text) \cap Range(xom) = {}
      /\ Range(text) \cup Range(xom) \in {Frags, Frags \ {TAIL}}

\* frch_last of both sections is the end of the chain that frch_root starts,
\* after every pass; subsegs_finish's empty frag still ends .text.
EndsAgree ==
  /\ text_last = End(Chain(fr_next, text_root)) /\ text_last = N
  /\ xom_last = End(Chain(fr_next, xom_root))

\* prev_frag is what the loop believes it is: the frag in front of curr_frag
\* in .text, or null at the root.
PrevPrecedes ==
  pc = "loop" =>
    IF prev_frag = NULL THEN text_root = curr_frag
    ELSE fr_next[prev_frag] = curr_frag

\* After every pass the symbols S_SET_SEGMENT has put in .xom_data are those
\* of the data frags on its chain: no symbol is ahead of its frag or behind.
SymbolsFollow ==
  xom_syms = {f \in Range(Chain(fr_next, xom_root)) : kind[f] = "data"}

\* The assertion of the alignment branch, that the data behind an alignment is
\* never the end of .text, never fires.
AssertHolds == pc # "abort"

\* Relaxing an alignment reads the address of the frag behind it: when the
\* split is over, neither section ends in an alignment frag.
NoOpenAlignment ==
  pc = "done" => xom_last \notin align_code /\ text_last \notin align_code

\* The loop implements the atomic move of SplitSpec and gets there.
Abstract == INSTANCE SplitSpec WITH
  text       <- IF pc = "done" THEN Chain(fr_next, text_root) ELSE [i \in 1 .. N |-> i],
  xom        <- IF pc = "done" THEN Chain(fr_next, xom_root)
                ELSE [i \in 1 .. XLen |-> N + i],
  data       <- {f \in Frags : kind[f] = "data"},
  align      <- {f \in Frags : kind[f] = "align"},
  ends_align <- align_code,
  split      <- pc = "done"

SplitsAsSpecified == Abstract!Spec

----------------------------------------------------------------------------
(***************************************************************************)
(* The inductive invariant behind the properties.                          *)
(***************************************************************************)

\* Data, and an alignment with data behind it.
Movable(f) ==
  f < N /\ (kind[f] = "data" \/ (kind[f] = "align" /\ kind[f + 1] = "data"))

\* The frags the loop has moved, those it has left in .text or not seen yet,
\* and those of .xom_data.
Gone == {f \in 1 .. N : f < curr_frag /\ Movable(f)}
Left == (1 .. N) \ Gone
Xom  == ((N + 1) .. (N + XLen)) \cup Gone
          \cup (IF xom_last = TAIL THEN {TAIL} ELSE {})

\* The order both chains are in: the frags .xom_data had, those of .text, the
\* new end.
Place(f) == IF f <= N THEN XLen + f ELSE IF f = TAIL THEN TAIL ELSE f - N

\* By next, the frags of S are one chain from root to last, in that order.
Linked(next, root, last, S) ==
  /\ root \in S /\ last \in S
  /\ next[last] = NULL
  /\ \A f \in S \ {last} :
       next[f] \in S \ {root} /\ Place(f) < Place(next[f])
  /\ \A f \in S \ {root} : \E p \in S \ {last} : next[p] = f
  /\ \A f, g \in S \ {last} : next[f] = next[g] => f = g

\* What never changes, and where the loop can be.
LoopTypeOK ==
  /\ kind \in [Frags -> Kinds] /\ \A f \in N .. TAIL : kind[f] = "empty"
  /\ align_code \subseteq 1 .. N - 1
  /\ fr_next \in [Frags -> Frags \cup {NULL}]
  /\ curr_frag \in 1 .. N
  /\ pc \in {"loop", "close", "done"}
  /\ pc # "loop" => curr_frag = N

\* From curr_frag on .text is as it was, and prev_frag is right before it.
AtCurrent ==
  /\ text_last = N
  /\ \A f \in curr_frag .. N - 1 : fr_next[f] = f + 1
  /\ IF prev_frag = NULL THEN text_root = curr_frag
     ELSE /\ prev_frag \in Left /\ prev_frag < curr_frag
          /\ fr_next[prev_frag] = curr_frag

\* The end of .xom_data: TAIL is only used when the loop is over.
AtEnd ==
  /\ fr_next[TAIL] = NULL
  /\ xom_last = TAIL => pc = "done"
  /\ pc = "done" => xom_last \notin align_code

LoopInv ==
  /\ LoopTypeOK /\ AtCurrent /\ AtEnd
  /\ Linked(fr_next, text_root, N, Left)
  /\ Linked(fr_next, xom_root, xom_last, Xom)
  /\ xom_syms = {f \in Gone : kind[f] = "data"}
=============================================================================
