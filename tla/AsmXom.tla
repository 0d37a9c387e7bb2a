------------------------------- MODULE AsmXom -------------------------------
(***************************************************************************)
(* write_object_file after the source has been read: parse_symbols counts, *)
(* parse_frags_for_test writes the metadata of .xomtwo and                 *)
(* split_text_frags moves the embedded data to .xom_data, in this order.   *)
(*                                                                         *)
(* The split is one step here, described by the set of frags it moves.     *)
(* SplitFrags has the loop over the linked list.                           *)
(***************************************************************************)
EXTENDS AsmRead, FiniteSets, Sequences

CONSTANT DSplit  \* the option --fiy-dsplit (fiy_dsplit)

ASSUME OptionsOK == DSplit \in BOOLEAN /\ IsFiniteSet(Syms)

VARIABLES
  moved,    \* frags of .text that now belong to .xom_data
  checked,  \* frags with frag_has_checked
  entries,  \* the metadata entries of .xomtwo, by the frag they describe;
            \* they are written in the order of the frags
  counts    \* the counters of the metadata header

readVars  == <<fragVars, symVars, stateVars, histVars, fixes, stmts>>
writeVars == <<moved, checked, entries, counts>>
vars      == <<readVars, phase, writeVars>>

Counters == [bytes_frag_num: Nat, direct_code_num: Nat,
             direct_data_num: Nat, fall_through_num: Nat]

Entry == [frag_size: Nat, name: Syms \cup {NULL}]

\* A fault: the last two frags are skipped.
Walked_Short == 1 .. (last - 2)

\* The frags the loops over the chain look at: all but the last.
Walked == 1 .. (last - 1)

\* A null symbol is not a jump target.
S_IS_CF_SYMBOL(s) == s # NULL /\ s \in call_flow_symbol

----------------------------------------------------------------------------
\* parse_symbols: a symbol bound to hard-coded bytes counts as code when its
\* frag is an instruction frag, else as data if an instruction accesses it.
\* A symbol of another section has no frag of .text.
ParseSymbols ==
  LET direct_code == {s \in bind_bytes : sym_frag[s] \in insn_frag}
      direct_data == (bind_bytes \ direct_code) \cap memory_access_symbol
  IN  /\ phase = "chained"
      /\ phase' = "symbols"
      /\ IF DCollect
         THEN /\ checked' = {sym_frag[s] : s \in bind_bytes} \ {0}
              /\ counts' = [counts EXCEPT
                              !.direct_code_num = Cardinality(direct_code),
                              !.direct_data_num = Cardinality(direct_data)]
         ELSE UNCHANGED <<checked, counts>>
      /\ UNCHANGED <<readVars, moved, entries>>

\* A fault: jump targets get entries, too.
IsEntry_Targets(i) ==
  /\ i \in Walked
  /\ i \notin align_frag
  /\ i \notin insn_frag
  /\ fr_fix[i] > 0

\* The frags parse_frags_for_test writes entries for.
IsEntry(i) ==
  /\ i \in Walked
  /\ i \notin align_frag
  /\ i \notin insn_frag
  /\ fr_fix[i] > 0
  /\ ~S_IS_CF_SYMBOL(frag_symbol[i])

\* The entries of one frag: its anchor, of size 0, comes first.
EntriesOf(i) ==
  LET anchor == [frag_size |-> 0, name |-> frag_anchor[i]]
      own    == [frag_size |-> fr_fix[i], name |-> frag_symbol[i]]
  IN  IF ~IsEntry(i) THEN <<>>
      ELSE IF i \in anchor_frag THEN <<anchor, own>> ELSE <<own>>

\* parse_frags_for_test: the header counts the frags with hard-coded bytes
\* and, of those no bound symbol pointed to, the labelled instruction frags.
ParseFrags ==
  LET hard == {i \in 1 .. last : i \in frag_has_hardcode}
      fall == {i \in hard : /\ i \notin checked
                            /\ frag_symbol[i] # NULL
                            /\ i \in insn_frag}
  IN  /\ phase = "symbols"
      /\ phase' = "collected"
      /\ IF DCollect
         THEN /\ counts' = [counts EXCEPT
                              !.bytes_frag_num = Cardinality(hard),
                              !.fall_through_num = Cardinality(fall)]
              /\ entries' = [i \in FragId |-> EntriesOf(i)]
         ELSE UNCHANGED <<counts, entries>>
      /\ UNCHANGED <<readVars, moved, checked>>

\* A fault: the marks of instructions are not looked at.
SplitData_Unmarked ==
  {i \in Walked : /\ i \notin align_frag
                  /\ fr_fix[i] > 0
                  /\ ~S_IS_CF_SYMBOL(frag_symbol[i])}

\* The data frags split_text_frags moves ...
SplitData ==
  {i \in Walked : /\ i \notin align_frag
                  /\ i \notin insn_frag
                  /\ fr_fix[i] > 0
                  /\ ~S_IS_CF_SYMBOL(frag_symbol[i])}

\* ... and the alignment frags that go with them.
SplitAlign == {i \in align_frag : i + 1 \in SplitData}

\* A fault: the symbol is taken from the frag behind the one that moves.
Homes_Next == {frag_symbol[i + 1] : i \in SplitData} \ {NULL}

\* The symbols S_SET_SEGMENT puts in .xom_data.
Homes == {frag_symbol[i] : i \in SplitData} \ {NULL}

\* split_text_frags.  Of the symbols of a moved frag only its frag_symbol
\* gets the new section; references to such symbols are left to the linker as
\* place-relative ones.
Split ==
  /\ phase = "collected"
  /\ phase' = "done"
  /\ IF DSplit
     THEN /\ moved' = SplitData \cup SplitAlign
          /\ sym_seg' = [s \in Syms |-> IF s \in Homes THEN "xom_data"
                                        ELSE sym_seg[s]]
          /\ fixes' = {[frag |-> f.frag, sym |-> f.sym,
                        pcrel |-> (f.pcrel \/ f.sym \in Homes)]
                         : f \in fixes}
     ELSE UNCHANGED <<moved, sym_seg, fixes>>
  /\ UNCHANGED <<fragVars, stateVars, histVars, sym_frag, call_flow_symbol,
                 memory_access_symbol, bind_bytes, stmts, checked, entries,
                 counts>>

\* The object file has been written.
Done == phase = "done" /\ UNCHANGED vars

----------------------------------------------------------------------------
Init ==
  /\ ReadInit
  /\ moved = {}
  /\ checked = {}
  /\ entries = [i \in FragId |-> <<>>]
  /\ counts = [bytes_frag_num |-> 0, direct_code_num |-> 0,
               direct_data_num |-> 0, fall_through_num |-> 0]

Next ==
  \/ ReadNext /\ UNCHANGED writeVars
  \/ ParseSymbols
  \/ ParseFrags
  \/ Split
  \/ Done

Spec == Init /\ [][Next]_vars

----------------------------------------------------------------------------
(***************************************************************************)
(* Properties.                                                             *)
(***************************************************************************)

\* The types of the frags, of the symbols and of the state of the reader.
FragTypeOK ==
  /\ last \in FragId
  /\ fr_fix \in [FragId -> Nat]
  /\ fr_type \in [FragId -> FragTypes]
  /\ frag_symbol \in [FragId -> Syms \cup {NULL}]
  /\ frag_anchor \in [FragId -> Syms \cup {NULL}]
  /\ anchor_frag \subseteq FragId
  /\ insn_frag \subseteq FragId
  /\ align_frag \subseteq FragId
  /\ frag_has_insn \subseteq FragId
  /\ frag_has_hardcode \subseteq FragId

SymTypeOK ==
  /\ sym_seg \in [Syms -> {"undefined", "text", "other", "xom_data"}]
  /\ sym_frag \in [Syms -> FragId \cup {0}]
  /\ call_flow_symbol \subseteq Syms
  /\ memory_access_symbol \subseteq Syms
  /\ bind_bytes \subseteq Syms
  /\ fixes \subseteq Fix

StateTypeOK ==
  /\ now_seg \in {"text", "other"}
  /\ cur_func_name \in Syms \cup {NULL}
  /\ text_cur_symbol \in Syms \cup {NULL}
  /\ flash_symbol_point \in BOOLEAN
  /\ total_hardcoded_bytes \in Nat
  /\ phase \in {"read", "chained", "symbols", "collected", "done"}
  /\ stmts \in Nat

HistTypeOK ==
  /\ code \subseteq FragId
  /\ data \subseteq FragId
  /\ infunc \subseteq FragId
  /\ glued \subseteq FragId
  /\ fresh \subseteq FragId
  /\ glue \in BOOLEAN

WriteTypeOK ==
  /\ moved \subseteq FragId
  /\ checked \subseteq FragId
  /\ entries \in [FragId -> Seq(Entry)]
  /\ counts \in Counters

\* The types of all the state.
TypeOK == FragTypeOK /\ SymTypeOK /\ StateTypeOK /\ HistTypeOK /\ WriteTypeOK

\* The bytes of an instruction statement never leave .text: split_text_frags
\* moves no frag an instruction wrote to, however the chain grew while the
\* instruction was written.
NoCodeMoved == moved \cap code = {}

\* Hard-coded bytes (.byte, .long, ...) that continue a run of instructions,
\* with no label, alignment, branch, .string or .space in between, stay in
\* .text with them, even when the obstack ran out of room between the
\* instruction and the bytes (the case the comment of frag_grow describes).
GluedBytesStay == moved \cap glued = {}

\* Data behind a label that opened its frag, outside a function, leaves .text
\* with three exceptions: the label is a jump target, an instruction was
\* written to the same frag, or the frag has no fixed part (fr_fix = 0, which
\* split_text_frags takes for an empty frag): all its data is the variable
\* part of a .space or .zero, which stays.
LabelledDataMoved ==
  (phase = "done" /\ DSplit) =>
    \A i \in fresh \cap data :
      (/\ i \notin frag_has_insn /\ i \notin code
       /\ fr_fix[i] > 0
       /\ ~S_IS_CF_SYMBOL(frag_symbol[i])) => i \in moved

\* A code alignment that stands right before a moved data frag in the chain
\* moves with it.
AlignmentFollows ==
  phase = "done" =>
    \A i \in Walked :
      (fr_type[i] = "rs_align_code" /\ i + 1 \in moved \ align_frag)
        => i \in moved

\* What the metadata lists is what the split moves: the frags with an entry
\* are the moved frags that are not alignment.
CollectMatchesSplit ==
  (phase = "done" /\ DCollect /\ DSplit) =>
    {i \in FragId : entries[i] # <<>>} = moved \ align_frag

\* The symbols of .xom_data are in a moved frag, so their value, an offset in
\* that frag, is taken in the section the frag belongs to.
XomSymbolsInXom ==
  \A s \in Syms : sym_seg[s] = "xom_data" => sym_frag[s] \in moved
----------------------------------------------------------------------------
(***************************************************************************)
(* What the documentation and the comments of the code say, and the code   *)
(* does not do: each is refuted by a run of its own.                       *)
(***************************************************************************)

\* Every symbol of a moved frag moves with it, its anchors included: the
\* comment in colon says that several anchors "do not affect correctness".
AllSymbolsFollow ==
  \A s \in Syms : sym_frag[s] \in moved => sym_seg[s] = "xom_data"

\* The fix list of .text, which the relocations of .text are written from,
\* patches no frag that is in .xom_data: --dsplit "separates embedded data",
\* so a reference inside the data has to go with it (README).
FixesStayInText == \A f \in fixes : f.frag \notin moved

\* Data bytes outside functions that have a label of their own which is no
\* jump target, no instruction in their frag, and are in its fixed part (as
\* those of .space are not), leave .text: --dsplit
\* "separates embedded data into the read-only data section" (README).
EmbeddedDataMoved ==
  (phase = "done" /\ DSplit) =>
    \A i \in data \ (code \cup infunc) :
      (/\ fr_fix[i] > 0
       /\ frag_symbol[i] # NULL
       /\ ~S_IS_CF_SYMBOL(frag_symbol[i])) => i \in moved
----------------------------------------------------------------------------
(***************************************************************************)
(* The inductive invariant behind NoCodeMoved and GluedBytesStay, for      *)
(* files assembled with --fiy-dcollect and without `.align 1'.             *)
(***************************************************************************)

\* A frag that has not been opened yet has no bytes.
UnopenedEmpty == \A i \in FragId : i > last => fr_fix[i] = 0

\* Frags with instructions, or with bytes glued to instructions, are marked
\* and have bytes.
CodeMarked ==
  \A i \in code \cup glued : i \in insn_frag /\ fr_fix[i] > 0

\* An alignment frag is closed and has no bytes of its own.
AlignEmpty == \A i \in align_frag : i < last /\ fr_fix[i] = 0

\* A run of instructions ends in a marked frag that has bytes, which is what
\* frag_grow looks at when the run continues.
GlueOpen ==
  (phase = "read" /\ glue) => last \in insn_frag /\ fr_fix[last] > 0

\* Only the split moves frags, and only alignment and unmarked ones.
MovedUnmarked ==
  /\ phase # "done" => moved = {}
  /\ \A i \in moved : i \in align_frag \/ i \notin insn_frag

MarkInv ==
  UnopenedEmpty /\ CodeMarked /\ AlignEmpty /\ GlueOpen /\ MovedUnmarked
----------------------------------------------------------------------------
(***************************************************************************)
(* The inductive invariants behind the properties of what does move.       *)
(***************************************************************************)

\* The split has moved the data frags and their alignment, and nothing has
\* moved before it.
MovedIsSplit ==
  moved = IF phase = "done" /\ DSplit THEN SplitData \cup SplitAlign ELSE {}

\* The metadata lists the frags as they still are when the split begins.
EntriesCurrent ==
  (phase \in {"collected", "done"} /\ DCollect) =>
    entries = [i \in FragId |-> EntriesOf(i)]

\* The symbol of a frag is defined in that frag, and only the split gives
\* symbols a home in .xom_data.
SymbolsAtHome ==
  /\ \A i \in FragId : frag_symbol[i] # NULL =>
       /\ sym_frag[frag_symbol[i]] = i
       /\ sym_seg[frag_symbol[i]] # "undefined"
  /\ \A s \in Syms : sym_seg[s] = "xom_data" =>
       /\ phase = "done" /\ DSplit
       /\ s \in Homes

SplitInv == MovedIsSplit /\ EntriesCurrent /\ SymbolsAtHome

\* A code alignment is marked, but for the one subsegs_finish puts before the
\* last frag.
AlignmentMarked ==
  \A i \in FragId : fr_type[i] = "rs_align_code" =>
    i \in align_frag \/ (phase # "read" /\ i = last - 1)

\* A frag is neither marked nor opened by a label before it is opened.
UnopenedUnmarked ==
  /\ \A i \in insn_frag \cup fresh : i <= last
  /\ phase # "read" => last \notin fresh

\* A frag a label opened is marked only by an instruction that starts in it:
\* the marks of frag_grow and output_insn go to frags they open themselves.
FreshMarked == fresh \cap insn_frag \subseteq frag_has_insn

FreshInv == UnopenedUnmarked /\ FreshMarked
=============================================================================
