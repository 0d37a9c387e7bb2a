------------------------------ MODULE AsmRead ------------------------------
(***************************************************************************)
(* The reading pass of the assembler: what the statements of a source file *)
(* do to the chain of frags of .text and to the symbols, with the marks    *)
(* that the data-separation pass later decides on (fiy_dcollect).          *)
(*                                                                         *)
(* The chain of .text only grows at its end while a file is read, so the   *)
(* frags are numbered in chain order: frag i is followed by frag i + 1 and *)
(* `last' is frchain_now->frch_last, the frag being filled.  Frags of the  *)
(* other sections are never looked at by the pass and are not represented. *)
(* A field of struct frag is a function on the frags, a flag of it the set *)
(* of the frags that have it; likewise for the fields of a symbol.         *)
(***************************************************************************)
EXTENDS Naturals

CONSTANTS
  Syms,      \* the symbols of the source file
  NULL,      \* the null pointer
  DCollect,  \* the option --fiy-dcollect (fiy_dcollect)
  Stmts,     \* the statements the source file may use
  MaxFrags,  \* bound: frags of .text
  MaxStmts,  \* bound: statements of the file
  MaxGrow    \* bound: frags one statement opens for lack of room

FragId == 1 .. MaxFrags

\* Instructions by what update_symbol_status and output_insn distinguish:
\* "branch" is a relaxable JUMP, "call" a JUMP_BYTE / JUMP_DWORD, "mem" has a
\* memory operand, "lea" is opcode 0x8d and "plain" names no symbol.
InsnKinds  == {"plain", "branch", "call", "mem", "lea"}

\* "align0" is `.align 1', "alignfill" has an explicit fill byte.
AlignKinds == {"align0", "aligncode", "alignfill"}

AllStmts   == InsnKinds \cup AlignKinds \cup
  {"label", "numlabel", "cons", "consref", "string", "space",
   "type", "size", "section"}

ASSUME ConstantsOK ==
  /\ NULL \notin Syms
  /\ DCollect \in BOOLEAN
  /\ Stmts \subseteq AllStmts
  /\ MaxFrags \in Nat /\ MaxFrags > 1
  /\ MaxStmts \in Nat
  /\ MaxGrow \in Nat

VARIABLES
  last,           \* the last frag of the chain
  fr_fix,         \* bytes in the fixed part (frag_now_fix for the open frag)
  fr_type,        \* what follows the fixed part
  frag_symbol,    \* the named label seen last while the frag was open
  frag_anchor,    \* the label frag_symbol replaced
  anchor_frag,    \* flag: the frag has an anchor
  insn_frag,      \* flag: an instruction was written to the frag
  align_frag,     \* flag: the frag was opened for an alignment
  frag_has_insn,  \* flag: an instruction started here
  frag_has_hardcode  \* flag: .byte, .long, ... ended here

VARIABLES
  sym_seg,        \* the section of a symbol
  sym_frag,       \* the frag of a symbol of .text
  call_flow_symbol, memory_access_symbol, bind_bytes,  \* flags of symbols
  fixes           \* the fix list of .text: references to be relocated

VARIABLES
  now_seg,               \* the current section
  cur_func_name,         \* the function being read; NULL iff ~is_in_func
  text_cur_symbol,       \* the named label seen last
  flash_symbol_point,    \* an instruction followed that label
  total_hardcoded_bytes, \* items .byte, .long, ... put in .text
  phase,                 \* "read", then the steps of write_object_file
  stmts                  \* statements read so far

\* History, not in the program: which frags really hold bytes of
\* instructions (code), bytes of data statements (data), bytes written inside
\* a function (infunc), data items that continue a run of instructions
\* (glued), and which were opened by a label (fresh); whether the text now
\* ends in a run of instructions (glue).
VARIABLES code, data, infunc, glued, fresh, glue

fragVars  == <<last, fr_fix, fr_type, frag_symbol, frag_anchor, anchor_frag,
               insn_frag, align_frag, frag_has_insn, frag_has_hardcode>>
symVars   == <<sym_seg, sym_frag, call_flow_symbol, memory_access_symbol,
               bind_bytes>>
histVars  == <<code, data, infunc, glued, fresh, glue>>
stateVars == <<now_seg, cur_func_name, text_cur_symbol, flash_symbol_point,
               total_hardcoded_bytes>>

is_in_func == cur_func_name # NULL

\* What can follow the fixed part of a frag: an "rs_fill" of no bytes, as
\* frag_wane leaves it, one of fr_offset > 0 times fr_var bytes ("rs_fill_var"),
\* or a variant; "none" is the cleared field of a frag that is still open.
FragTypes == {"none", "rs_fill", "rs_fill_var", "rs_align", "rs_align_code",
              "rs_machine_dependent"}

\* A fix: the frag it patches, the symbol it adds, and whether it is relative
\* to the place (fx_pcrel).
Fix == [frag: FragId, sym: Syms, pcrel: BOOLEAN]

----------------------------------------------------------------------------
(***************************************************************************)
(* frags.c                                                                 *)
(***************************************************************************)

\* A fault: the frags opened for lack of room are not marked.
frag_grow_Unmarked(marked, bytes, c, g) == {}

\* frag_grow, when the obstack runs out of room g times with c as the open
\* frag: the frags it opens are marked as instructions iff c is and already
\* has bytes.  The result is the set of frags it marks.
frag_grow(marked, bytes, c, g) ==
  IF DCollect /\ c \in marked /\ bytes > 0 THEN (c + 1) .. (c + g) ELSE {}

\* frag_wane and frag_new close the frags from a up to b - 1.
frag_new(type, a, b) ==
  [i \in FragId |-> IF a <= i /\ i < b THEN "rs_fill" ELSE type[i]]

\* A fault: the item is taken off the frag.
frag_more_Shrinks(fix, c) == [fix EXCEPT ![c] = @ - 1]

\* frag_more: one item at the end of the open frag c.
frag_more(fix, c) == [fix EXCEPT ![c] = @ + 1]

\* frag_var: the open frag c, the g-th opened since a, is closed with a
\* variable part of the given type.
frag_var(a, c, type) == [frag_new(fr_type, a, c) EXCEPT ![c] = type]

----------------------------------------------------------------------------
(***************************************************************************)
(* The statements of the source file.                                      *)
(***************************************************************************)

\* A statement of the given kind is read, within the bound of the model.
Read(kind) ==
  /\ phase = "read"
  /\ kind \in Stmts
  /\ stmts < MaxStmts
  /\ stmts' = stmts + 1
  /\ UNCHANGED phase

\* A statement may leave c as the open frag, within the bound of the model:
\* Finish needs one more.
Room(c) == c < MaxFrags

\* History of a data statement of .text that wrote to the frags of S.
WroteData(S) ==
  /\ data' = data \cup S
  /\ infunc' = IF is_in_func THEN infunc \cup S ELSE infunc
  /\ UNCHANGED <<code, fresh>>

\* A label in .text.  colon closes a frag that has bytes (outside a function)
\* or turns the label an empty frag already carries into its anchor, and
\* defines the symbol here; read_a_source_file then makes a named label the
\* current symbol and the frag's symbol.  It does not for a numeric label.
Label(s, named) ==
  LET outside == DCollect /\ ~is_in_func
      splits  == outside /\ fr_fix[last] > 0
      anchors == outside /\ fr_fix[last] = 0 /\ frag_symbol[last] # NULL
      c       == IF splits THEN last + 1 ELSE last
  IN  /\ Read(IF named THEN "label" ELSE "numlabel")
      /\ now_seg = "text"
      /\ sym_seg[s] = "undefined"
      /\ Room(c)
      /\ last' = c
      /\ fr_type' = frag_new(fr_type, last, c)
      /\ anchor_frag' = IF anchors THEN anchor_frag \cup {last}
                        ELSE anchor_frag
      /\ frag_anchor' = IF anchors
                        THEN [frag_anchor EXCEPT ![last] = frag_symbol[last]]
                        ELSE frag_anchor
      /\ frag_symbol' = IF DCollect /\ named
                        THEN [frag_symbol EXCEPT ![c] = s] ELSE frag_symbol
      /\ sym_seg' = [sym_seg EXCEPT ![s] = "text"]
      /\ sym_frag' = [sym_frag EXCEPT ![s] = c]
      /\ text_cur_symbol' = IF DCollect /\ named THEN s ELSE text_cur_symbol
      /\ flash_symbol_point' = IF DCollect THEN FALSE ELSE flash_symbol_point
      /\ fresh' = IF splits THEN fresh \cup {c} ELSE fresh
      /\ glue' = (glue /\ is_in_func)
      /\ UNCHANGED <<fr_fix, insn_frag, align_frag, frag_has_insn,
                     frag_has_hardcode, call_flow_symbol,
                     memory_access_symbol, bind_bytes, fixes, now_seg,
                     cur_func_name, total_hardcoded_bytes, code, data, infunc,
                     glued>>

\* A named label in another section still becomes the current symbol.
LabelElsewhere(s) ==
  /\ Read("label")
  /\ now_seg = "other"
  /\ sym_seg[s] = "undefined"
  /\ sym_seg' = [sym_seg EXCEPT ![s] = "other"]
  /\ text_cur_symbol' = IF DCollect THEN s ELSE text_cur_symbol
  /\ UNCHANGED <<fragVars, histVars, sym_frag, call_flow_symbol,
                 memory_access_symbol, bind_bytes, fixes, now_seg,
                 cur_func_name, flash_symbol_point, total_hardcoded_bytes>>

\* .byte, .short, .long, .quad in .text: one item, or two when `two' holds,
\* each written by a frag_more of its own that may grow the chain.  The mark
\* goes to the frag that is open after the last item; the label before the
\* items is bound to them unless an instruction came in between.
Cons(s, two, g1, g2) ==
  LET c1 == last + g1
      c2 == c1 + g2
      m1 == insn_frag \cup frag_grow(insn_frag, fr_fix[last], last, g1)
      f1 == frag_more(fr_fix, c1)
      binds == /\ DCollect /\ ~flash_symbol_point
               /\ text_cur_symbol # NULL
  IN  /\ Read(IF s = NULL THEN "cons" ELSE "consref")
      /\ now_seg = "text"
      /\ two \/ g2 = 0
      /\ g1 + g2 <= MaxGrow
      /\ Room(c2)
      /\ last' = c2
      /\ fr_type' = frag_new(fr_type, last, c2)
      /\ fr_fix' = IF two THEN frag_more(f1, c2) ELSE f1
      /\ insn_frag' = m1 \cup frag_grow(m1, f1[c1], c1, g2)
      /\ frag_has_hardcode' = IF DCollect THEN frag_has_hardcode \cup {c2}
                              ELSE frag_has_hardcode
      /\ bind_bytes' = IF binds THEN bind_bytes \cup {text_cur_symbol}
                       ELSE bind_bytes
      /\ total_hardcoded_bytes' =
           IF DCollect THEN total_hardcoded_bytes + (IF two THEN 2 ELSE 1)
           ELSE total_hardcoded_bytes
      /\ fixes' = IF s = NULL THEN fixes
                  ELSE fixes \cup {[frag |-> c2, sym |-> s, pcrel |-> FALSE]}
      /\ WroteData({c1, c2})
      /\ glued' = IF glue THEN glued \cup {c1, c2} ELSE glued
      /\ UNCHANGED <<frag_symbol, frag_anchor, anchor_frag, align_frag,
                     frag_has_insn, sym_seg, sym_frag, call_flow_symbol,
                     memory_access_symbol, now_seg, cur_func_name,
                     text_cur_symbol, flash_symbol_point, glue>>

\* .ascii / .string in .text: frag_append_1_char opens a frag when there is
\* no room, without the care frag_grow takes, and nothing is marked.
String(g) ==
  LET c == last + g
  IN  /\ Read("string")
      /\ now_seg = "text"
      /\ Room(c)
      /\ last' = c
      /\ fr_type' = frag_new(fr_type, last, c)
      /\ fr_fix' = frag_more(fr_fix, c)
      /\ WroteData({c})
      /\ glue' = FALSE
      /\ UNCHANGED <<frag_symbol, frag_anchor, anchor_frag, insn_frag,
                     align_frag, frag_has_insn, frag_has_hardcode, symVars,
                     fixes, stateVars, glued>>

\* .space / .zero in .text: the bytes are the variable part of the frag.
Space(g) ==
  LET c == last + g
  IN  /\ Read("space")
      /\ now_seg = "text"
      /\ Room(c + 1)
      /\ last' = c + 1
      /\ fr_type' = frag_var(last, c, "rs_fill_var")
      /\ insn_frag' = insn_frag
                        \cup frag_grow(insn_frag, fr_fix[last], last, g)
      /\ WroteData({c})
      /\ glue' = FALSE
      /\ UNCHANGED <<fr_fix, frag_symbol, frag_anchor, anchor_frag,
                     align_frag, frag_has_insn, frag_has_hardcode, symVars,
                     fixes, stateVars, glued>>

\* update_symbol_status: a jump marks its symbol as a target, a memory
\* operand as accessed; lea marks nothing.
update_symbol_status(k, s) ==
  /\ call_flow_symbol' = IF DCollect /\ k \in {"branch", "call"}
                         THEN call_flow_symbol \cup {s} ELSE call_flow_symbol
  /\ memory_access_symbol' = IF DCollect /\ k = "mem"
                             THEN memory_access_symbol \cup {s}
                             ELSE memory_access_symbol
  /\ flash_symbol_point' = IF DCollect THEN TRUE ELSE flash_symbol_point
  /\ UNCHANGED <<sym_seg, sym_frag, bind_bytes, now_seg, cur_func_name,
                 text_cur_symbol, total_hardcoded_bytes>>

\* A fault: only the frag that is open after the instruction is marked.
InsnMarks_LastOnly(a, b) == {b}

\* The loop at the end of output_insn marks every frag from a, the one open
\* before the instruction, to b, the one open after it.
InsnMarks(a, b) == a .. b

\* output_insn in .text: the opcode and, for the kinds with an operand symbol,
\* the operand are written by a frag_more each.  A relaxable branch ends the
\* frag instead.
Insn(k, s, g1, g2) ==
  LET two == k \in {"call", "mem", "lea"}
      c1  == last + g1
      c2  == c1 + g2
      end == IF k = "branch" THEN c2 + 1 ELSE c2
      f1  == frag_more(fr_fix, c1)
  IN  /\ Read(k)
      /\ now_seg = "text"
      /\ s = NULL <=> k = "plain"
      /\ two \/ g2 = 0
      /\ g1 + g2 <= MaxGrow
      /\ Room(end)
      /\ last' = end
      /\ fr_type' = IF k = "branch"
                    THEN frag_var(last, c2, "rs_machine_dependent")
                    ELSE frag_new(fr_type, last, c2)
      /\ fr_fix' = IF two THEN frag_more(f1, c2) ELSE f1
      /\ insn_frag' = IF DCollect THEN insn_frag \cup InsnMarks(last, end)
                      ELSE insn_frag
      /\ frag_has_insn' = IF DCollect THEN frag_has_insn \cup {last}
                          ELSE frag_has_insn
      /\ fixes' = IF two
                  THEN fixes \cup {[frag |-> c2, sym |-> s, pcrel |-> TRUE]}
                  ELSE fixes
      /\ update_symbol_status(k, s)
      /\ code' = code \cup {c1, c2}
      /\ infunc' = IF is_in_func THEN infunc \cup {c1, c2} ELSE infunc
      /\ glue' = (k # "branch")
      /\ UNCHANGED <<frag_symbol, frag_anchor, anchor_frag, align_frag,
                     frag_has_hardcode, data, glued, fresh>>

\* An instruction in another section.
InsnElsewhere(k, s) ==
  /\ Read(k)
  /\ now_seg = "other"
  /\ s = NULL <=> k = "plain"
  /\ update_symbol_status(k, s)
  /\ UNCHANGED <<fragVars, histVars, fixes>>

\* A fault: frag_align_code does not carry the mark to the frag it fills.
AlignMarks_FirstOnly(k, c, g) == {c}

\* do_align marks the open frag c; frag_align_code, when it had to open g
\* frags, marks the one that gets the alignment as well.  frag_align, used
\* for an explicit fill, does not.
AlignMarks(k, c, g) == IF k = "aligncode" THEN {c, c + g} ELSE {c}

\* do_align in .text: the alignment gets a frag of its own.  With `.align 1'
\* no alignment is made in it.
Align(k, g) ==
  LET c   == IF DCollect /\ fr_fix[last] > 0 THEN last + 1 ELSE last
      end == IF k = "align0" THEN c ELSE c + g + 1
  IN  /\ Read(k)
      /\ now_seg = "text"
      /\ k = "align0" => g = 0
      /\ Room(end)
      /\ last' = end
      /\ fr_type' = IF k = "align0" THEN frag_new(fr_type, last, c)
                    ELSE frag_var(last, c + g,
                           IF k = "aligncode" THEN "rs_align_code"
                                              ELSE "rs_align")
      /\ insn_frag' = IF k = "align0" THEN insn_frag
                      ELSE insn_frag \cup
                             frag_grow(insn_frag, fr_fix[c], c, g)
      /\ align_frag' = IF DCollect THEN align_frag \cup AlignMarks(k, c, g)
                       ELSE align_frag
      /\ glue' = FALSE
      /\ UNCHANGED <<fr_fix, frag_symbol, frag_anchor, anchor_frag,
                     frag_has_insn, frag_has_hardcode, symVars, fixes,
                     stateVars, code, data, infunc, glued, fresh>>

\* .type s, @function
TypeFunction(s) ==
  /\ Read("type")
  /\ cur_func_name' = IF DCollect THEN s ELSE cur_func_name
  /\ UNCHANGED <<fragVars, symVars, histVars, fixes, now_seg,
                 text_cur_symbol, flash_symbol_point, total_hardcoded_bytes>>

\* .size s, ...: ends the function s.
Size(s) ==
  /\ Read("size")
  /\ cur_func_name' = IF DCollect /\ cur_func_name = s
                      THEN NULL ELSE cur_func_name
  /\ UNCHANGED <<fragVars, symVars, histVars, fixes, now_seg,
                 text_cur_symbol, flash_symbol_point, total_hardcoded_bytes>>

\* .text / .data / .section: the open frag of the section is resumed.
SwitchSection ==
  /\ Read("section")
  /\ now_seg' = IF now_seg = "text" THEN "other" ELSE "text"
  /\ UNCHANGED <<fragVars, symVars, histVars, fixes, cur_func_name,
                 text_cur_symbol, flash_symbol_point, total_hardcoded_bytes>>

\* End of the source: subsegs_finish closes the open frag as an alignment
\* frag and leaves an empty .fill at the end of the chain.
Finish(g) ==
  LET c == last + g
  IN  /\ phase = "read"
      /\ c + 1 \in FragId
      /\ phase' = "chained"
      /\ last' = c + 1
      /\ fr_type' = [frag_var(last, c, "rs_align_code")
                       EXCEPT ![c + 1] = "rs_fill"]
      /\ insn_frag' = insn_frag
                        \cup frag_grow(insn_frag, fr_fix[last], last, g)
      /\ UNCHANGED <<fr_fix, frag_symbol, frag_anchor, anchor_frag,
                     align_frag, frag_has_insn, frag_has_hardcode, symVars,
                     fixes, stateVars, stmts, histVars>>

----------------------------------------------------------------------------
\* gas_init: .text has one empty frag; the file starts in .text.
ReadInit ==
  /\ last = 1
  /\ fr_fix = [i \in FragId |-> 0]
  /\ fr_type = [i \in FragId |-> IF i = 1 THEN "rs_fill" ELSE "none"]
  /\ frag_symbol = [i \in FragId |-> NULL]
  /\ frag_anchor = [i \in FragId |-> NULL]
  /\ anchor_frag = {} /\ insn_frag = {} /\ align_frag = {}
  /\ frag_has_insn = {} /\ frag_has_hardcode = {}
  /\ sym_seg = [s \in Syms |-> "undefined"]
  /\ sym_frag = [s \in Syms |-> 0]
  /\ call_flow_symbol = {} /\ memory_access_symbol = {} /\ bind_bytes = {}
  /\ fixes = {}
  /\ now_seg = "text"
  /\ cur_func_name = NULL
  /\ text_cur_symbol = NULL
  /\ flash_symbol_point = FALSE
  /\ total_hardcoded_bytes = 0
  /\ phase = "read"
  /\ stmts = 0
  /\ code = {} /\ data = {} /\ infunc = {} /\ glued = {} /\ fresh = {}
  /\ glue = FALSE

Grow == 0 .. MaxGrow

ReadNext ==
  \/ \E s \in Syms, named \in BOOLEAN : Label(s, named)
  \/ \E s \in Syms : LabelElsewhere(s)
  \/ \E s \in Syms \cup {NULL}, two \in BOOLEAN, g1, g2 \in Grow :
       Cons(s, two, g1, g2)
  \/ \E g \in {0, 1} : String(g)
  \/ \E g \in Grow : Space(g)
  \/ \E k \in InsnKinds, s \in Syms \cup {NULL}, g1, g2 \in Grow :
       Insn(k, s, g1, g2)
  \/ \E k \in InsnKinds, s \in Syms \cup {NULL} : InsnElsewhere(k, s)
  \/ \E k \in AlignKinds, g \in Grow : Align(k, g)
  \/ \E s \in Syms : TypeFunction(s)
  \/ \E s \in Syms : Size(s)
  \/ SwitchSection
  \/ \E g \in Grow : Finish(g)
=============================================================================
