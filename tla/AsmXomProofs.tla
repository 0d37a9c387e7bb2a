---------------------------- MODULE AsmXomProofs ----------------------------
(***************************************************************************)
(* Theorems about AsmXom, for every source file and every bound: the       *)
(* types, and that neither a byte of an instruction nor hard-coded bytes   *)
(* glued to one leave .text.                                               *)
(***************************************************************************)
EXTENDS AsmXom, FiniteSetTheorems, TLAPS

USE ConstantsOK, OptionsOK

(***************************************************************************)
(* Lemmas about the frag operations of frags.c.                            *)
(***************************************************************************)

\* Closing frags keeps the type of fr_type.
LEMMA FragNewType ==
  ASSUME NEW t \in [FragId -> FragTypes], NEW a, NEW b
  PROVE  frag_new(t, a, b) \in [FragId -> FragTypes]
  BY DEF frag_new, FragTypes

\* Closing a frag with a variable part keeps the type of fr_type.
LEMMA FragVarType ==
  ASSUME fr_type \in [FragId -> FragTypes], NEW a, NEW c,
         NEW type \in FragTypes
  PROVE  frag_var(a, c, type) \in [FragId -> FragTypes]
  BY FragNewType DEF frag_var

\* Writing an item keeps the type of fr_fix, gives the frag a byte, and takes
\* no byte away.
LEMMA FragMoreType ==
  ASSUME NEW f \in [FragId -> Nat], NEW c \in FragId
  PROVE  /\ frag_more(f, c) \in [FragId -> Nat]
         /\ frag_more(f, c)[c] > 0
         /\ \A i \in FragId : /\ f[i] > 0 => frag_more(f, c)[i] > 0
                              /\ i # c => frag_more(f, c)[i] = f[i]
  BY DEF frag_more

\* Growth marks frags after the open one, up to the one it leaves open.
LEMMA FragGrowType ==
  ASSUME NEW m, NEW b, NEW c \in FragId, NEW g \in Nat, c + g \in FragId
  PROVE  /\ frag_grow(m, b, c, g) \subseteq FragId
         /\ DCollect /\ c \in m /\ b > 0 /\ g > 0
              => c + g \in frag_grow(m, b, c, g)
  BY DEF frag_grow, FragId

(***************************************************************************)
(* Types.                                                                  *)
(***************************************************************************)

\* gas_init leaves a state of the right types.
LEMMA InitTypeOK == Init => TypeOK
  <1> SUFFICES ASSUME Init PROVE TypeOK
    OBVIOUS
  <1> USE DEF Init, ReadInit
  <1>1. FragTypeOK
    BY DEF FragTypeOK, FragId, FragTypes
  <1>2. SymTypeOK
    BY DEF SymTypeOK
  <1>3. StateTypeOK
    BY DEF StateTypeOK
  <1>4. HistTypeOK
    BY DEF HistTypeOK
  <1>5. WriteTypeOK
    BY DEF WriteTypeOK, Counters
  <1> QED BY <1>1, <1>2, <1>3, <1>4, <1>5 DEF TypeOK
\* An instruction leaves flash_symbol_point a Boolean.
LEMMA FlashType ==
  ASSUME NEW k, NEW s, StateTypeOK, update_symbol_status(k, s)
  PROVE  flash_symbol_point' \in BOOLEAN
  <1>1. flash_symbol_point' = IF DCollect THEN TRUE ELSE flash_symbol_point
    BY DEF update_symbol_status
  <1> QED BY <1>1, Zenon DEF StateTypeOK

\* Every statement and the end of the source keep the types.
LEMMA ReadTypeOK == TypeOK /\ ReadNext /\ UNCHANGED writeVars => TypeOK'
<1> SUFFICES ASSUME TypeOK, ReadNext, UNCHANGED writeVars PROVE TypeOK'
  OBVIOUS
<1> USE DEF TypeOK
<1>w. WriteTypeOK'
  BY DEF WriteTypeOK, writeVars
<1>1. ASSUME NEW s \in Syms, NEW named \in BOOLEAN, Label(s, named)
      PROVE  TypeOK'
  <2> DEFINE splits == DCollect /\ ~is_in_func /\ fr_fix[last] > 0
             c == IF splits THEN last + 1 ELSE last
  <2>1. c \in FragId
    BY <1>1 DEF Label, Room, FragTypeOK, FragId
  <2>2. FragTypeOK'
    BY <1>1, <2>1, FragNewType DEF Label, FragTypeOK
  <2>3. SymTypeOK'
    BY <1>1, <2>1 DEF Label, SymTypeOK
  <2>4. StateTypeOK'
    <3>1. flash_symbol_point' \in BOOLEAN
      <4>1. flash_symbol_point' = IF DCollect THEN FALSE
                                  ELSE flash_symbol_point
        BY <1>1 DEF Label
      <4> QED BY <4>1, Zenon DEF StateTypeOK
    <3>2. /\ UNCHANGED <<now_seg, cur_func_name, total_hardcoded_bytes, phase>>
          /\ stmts' = stmts + 1
      BY <1>1 DEF Label, Read
    <3>3. text_cur_symbol' \in Syms \cup {NULL}
      BY <1>1 DEF Label, StateTypeOK
    <3> QED BY <3>1, <3>2, <3>3 DEF StateTypeOK
  <2>5. HistTypeOK'
    BY <1>1, <2>1 DEF Label, HistTypeOK
  <2> QED BY <1>w, <2>2, <2>3, <2>4, <2>5
<1>2. ASSUME NEW s \in Syms, LabelElsewhere(s)
      PROVE  TypeOK'
  BY <1>w, <1>2 DEF LabelElsewhere, Read, FragTypeOK, SymTypeOK, StateTypeOK,
                    HistTypeOK, fragVars, histVars
<1>3. ASSUME NEW s \in Syms \cup {NULL}, NEW two \in BOOLEAN,
             NEW g1 \in Grow, NEW g2 \in Grow, Cons(s, two, g1, g2)
      PROVE  TypeOK'
  <2> DEFINE c1 == last + g1
             c2 == c1 + g2
             m1 == insn_frag \cup frag_grow(insn_frag, fr_fix[last], last, g1)
             f1 == frag_more(fr_fix, c1)
  <2>1. /\ c1 \in FragId /\ c2 \in FragId
        /\ last \in FragId /\ g1 \in Nat /\ g2 \in Nat
    BY <1>3 DEF Cons, Room, FragTypeOK, FragId, Grow
  <2>2. FragTypeOK'
    <3>1. fr_fix' \in [FragId -> Nat]
      BY <1>3, <2>1, FragMoreType DEF Cons, FragTypeOK
    <3>2. frag_grow(insn_frag, fr_fix[last], last, g1) \subseteq FragId
      BY <2>1, FragGrowType
    <3>3. frag_grow(m1, f1[c1], c1, g2) \subseteq FragId
      BY <2>1, FragGrowType
    <3>4. insn_frag' \subseteq FragId
      BY <1>3, <3>2, <3>3 DEF Cons, FragTypeOK
    <3> QED
      BY <1>3, <2>1, <3>1, <3>4, FragNewType DEF Cons, FragTypeOK
  <2>3. SymTypeOK'
    <3>1. fixes' \subseteq Fix
      <4>1. s # NULL => [frag |-> c2, sym |-> s, pcrel |-> FALSE] \in Fix
        BY <2>1 DEF Fix
      <4>2. fixes' = IF s = NULL THEN fixes ELSE
                     fixes \cup {[frag |-> c2, sym |-> s, pcrel |-> FALSE]}
        BY <1>3 DEF Cons
      <4> QED BY <4>1, <4>2, Zenon DEF SymTypeOK
    <3> QED BY <1>3, <3>1 DEF Cons, SymTypeOK, StateTypeOK
  <2>4. StateTypeOK'
    BY <1>3 DEF Cons, StateTypeOK, Read
  <2>5. HistTypeOK'
    BY <1>3, <2>1 DEF Cons, WroteData, HistTypeOK
  <2> QED BY <1>w, <2>2, <2>3, <2>4, <2>5
<1>4. ASSUME NEW g \in {0, 1}, String(g)
      PROVE  TypeOK'
  <2>1. last + g \in FragId
    BY <1>4 DEF String, Room, FragTypeOK, FragId
  <2>2. FragTypeOK'
    BY <1>4, <2>1, FragNewType, FragMoreType DEF String, FragTypeOK
  <2>3. SymTypeOK' /\ StateTypeOK'
    BY <1>4 DEF String, SymTypeOK, StateTypeOK, Read, symVars, stateVars
  <2>4. HistTypeOK'
    BY <1>4, <2>1 DEF String, WroteData, HistTypeOK
  <2> QED BY <1>w, <2>2, <2>3, <2>4
<1>5. ASSUME NEW g \in Grow, Space(g)
      PROVE  TypeOK'
  <2>1. /\ last + g \in FragId /\ last + g + 1 \in FragId
        /\ last \in FragId /\ g \in Nat
    BY <1>5 DEF Space, Room, FragTypeOK, FragId, Grow
  <2>2. FragTypeOK'
    <3>1. frag_grow(insn_frag, fr_fix[last], last, g) \subseteq FragId
      BY <2>1, FragGrowType
    <3>2. fr_type' \in [FragId -> FragTypes]
      BY <1>5, FragVarType DEF Space, FragTypeOK, FragTypes
    <3> QED BY <1>5, <2>1, <3>1, <3>2 DEF Space, FragTypeOK
  <2>3. SymTypeOK' /\ StateTypeOK'
    BY <1>5 DEF Space, SymTypeOK, StateTypeOK, Read, symVars, stateVars
  <2>4. HistTypeOK'
    BY <1>5, <2>1 DEF Space, WroteData, HistTypeOK
  <2> QED BY <1>w, <2>2, <2>3, <2>4
<1>6. ASSUME NEW k \in InsnKinds, NEW s \in Syms \cup {NULL},
             NEW g1 \in Grow, NEW g2 \in Grow, Insn(k, s, g1, g2)
      PROVE  TypeOK'
  <2> DEFINE c1 == last + g1
             c2 == c1 + g2
             end == IF k = "branch" THEN c2 + 1 ELSE c2
  <2>1. /\ c1 \in FragId /\ c2 \in FragId /\ end \in FragId
        /\ last \in FragId /\ last .. end \subseteq FragId
    BY <1>6 DEF Insn, InsnMarks, Room, FragTypeOK, FragId, Grow
  <2>2. FragTypeOK'
    <3>1. fr_fix' \in [FragId -> Nat]
      BY <1>6, <2>1, FragMoreType DEF Insn, InsnMarks, FragTypeOK
    <3>2. fr_type' \in [FragId -> FragTypes]
      BY <1>6, FragNewType, FragVarType DEF Insn, InsnMarks, FragTypeOK, FragTypes
    <3> QED BY <1>6, <2>1, <3>1, <3>2 DEF Insn, InsnMarks, FragTypeOK
  <2>3. s # NULL \/ k = "plain"
    BY <1>6 DEF Insn, InsnMarks
  <2>4. SymTypeOK'
    <3>1. fixes' \subseteq Fix
      <4>1. k # "plain" => [frag |-> c2, sym |-> s, pcrel |-> TRUE] \in Fix
        BY <2>1, <2>3 DEF Fix
      <4>2. fixes' = IF k \in {"call", "mem", "lea"}
                     THEN fixes
                            \cup {[frag |-> c2, sym |-> s, pcrel |-> TRUE]}
                     ELSE fixes
        BY <1>6 DEF Insn, InsnMarks
      <4>3. k \in {"call", "mem", "lea"} => k # "plain"
        OBVIOUS
      <4> QED BY <4>1, <4>2, <4>3, Zenon DEF SymTypeOK
    <3> QED
      BY <1>6, <2>3, <3>1 DEF Insn, InsnMarks, update_symbol_status, SymTypeOK
  <2>5. StateTypeOK'
    <3>1. update_symbol_status(k, s)
      BY <1>6 DEF Insn, InsnMarks
    <3>2. /\ UNCHANGED <<now_seg, cur_func_name, text_cur_symbol,
                         total_hardcoded_bytes, phase>>
          /\ stmts' = stmts + 1
      BY <1>6, <3>1 DEF Insn, InsnMarks, update_symbol_status, Read
    <3>3. flash_symbol_point' \in BOOLEAN
      BY <3>1, FlashType
    <3> QED BY <3>2, <3>3 DEF StateTypeOK
  <2>6. HistTypeOK'
    BY <1>6, <2>1 DEF Insn, InsnMarks, HistTypeOK
  <2> QED BY <1>w, <2>2, <2>4, <2>5, <2>6
<1>7. ASSUME NEW k \in InsnKinds, NEW s \in Syms \cup {NULL},
             InsnElsewhere(k, s)
      PROVE  TypeOK'
  <2>1. s # NULL \/ k = "plain"
    BY <1>7 DEF InsnElsewhere
  <2>2. SymTypeOK' /\ StateTypeOK'
    <3>1. update_symbol_status(k, s)
      BY <1>7 DEF InsnElsewhere
    <3>2. flash_symbol_point' \in BOOLEAN
      BY <3>1, FlashType
    <3>3. SymTypeOK'
      BY <1>7, <2>1, <3>1 DEF InsnElsewhere, update_symbol_status, SymTypeOK
    <3>4. /\ UNCHANGED <<now_seg, cur_func_name, text_cur_symbol,
                         total_hardcoded_bytes, phase>>
          /\ stmts' = stmts + 1
      BY <1>7, <3>1 DEF InsnElsewhere, update_symbol_status, Read
    <3>5. StateTypeOK'
      BY <3>2, <3>4 DEF StateTypeOK
    <3> QED BY <3>3, <3>5
  <2>3. FragTypeOK' /\ HistTypeOK'
    BY <1>7 DEF InsnElsewhere, FragTypeOK, HistTypeOK, fragVars, histVars
  <2> QED BY <1>w, <2>2, <2>3
<1>8. ASSUME NEW k \in AlignKinds, NEW g \in Grow, Align(k, g)
      PROVE  TypeOK'
  <2> DEFINE c == IF DCollect /\ fr_fix[last] > 0 THEN last + 1 ELSE last
             end == IF k = "align0" THEN c ELSE c + g + 1
  <2>1. /\ c \in FragId /\ c + g \in FragId /\ end \in FragId /\ g \in Nat
    BY <1>8 DEF Align, AlignMarks, Room, FragTypeOK, FragId, Grow
  <2>2. FragTypeOK'
    <3>1. fr_type' \in [FragId -> FragTypes]
      BY <1>8, FragNewType, FragVarType DEF Align, AlignMarks, FragTypeOK, FragTypes
    <3>2. frag_grow(insn_frag, fr_fix[c], c, g) \subseteq FragId
      BY <2>1, FragGrowType
    <3> QED BY <1>8, <2>1, <3>1, <3>2 DEF Align, AlignMarks, FragTypeOK
  <2>3. SymTypeOK' /\ StateTypeOK' /\ HistTypeOK'
    <3>1. SymTypeOK'
      BY <1>8 DEF Align, AlignMarks, SymTypeOK, symVars
    <3>2. StateTypeOK'
      BY <1>8 DEF Align, AlignMarks, StateTypeOK, Read, stateVars
    <3>3. HistTypeOK'
      BY <1>8 DEF Align, AlignMarks, HistTypeOK
    <3> QED BY <3>1, <3>2, <3>3
  <2> QED BY <1>w, <2>2, <2>3
<1>9. ASSUME NEW s \in Syms, TypeFunction(s) \/ Size(s)
      PROVE  TypeOK'
  BY <1>w, <1>9 DEF TypeFunction, Size, Read, FragTypeOK, SymTypeOK,
                    StateTypeOK, HistTypeOK, fragVars, symVars, histVars
<1>10. ASSUME SwitchSection
       PROVE  TypeOK'
  BY <1>w, <1>10 DEF SwitchSection, Read, FragTypeOK, SymTypeOK, StateTypeOK,
                     HistTypeOK, fragVars, symVars, histVars
<1>11. ASSUME NEW g \in Grow, Finish(g)
       PROVE  TypeOK'
  <2>1. /\ last + g \in FragId /\ last + g + 1 \in FragId
        /\ last \in FragId /\ g \in Nat
    BY <1>11 DEF Finish, FragTypeOK, FragId, Grow
  <2>2. FragTypeOK'
    <3>1. frag_grow(insn_frag, fr_fix[last], last, g) \subseteq FragId
      BY <2>1, FragGrowType
    <3>2. frag_var(last, last + g, "rs_align_code") \in [FragId -> FragTypes]
      BY FragVarType DEF FragTypeOK, FragTypes
    <3>3. fr_type' \in [FragId -> FragTypes]
      BY <1>11, <3>2 DEF Finish, FragTypes
    <3> QED BY <1>11, <2>1, <3>1, <3>3 DEF Finish, FragTypeOK
  <2>3. SymTypeOK' /\ StateTypeOK' /\ HistTypeOK'
    BY <1>11 DEF Finish, SymTypeOK, StateTypeOK, HistTypeOK, symVars,
                 stateVars, histVars
  <2> QED BY <1>w, <2>2, <2>3
<1> QED BY <1>1, <1>2, <1>3, <1>4, <1>5, <1>6, <1>7, <1>8, <1>9, <1>10, <1>11
        DEF ReadNext
\* The steps of write_object_file keep the types.
LEMMA WriteTypeOKStep ==
  TypeOK /\ (ParseSymbols \/ ParseFrags \/ Split) => TypeOK'
<1> USE DEF TypeOK
<1>1. ASSUME TypeOK, ParseSymbols
      PROVE  TypeOK'
  <2> DEFINE direct_code == {s \in bind_bytes : sym_frag[s] \in insn_frag}
             direct_data == (bind_bytes \ direct_code)
                              \cap memory_access_symbol
  <2>1. FragTypeOK' /\ SymTypeOK' /\ HistTypeOK'
    BY <1>1 DEF ParseSymbols, readVars, fragVars, symVars, histVars,
                FragTypeOK, SymTypeOK, HistTypeOK
  <2>2. StateTypeOK'
    BY <1>1 DEF ParseSymbols, readVars, stateVars, StateTypeOK
  <2>3. Cardinality(direct_code) \in Nat /\ Cardinality(direct_data) \in Nat
    <3>1. direct_code \subseteq Syms /\ direct_data \subseteq Syms
      BY <1>1 DEF SymTypeOK
    <3> HIDE DEF direct_code, direct_data
    <3> QED BY <3>1, FS_Subset, FS_CardinalityType
  <2>4. {sym_frag[s] : s \in bind_bytes} \ {0} \subseteq FragId
    BY <1>1 DEF SymTypeOK
  <2>5. checked' \subseteq FragId
    BY <1>1, <2>4 DEF ParseSymbols, WriteTypeOK
  <2>6. counts' \in Counters
    <3>1. [counts EXCEPT !.direct_code_num = Cardinality(direct_code),
                         !.direct_data_num = Cardinality(direct_data)]
            \in Counters
      <4> HIDE DEF direct_code, direct_data
      <4> QED BY <1>1, <2>3 DEF WriteTypeOK, Counters
    <3> HIDE DEF Counters
    <3> QED BY <1>1, <3>1 DEF ParseSymbols, WriteTypeOK
  <2> QED BY <1>1, <2>1, <2>2, <2>5, <2>6 DEF ParseSymbols, WriteTypeOK
<1>2. ASSUME TypeOK, ParseFrags
      PROVE  TypeOK'
  <2> DEFINE hard == {i \in 1 .. last : i \in frag_has_hardcode}
             fall == {i \in hard : /\ i \notin checked
                                   /\ frag_symbol[i] # NULL
                                   /\ i \in insn_frag}
  <2>1. FragTypeOK' /\ SymTypeOK' /\ HistTypeOK'
    BY <1>2 DEF ParseFrags, readVars, fragVars, symVars, histVars,
                FragTypeOK, SymTypeOK, HistTypeOK
  <2>2. StateTypeOK'
    BY <1>2 DEF ParseFrags, readVars, stateVars, StateTypeOK
  <2>3. Cardinality(hard) \in Nat /\ Cardinality(fall) \in Nat
    <3>1. hard \subseteq 1 .. last /\ fall \subseteq 1 .. last
      OBVIOUS
    <3>2. IsFiniteSet(1 .. last)
      BY <1>2, FS_Interval DEF FragTypeOK, FragId
    <3> HIDE DEF hard, fall
    <3> QED BY <3>1, <3>2, FS_Subset, FS_CardinalityType
  <2>4. counts' \in Counters
    <3>1. [counts EXCEPT !.bytes_frag_num = Cardinality(hard),
                         !.fall_through_num = Cardinality(fall)] \in Counters
      <4> HIDE DEF hard, fall
      <4> QED BY <1>2, <2>3 DEF WriteTypeOK, Counters
    <3> QED BY <1>2, <3>1 DEF ParseFrags, WriteTypeOK
  <2>5. ASSUME NEW i \in FragId
        PROVE  EntriesOf(i) \in Seq(Entry)
    <3> DEFINE anchor == [frag_size |-> 0, name |-> frag_anchor[i]]
               own == [frag_size |-> fr_fix[i], name |-> frag_symbol[i]]
    <3>1. anchor \in Entry /\ own \in Entry
      BY <1>2 DEF Entry, FragTypeOK
    <3> HIDE DEF anchor, own
    <3>2. <<>> \in Seq(Entry) /\ <<own>> \in Seq(Entry)
          /\ <<anchor, own>> \in Seq(Entry)
      BY <3>1
    <3>3. EntriesOf(i) = IF ~IsEntry(i) THEN <<>>
                         ELSE IF i \in anchor_frag THEN <<anchor, own>>
                         ELSE <<own>>
      BY DEF EntriesOf, anchor, own
    <3> QED BY <3>2, <3>3, Zenon
  <2>6. entries' \in [FragId -> Seq(Entry)]
    BY <1>2, <2>5 DEF ParseFrags, WriteTypeOK
  <2> QED BY <1>2, <2>1, <2>2, <2>4, <2>6 DEF ParseFrags, WriteTypeOK
<1>3. ASSUME TypeOK, Split
      PROVE  TypeOK'
  <2> DEFINE homes == {frag_symbol[i] : i \in SplitData} \ {NULL}
  <2>1. FragTypeOK' /\ HistTypeOK'
    BY <1>3 DEF Split, Homes, fragVars, histVars, FragTypeOK, HistTypeOK
  <2>2. StateTypeOK'
    BY <1>3 DEF Split, Homes, stateVars, StateTypeOK
  <2>3. SymTypeOK'
    <3>1. ASSUME NEW f \in fixes
          PROVE  [frag |-> f.frag, sym |-> f.sym,
                  pcrel |-> (f.pcrel \/ f.sym \in homes)] \in Fix
      <4>1. f \in Fix
        BY <1>3 DEF SymTypeOK
      <4> HIDE DEF homes
      <4> QED BY <4>1 DEF Fix
    <3>2. fixes' \subseteq Fix
      BY <1>3, <3>1 DEF Split, Homes, SymTypeOK
    <3>3. sym_seg' \in [Syms -> {"undefined", "text", "other", "xom_data"}]
      BY <1>3 DEF Split, Homes, SymTypeOK
    <3> QED BY <1>3, <3>2, <3>3 DEF Split, Homes, SymTypeOK
  <2>4. moved' \subseteq FragId
    BY <1>3 DEF Split, Homes, SplitData, SplitAlign, Walked, FragTypeOK, WriteTypeOK,
                FragId
  <2> QED BY <1>3, <2>1, <2>2, <2>3, <2>4 DEF Split, Homes, WriteTypeOK
<1> QED BY <1>1, <1>2, <1>3

\* The types hold in every state the assembler reaches, for every source
\* file, every bound and both options.
THEOREM TypeCorrect == Spec => []TypeOK
<1>1. TypeOK /\ [Next]_vars => TypeOK'
  <2>1. TypeOK /\ UNCHANGED vars => TypeOK'
    BY DEF TypeOK, FragTypeOK, SymTypeOK, StateTypeOK, HistTypeOK,
           WriteTypeOK, vars, readVars, writeVars, fragVars, symVars,
           stateVars, histVars
  <2> QED BY <2>1, ReadTypeOK, WriteTypeOKStep DEF Next, Done
<1> QED BY InitTypeOK, <1>1, PTL DEF Spec

(***************************************************************************)
(* The separation of code and data.                                        *)
(***************************************************************************)

\* gas_init leaves nothing marked and nothing written.
LEMMA InitMarkInv == Init => MarkInv
  BY DEF Init, ReadInit, MarkInv, UnopenedEmpty, CodeMarked, AlignEmpty,
         GlueOpen, MovedUnmarked

\* A step that leaves the frags, the marks and the history alone keeps the
\* invariant.
LEMMA IdleMarkInv ==
  ASSUME MarkInv, UNCHANGED <<fragVars, histVars, phase, moved>>
  PROVE  MarkInv'
  BY DEF fragVars, histVars, MarkInv, UnopenedEmpty, CodeMarked, AlignEmpty,
         GlueOpen, MovedUnmarked

\* A step that writes no bytes, opens frags and ends the run of instructions
\* keeps the invariant.
LEMMA ForwardMarkInv ==
  ASSUME MarkInv, MovedUnmarked', last \in Nat, last' \in Nat, last < last',
         insn_frag \subseteq insn_frag',
         UNCHANGED <<fr_fix, align_frag, code, glued>>,
         glue' = FALSE \/ phase' # "read",
         align_frag \subseteq FragId
  PROVE  MarkInv'
<1>1. UnopenedEmpty'
  BY DEF MarkInv, UnopenedEmpty, FragId
<1>2. CodeMarked'
  BY DEF MarkInv, CodeMarked
<1>3. AlignEmpty'
  BY DEF MarkInv, AlignEmpty, FragId
<1>4. GlueOpen'
  BY DEF GlueOpen
<1> QED BY <1>1, <1>2, <1>3, <1>4 DEF MarkInv

\* Every statement and the end of the source keep the invariant.
LEMMA ReadMarkInv ==
  ASSUME DCollect = TRUE, "align0" \notin Stmts,
         TypeOK, MarkInv, ReadNext, UNCHANGED writeVars
  PROVE  MarkInv'
<1> USE DEF TypeOK
<1>p. phase = "read" /\ moved = {} /\ moved' = {}
  <2>1. ASSUME NEW k, Read(k) PROVE phase = "read"
    BY <2>1 DEF Read
  <2>2. phase = "read"
    <3> USE <2>1
    <3>1. ASSUME NEW s \in Syms, NEW b \in BOOLEAN, Label(s, b)
          PROVE  phase = "read"
      BY <3>1 DEF Label
    <3>2. ASSUME NEW s \in Syms,
                 LabelElsewhere(s) \/ TypeFunction(s) \/ Size(s)
          PROVE  phase = "read"
      BY <3>2 DEF LabelElsewhere, TypeFunction, Size
    <3>3. ASSUME NEW s, NEW b, NEW g1, NEW g2, Cons(s, b, g1, g2)
          PROVE  phase = "read"
      BY <3>3 DEF Cons
    <3>4. ASSUME NEW g, String(g) \/ Space(g) \/ Finish(g)
          PROVE  phase = "read"
      BY <3>4 DEF String, Space, Finish
    <3>5. ASSUME NEW k, NEW s, NEW g1, NEW g2,
                 Insn(k, s, g1, g2) \/ InsnElsewhere(k, s) \/ Align(k, g1)
          PROVE  phase = "read"
      BY <3>5 DEF Insn, InsnElsewhere, Align
    <3>6. SwitchSection => phase = "read"
      BY DEF SwitchSection
    <3> QED BY <3>1, <3>2, <3>3, <3>4, <3>5, <3>6 DEF ReadNext
  <2> QED BY <2>2 DEF MarkInv, MovedUnmarked, writeVars
<1>m. MovedUnmarked'
  BY <1>p DEF MovedUnmarked
<1>1. ASSUME NEW s \in Syms, NEW named \in BOOLEAN, Label(s, named)
      PROVE  MarkInv'
  <2> DEFINE c == IF ~is_in_func /\ fr_fix[last] > 0 THEN last + 1 ELSE last
  <2>1. /\ last' = c /\ c >= last /\ glue' = (glue /\ is_in_func)
        /\ UNCHANGED <<fr_fix, insn_frag, align_frag, code, glued>>
    BY <1>1 DEF Label, FragTypeOK, FragId
  <2>2. UnopenedEmpty' /\ CodeMarked' /\ AlignEmpty'
    BY <2>1 DEF MarkInv, UnopenedEmpty, CodeMarked, AlignEmpty, FragTypeOK,
                FragId
  <2>3. GlueOpen'
    BY <2>1, <1>p DEF MarkInv, GlueOpen, HistTypeOK
  <2> QED BY <1>m, <2>2, <2>3 DEF MarkInv
<1>2. ASSUME NEW s \in Syms, LabelElsewhere(s)
      PROVE  MarkInv'
  BY <1>2, <1>p, IdleMarkInv DEF LabelElsewhere, Read
<1>3. ASSUME NEW s \in Syms \cup {NULL}, NEW two \in BOOLEAN,
             NEW g1 \in Grow, NEW g2 \in Grow, Cons(s, two, g1, g2)
      PROVE  MarkInv'
  <2> DEFINE c1 == last + g1
             c2 == c1 + g2
             m1 == insn_frag \cup frag_grow(insn_frag, fr_fix[last], last, g1)
             f1 == frag_more(fr_fix, c1)
  <2>1. /\ c1 \in FragId /\ c2 \in FragId
        /\ last \in FragId /\ g1 \in Nat /\ g2 \in Nat
    BY <1>3 DEF Cons, Room, FragTypeOK, FragId, Grow
  <2>2. /\ fr_fix'[c1] > 0 /\ fr_fix'[c2] > 0
        /\ \A i \in FragId : /\ fr_fix[i] > 0 => fr_fix'[i] > 0
                             /\ (i # c1 /\ i # c2) => fr_fix'[i] = fr_fix[i]
    <3>1. fr_fix' = IF two THEN frag_more(f1, c2) ELSE f1
      BY <1>3 DEF Cons
    <3>2. ~two => c1 = c2
      BY <1>3, <2>1 DEF Cons, FragId
    <3>3. f1 \in [FragId -> Nat]
      BY <2>1, FragMoreType DEF FragTypeOK
    <3>4. CASE two
      BY <2>1, <3>1, <3>3, <3>4, FragMoreType DEF FragTypeOK
    <3>5. CASE ~two
      BY <2>1, <3>1, <3>2, <3>5, FragMoreType DEF FragTypeOK
    <3> QED BY <3>4, <3>5
  <2>3. /\ insn_frag \subseteq insn_frag' /\ m1 \subseteq insn_frag'
        /\ insn_frag' = m1 \cup frag_grow(m1, f1[c1], c1, g2)
    BY <1>3 DEF Cons
  <2>4. ASSUME glue
        PROVE  c1 \in insn_frag' /\ c2 \in insn_frag'
    <3>1. last \in insn_frag /\ fr_fix[last] > 0
      BY <1>p, <2>4 DEF MarkInv, GlueOpen
    <3>2. c1 \in m1
      <4>1. CASE g1 = 0
        BY <2>1, <3>1, <4>1 DEF FragId
      <4>2. CASE g1 > 0
        BY <2>1, <3>1, <4>2, FragGrowType
      <4> QED BY <2>1, <4>1, <4>2
    <3>3. c2 \in insn_frag'
      <4>1. CASE g2 = 0
        BY <2>1, <2>3, <3>2, <4>1 DEF FragId
      <4>2. CASE g2 > 0
        <5>1. f1[c1] > 0
          BY <2>1, FragMoreType DEF FragTypeOK
        <5>2. c2 \in frag_grow(m1, f1[c1], c1, g2)
          <6> HIDE DEF f1, m1, c1
          <6> QED BY <2>1, <3>2, <4>2, <5>1, FragGrowType
        <5> QED BY <2>3, <5>2
      <4> QED BY <2>1, <4>1, <4>2
    <3> QED BY <2>3, <3>2, <3>3
  <2>5. /\ last' = c2 /\ glue' = glue
        /\ UNCHANGED <<align_frag, code>>
        /\ glued' = IF glue THEN glued \cup {c1, c2} ELSE glued
    BY <1>3 DEF Cons, WroteData
  <2>6. UnopenedEmpty'
    BY <2>1, <2>2, <2>5 DEF MarkInv, UnopenedEmpty, FragId
  <2>7. CodeMarked'
    BY <2>1, <2>2, <2>3, <2>4, <2>5
       DEF MarkInv, CodeMarked, HistTypeOK
  <2>8. AlignEmpty'
    BY <2>1, <2>2, <2>5 DEF MarkInv, AlignEmpty, FragTypeOK, FragId
  <2>9. GlueOpen'
    BY <2>2, <2>4, <2>5 DEF GlueOpen
  <2> QED BY <1>m, <2>6, <2>7, <2>8, <2>9 DEF MarkInv
<1>4. ASSUME NEW g \in {0, 1}, String(g)
      PROVE  MarkInv'
  <2>1. last + g \in FragId /\ last \in FragId
    BY <1>4 DEF String, Room, FragTypeOK, FragId
  <2>2. /\ last' = last + g /\ fr_fix' = frag_more(fr_fix, last + g)
        /\ glue' = FALSE
        /\ UNCHANGED <<insn_frag, align_frag, code, glued>>
    BY <1>4 DEF String, WroteData
  <2>3. \A i \in FragId :
          /\ fr_fix[i] > 0 => fr_fix'[i] > 0
          /\ i # last + g => fr_fix'[i] = fr_fix[i]
    BY <2>1, <2>2, FragMoreType DEF FragTypeOK
  <2> QED BY <1>m, <2>1, <2>2, <2>3
          DEF MarkInv, UnopenedEmpty, CodeMarked, AlignEmpty, GlueOpen,
              FragTypeOK, HistTypeOK, FragId
<1>5. ASSUME NEW g \in Grow, Space(g)
      PROVE  MarkInv'
  <2>1. /\ last' = last + g + 1 /\ glue' = FALSE
        /\ insn_frag \subseteq insn_frag'
        /\ UNCHANGED <<fr_fix, align_frag, code, glued>>
    BY <1>5 DEF Space, WroteData
  <2>2. /\ last \in Nat /\ last' \in Nat /\ last < last'
        /\ align_frag \subseteq FragId
    BY <2>1 DEF FragTypeOK, FragId, Grow
  <2> QED BY <1>m, <2>1, <2>2, ForwardMarkInv
<1>6. ASSUME NEW k \in InsnKinds, NEW s \in Syms \cup {NULL},
             NEW g1 \in Grow, NEW g2 \in Grow, Insn(k, s, g1, g2)
      PROVE  MarkInv'
  <2> DEFINE two == k \in {"call", "mem", "lea"}
             c1 == last + g1
             c2 == c1 + g2
             end == IF k = "branch" THEN c2 + 1 ELSE c2
             f1 == frag_more(fr_fix, c1)
  <2>1. /\ c1 \in FragId /\ c2 \in FragId /\ last \in FragId
        /\ end \in FragId /\ c1 \in last .. end /\ c2 \in last .. end
        /\ last <= end /\ c1 <= end /\ c2 <= end
        /\ last <= c1 /\ last <= c2
    BY <1>6 DEF Insn, InsnMarks, Room, FragTypeOK, FragId, Grow
  <2>2. /\ last' = end
        /\ fr_fix' = IF two THEN frag_more(f1, c2) ELSE f1
        /\ insn_frag' = insn_frag \cup (last .. end)
        /\ code' = code \cup {c1, c2}
        /\ glue' = (k # "branch")
        /\ UNCHANGED <<align_frag, glued>>
    BY <1>6 DEF Insn, InsnMarks
  <2>3. /\ fr_fix'[c1] > 0 /\ fr_fix'[c2] > 0
        /\ \A i \in FragId : /\ fr_fix[i] > 0 => fr_fix'[i] > 0
                             /\ (i # c1 /\ i # c2) => fr_fix'[i] = fr_fix[i]
    <3>2. ~two => c1 = c2
      BY <1>6, <2>1 DEF Insn, InsnMarks, FragId
    <3>3. f1 \in [FragId -> Nat]
      BY <2>1, FragMoreType DEF FragTypeOK
    <3>4. CASE two
      BY <2>1, <2>2, <3>3, <3>4, FragMoreType DEF FragTypeOK
    <3>5. CASE ~two
      BY <2>1, <2>2, <3>2, <3>5, FragMoreType DEF FragTypeOK
    <3> QED BY <3>4, <3>5
  <2>4. UnopenedEmpty'
    BY <2>1, <2>2, <2>3 DEF MarkInv, UnopenedEmpty, FragId
  <2>5. CodeMarked'
    BY <2>1, <2>2, <2>3 DEF MarkInv, CodeMarked, HistTypeOK
  <2>6. AlignEmpty'
    <3> SUFFICES ASSUME NEW i \in align_frag
                 PROVE  i < last' /\ fr_fix'[i] = 0
      BY <2>2 DEF AlignEmpty
    <3>1. i \in FragId /\ i < last /\ fr_fix[i] = 0
      BY DEF MarkInv, AlignEmpty, FragTypeOK
    <3>2. i < end /\ i # c1 /\ i # c2
      <4> HIDE DEF c1, c2, end
      <4> QED BY <2>1, <3>1 DEF FragId
    <3> HIDE DEF c1, c2, end
    <3> QED BY <2>2, <2>3, <3>1, <3>2
  <2>7. GlueOpen'
    BY <2>1, <2>2, <2>3 DEF GlueOpen
  <2> QED BY <1>m, <2>4, <2>5, <2>6, <2>7 DEF MarkInv
<1>7. ASSUME NEW k \in InsnKinds, NEW s \in Syms \cup {NULL},
             InsnElsewhere(k, s)
      PROVE  MarkInv'
  BY <1>7, <1>p, IdleMarkInv DEF InsnElsewhere, Read
<1>8. ASSUME NEW k \in AlignKinds, NEW g \in Grow, Align(k, g)
      PROVE  MarkInv'
  <2> DEFINE c == IF fr_fix[last] > 0 THEN last + 1 ELSE last
  <2>1. k # "align0"
    BY <1>8 DEF Align, AlignMarks, Read
  <2>2. /\ last' = c + g + 1 /\ glue' = FALSE
        /\ insn_frag \subseteq insn_frag'
        /\ align_frag' \subseteq align_frag \cup {c, c + g}
        /\ UNCHANGED <<fr_fix, code, glued>>
    BY <1>8, <2>1 DEF Align, AlignMarks
  <2>3. /\ c \in FragId /\ c + g \in FragId /\ c <= c + g /\ last <= c
        /\ c + g < c + g + 1 /\ last < c + g + 1 /\ c < c + g + 1
    BY <1>8, <2>1 DEF Align, AlignMarks, Room, FragTypeOK, FragId, Grow
  <2>4. fr_fix[c] = 0 /\ fr_fix[c + g] = 0
    <3>1. fr_fix[c] = 0
      BY <2>3 DEF MarkInv, UnopenedEmpty, FragTypeOK, FragId
    <3>2. CASE g = 0
      BY <2>3, <3>1, <3>2 DEF FragId
    <3>3. CASE g > 0
      <4>1. c + g > last
        BY <2>3, <3>3 DEF FragTypeOK, FragId, Grow
      <4> HIDE DEF c
      <4> QED BY <2>3, <3>1, <4>1 DEF MarkInv, UnopenedEmpty
    <3> QED BY <3>2, <3>3 DEF Grow
  <2>5. UnopenedEmpty'
    <3> HIDE DEF c
    <3> QED BY <2>2, <2>3 DEF MarkInv, UnopenedEmpty, FragTypeOK, FragId, Grow
  <2>7. CodeMarked' /\ GlueOpen'
    BY <2>2 DEF MarkInv, CodeMarked, GlueOpen
  <2>6. AlignEmpty'
    BY <2>2, <2>3, <2>4 DEF MarkInv, AlignEmpty, FragTypeOK, FragId
  <2> QED BY <1>m, <2>5, <2>6, <2>7 DEF MarkInv
<1>9. ASSUME NEW s \in Syms, TypeFunction(s) \/ Size(s)
      PROVE  MarkInv'
  BY <1>9, <1>p, IdleMarkInv DEF TypeFunction, Size, Read
<1>10. ASSUME SwitchSection
       PROVE  MarkInv'
  BY <1>10, <1>p, IdleMarkInv DEF SwitchSection, Read
<1>11. ASSUME NEW g \in Grow, Finish(g)
       PROVE  MarkInv'
  <2>1. /\ last' = last + g + 1 /\ phase' = "chained"
        /\ insn_frag \subseteq insn_frag'
        /\ UNCHANGED <<fr_fix, align_frag, code, glued>>
    BY <1>11 DEF Finish, histVars
  <2>2. /\ last \in Nat /\ last' \in Nat /\ last < last'
        /\ align_frag \subseteq FragId
    BY <2>1 DEF FragTypeOK, FragId, Grow
  <2> QED BY <1>m, <2>1, <2>2, ForwardMarkInv
<1> QED BY <1>1, <1>2, <1>3, <1>4, <1>5, <1>6, <1>7, <1>8, <1>9, <1>10, <1>11
        DEF ReadNext

\* The steps of write_object_file keep the invariant.
LEMMA WriteMarkInv ==
  ASSUME TypeOK, MarkInv, ParseSymbols \/ ParseFrags \/ Split
  PROVE  MarkInv'
<1>1. CASE ParseSymbols
  BY <1>1 DEF ParseSymbols, readVars, fragVars, histVars, MarkInv,
              UnopenedEmpty, CodeMarked, AlignEmpty, GlueOpen, MovedUnmarked
<1>2. CASE ParseFrags
  BY <1>2 DEF ParseFrags, readVars, fragVars, histVars, MarkInv,
              UnopenedEmpty, CodeMarked, AlignEmpty, GlueOpen, MovedUnmarked
<1>3. CASE Split
  <2>1. /\ UNCHANGED <<fragVars, histVars>> /\ phase' = "done"
        /\ moved' \subseteq moved \cup SplitData \cup SplitAlign
    BY <1>3 DEF Split, Homes
  <2>2. UnopenedEmpty' /\ CodeMarked' /\ AlignEmpty' /\ GlueOpen'
    BY <2>1 DEF fragVars, histVars, MarkInv, UnopenedEmpty, CodeMarked,
                AlignEmpty, GlueOpen
  <2>3. MovedUnmarked'
    BY <2>1 DEF fragVars, MarkInv, MovedUnmarked, SplitData, SplitAlign
  <2> QED BY <2>2, <2>3 DEF MarkInv
<1> QED BY <1>1, <1>2, <1>3

\* With --fiy-dcollect and no `.align 1' the marks are right in every state.
THEOREM MarksCorrect ==
  ASSUME DCollect = TRUE, "align0" \notin Stmts
  PROVE  Spec => [](TypeOK /\ MarkInv)
<1>1. TypeOK /\ MarkInv /\ [Next]_vars => MarkInv'
  <2>1. MarkInv /\ UNCHANGED vars => MarkInv'
    BY IdleMarkInv DEF vars, readVars, writeVars
  <2> QED BY <2>1, ReadMarkInv, WriteMarkInv DEF Next, Done
<1> QED BY InitMarkInv, TypeCorrect, <1>1, PTL DEF Spec

\* No byte of an instruction leaves .text, for every source file assembled
\* with --fiy-dcollect that does not use `.align 1'.
THEOREM CodeStays ==
  ASSUME DCollect = TRUE, "align0" \notin Stmts
  PROVE  Spec => []NoCodeMoved
<1>1. TypeOK /\ MarkInv => NoCodeMoved
  BY DEF MarkInv, CodeMarked, AlignEmpty, MovedUnmarked, NoCodeMoved
<1> QED BY MarksCorrect, <1>1, PTL

\* Nor do hard-coded bytes that continue a run of instructions, wherever the
\* obstack ran out of room.
THEOREM GluedStay ==
  ASSUME DCollect = TRUE, "align0" \notin Stmts
  PROVE  Spec => []GluedBytesStay
<1>1. TypeOK /\ MarkInv => GluedBytesStay
  BY DEF MarkInv, CodeMarked, AlignEmpty, MovedUnmarked, GluedBytesStay
<1> QED BY MarksCorrect, <1>1, PTL
=============================================================================
