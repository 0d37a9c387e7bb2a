------------------------- MODULE AsmXomSplitProofs -------------------------
(***************************************************************************)
(* Theorems about what AsmXom moves, for every source file and every       *)
(* bound: that the metadata, the symbols and the alignment agree with the  *)
(* split, and that labelled data does leave .text.                         *)
(***************************************************************************)
EXTENDS AsmXomProofs

USE ConstantsOK, OptionsOK

(***************************************************************************)
(* What a statement of the source does not do.                             *)
(***************************************************************************)

\* Statements are read in the phase "read", which the end of the source ends.
LEMMA ReadPhase ==
  ASSUME ReadNext
  PROVE  phase = "read" /\ phase' \in {"read", "chained"}
<1>1. ASSUME NEW k, Read(k) PROVE phase = "read" /\ phase' = "read"
  BY <1>1 DEF Read
<1> USE <1>1
<1>2. ASSUME NEW s \in Syms, NEW b \in BOOLEAN, Label(s, b)
      PROVE  phase = "read" /\ phase' = "read"
  BY <1>2 DEF Label
<1>3. ASSUME NEW s \in Syms, LabelElsewhere(s) \/ TypeFunction(s) \/ Size(s)
      PROVE  phase = "read" /\ phase' = "read"
  BY <1>3 DEF LabelElsewhere, TypeFunction, Size
<1>4. ASSUME NEW s, NEW b, NEW g1, NEW g2, Cons(s, b, g1, g2)
      PROVE  phase = "read" /\ phase' = "read"
  BY <1>4 DEF Cons
<1>5. ASSUME NEW g, String(g) \/ Space(g)
      PROVE  phase = "read" /\ phase' = "read"
  BY <1>5 DEF String, Space
<1>6. ASSUME NEW k, NEW s, NEW g1, NEW g2,
             Insn(k, s, g1, g2) \/ InsnElsewhere(k, s) \/ Align(k, g1)
      PROVE  phase = "read" /\ phase' = "read"
  BY <1>6 DEF Insn, InsnElsewhere, Align
<1>7. SwitchSection => phase = "read" /\ phase' = "read"
  BY DEF SwitchSection
<1>8. ASSUME NEW g, Finish(g)
      PROVE  phase = "read" /\ phase' = "chained"
  BY <1>8 DEF Finish
<1> QED BY <1>2, <1>3, <1>4, <1>5, <1>6, <1>7, <1>8 DEF ReadNext

\* Only labels name frags and define symbols.
LEMMA ReadSymbols ==
  ASSUME ReadNext
  PROVE  \/ \E s \in Syms, named \in BOOLEAN : Label(s, named)
         \/ \E s \in Syms : LabelElsewhere(s)
         \/ UNCHANGED <<frag_symbol, sym_seg, sym_frag>>
<1>1. ASSUME NEW s, NEW b, NEW g1, NEW g2, Cons(s, b, g1, g2)
      PROVE  UNCHANGED <<frag_symbol, sym_seg, sym_frag>>
  BY <1>1 DEF Cons
<1>2. ASSUME NEW g, String(g) \/ Space(g) \/ Finish(g)
      PROVE  UNCHANGED <<frag_symbol, sym_seg, sym_frag>>
  BY <1>2 DEF String, Space, Finish, symVars
<1>3. ASSUME NEW k, NEW s, NEW g1, NEW g2,
             Insn(k, s, g1, g2) \/ InsnElsewhere(k, s)
      PROVE  UNCHANGED <<frag_symbol, sym_seg, sym_frag>>
  BY <1>3 DEF Insn, InsnElsewhere, update_symbol_status, fragVars
<1>4. ASSUME NEW k, NEW g, Align(k, g)
      PROVE  UNCHANGED <<frag_symbol, sym_seg, sym_frag>>
  BY <1>4 DEF Align, symVars
<1>5. ASSUME NEW s, TypeFunction(s) \/ Size(s)
      PROVE  UNCHANGED <<frag_symbol, sym_seg, sym_frag>>
  BY <1>5 DEF TypeFunction, Size, fragVars, symVars
<1>6. SwitchSection => UNCHANGED <<frag_symbol, sym_seg, sym_frag>>
  BY DEF SwitchSection, fragVars, symVars
<1> QED BY <1>1, <1>2, <1>3, <1>4, <1>5, <1>6 DEF ReadNext

(***************************************************************************)
(* The split, the metadata and the symbols agree.                          *)
(***************************************************************************)

\* gas_init leaves nothing moved, listed or named.
LEMMA InitSplitInv == Init => SplitInv
  BY DEF Init, ReadInit, SplitInv, MovedIsSplit, EntriesCurrent,
         SymbolsAtHome

\* A label keeps the symbol of every frag defined in that frag.
LEMMA ReadAtHome ==
  ASSUME TypeOK, SymbolsAtHome, ReadNext
  PROVE  SymbolsAtHome'
<1>p. phase = "read"
  BY ReadPhase
<1>x. \A s \in Syms : sym_seg[s] # "xom_data"
  BY <1>p DEF SymbolsAtHome
<1>1. ASSUME NEW s \in Syms, NEW named \in BOOLEAN, Label(s, named)
      PROVE  SymbolsAtHome'
  <2> DEFINE e == IF DCollect /\ ~is_in_func /\ fr_fix[last] > 0
                  THEN last + 1 ELSE last
  <2>0. e \in FragId
    BY <1>1 DEF Label, Room, TypeOK, FragTypeOK, FragId
  <2>1. PICK c \in FragId :
          /\ frag_symbol' = IF DCollect /\ named
                            THEN [frag_symbol EXCEPT ![c] = s]
                            ELSE frag_symbol
          /\ sym_seg' = [sym_seg EXCEPT ![s] = "text"]
          /\ sym_frag' = [sym_frag EXCEPT ![s] = c]
          /\ sym_seg[s] = "undefined"
    <3> WITNESS e \in FragId
    <3> QED BY <1>1 DEF Label
  <2>2. \A r \in Syms : sym_seg'[r] # "xom_data"
    BY <2>1, <1>x DEF TypeOK, SymTypeOK
  <2>3. ASSUME NEW j \in FragId, frag_symbol'[j] # NULL
        PROVE  /\ sym_frag'[frag_symbol'[j]] = j
               /\ sym_seg'[frag_symbol'[j]] # "undefined"
    <3>1. CASE frag_symbol'[j] = s
      <4>1. frag_symbol[j] # s
        BY <2>1 DEF SymbolsAtHome
      <4>2. j = c
        BY <2>1, <3>1, <4>1 DEF TypeOK, FragTypeOK
      <4> QED BY <2>1, <3>1, <4>2 DEF TypeOK, SymTypeOK
    <3>2. CASE frag_symbol'[j] # s
      <4>1. frag_symbol'[j] = frag_symbol[j] /\ frag_symbol[j] \in Syms
        BY <2>1, <2>3, <3>2 DEF TypeOK, FragTypeOK
      <4> QED BY <2>1, <2>3, <3>2, <4>1 DEF SymbolsAtHome, TypeOK, SymTypeOK
    <3> QED BY <3>1, <3>2
  <2> QED BY <2>2, <2>3 DEF SymbolsAtHome
<1>2. ASSUME NEW s \in Syms, LabelElsewhere(s)
      PROVE  SymbolsAtHome'
  <2>1. /\ sym_seg' = [sym_seg EXCEPT ![s] = "other"]
        /\ UNCHANGED <<frag_symbol, sym_frag>>
    BY <1>2 DEF LabelElsewhere, fragVars
  <2>2. \A r \in Syms : sym_seg'[r] # "xom_data"
    BY <2>1, <1>x DEF TypeOK, SymTypeOK
  <2> QED BY <2>1, <2>2 DEF SymbolsAtHome, TypeOK, FragTypeOK, SymTypeOK
<1>3. ASSUME UNCHANGED <<frag_symbol, sym_seg, sym_frag>>
      PROVE  SymbolsAtHome'
  BY <1>3, <1>x DEF SymbolsAtHome
<1> QED BY <1>1, <1>2, <1>3, ReadSymbols

\* The statements and the end of the source keep the invariant.
LEMMA ReadSplitInv ==
  ASSUME TypeOK, SplitInv, ReadNext, UNCHANGED writeVars
  PROVE  SplitInv'
<1>1. MovedIsSplit'
  BY ReadPhase DEF SplitInv, MovedIsSplit, writeVars
<1>2. EntriesCurrent'
  BY ReadPhase DEF EntriesCurrent
<1>3. SymbolsAtHome'
  BY ReadAtHome DEF SplitInv
<1> QED BY <1>1, <1>2, <1>3 DEF SplitInv

\* What the passes of write_object_file decide on stays as it is while the
\* frags and the marks of symbols do.
LEMMA SplitSame ==
  ASSUME UNCHANGED <<fragVars, call_flow_symbol>>
  PROVE  /\ SplitData' = SplitData /\ SplitAlign' = SplitAlign
         /\ Homes' = Homes
         /\ \A i \in FragId : EntriesOf(i)' = EntriesOf(i)
<1> USE DEF fragVars, Walked, S_IS_CF_SYMBOL
<1>1. SplitData' = SplitData
  BY DEF SplitData
<1>2. SplitAlign' = SplitAlign
  BY <1>1 DEF SplitAlign
<1>3. Homes' = Homes
  BY <1>1 DEF Homes
<1>4. ASSUME NEW i \in FragId PROVE EntriesOf(i)' = EntriesOf(i)
  BY DEF EntriesOf, IsEntry
<1> QED BY <1>1, <1>2, <1>3, <1>4

\* The steps of write_object_file keep the invariant.
LEMMA WriteSplitInv ==
  ASSUME TypeOK, SplitInv, ParseSymbols \/ ParseFrags \/ Split
  PROVE  SplitInv'
<1>1. CASE ParseSymbols
  <2>1. /\ phase = "chained" /\ phase' = "symbols"
        /\ UNCHANGED <<fragVars, symVars, moved, entries>>
    BY <1>1 DEF ParseSymbols, readVars
  <2> QED BY <2>1 DEF SplitInv, MovedIsSplit, EntriesCurrent, SymbolsAtHome,
                      fragVars, symVars
<1>2. CASE ParseFrags
  <2>1. /\ phase = "symbols" /\ phase' = "collected"
        /\ UNCHANGED <<fragVars, symVars, moved>>
        /\ DCollect => entries' = [i \in FragId |-> EntriesOf(i)]
    BY <1>2 DEF ParseFrags, readVars
  <2>2. EntriesCurrent'
    BY <2>1, SplitSame DEF EntriesCurrent, symVars
  <2>3. MovedIsSplit' /\ SymbolsAtHome'
    BY <2>1 DEF SplitInv, MovedIsSplit, SymbolsAtHome, fragVars, symVars
  <2> QED BY <2>2, <2>3 DEF SplitInv
<1>3. CASE Split
  <2>1. /\ phase = "collected" /\ phase' = "done"
        /\ UNCHANGED <<fragVars, call_flow_symbol, sym_frag, entries>>
        /\ moved' = IF DSplit THEN SplitData \cup SplitAlign ELSE moved
        /\ sym_seg' = IF DSplit
                      THEN [s \in Syms |-> IF s \in Homes THEN "xom_data"
                                           ELSE sym_seg[s]]
                      ELSE sym_seg
    BY <1>3 DEF Split
  <2>2. MovedIsSplit'
    BY <2>1, SplitSame DEF SplitInv, MovedIsSplit
  <2>3. EntriesCurrent'
    BY <2>1, SplitSame DEF SplitInv, EntriesCurrent
  <2>4. ASSUME NEW i \in FragId, frag_symbol'[i] # NULL
        PROVE  /\ sym_frag'[frag_symbol'[i]] = i
               /\ sym_seg'[frag_symbol'[i]] # "undefined"
    <3>1. frag_symbol' = frag_symbol /\ frag_symbol[i] \in Syms
      BY <2>1, <2>4 DEF fragVars, TypeOK, FragTypeOK
    <3> QED BY <2>1, <2>4, <3>1 DEF SplitInv, SymbolsAtHome
  <2>5. ASSUME NEW s \in Syms, sym_seg'[s] = "xom_data"
        PROVE  DSplit /\ s \in Homes'
    <3>1. sym_seg[s] # "xom_data"
      BY <2>1 DEF SplitInv, SymbolsAtHome
    <3> QED BY <2>1, <2>5, <3>1, SplitSame
  <2>6. SymbolsAtHome'
    BY <2>1, <2>4, <2>5 DEF SymbolsAtHome
  <2> QED BY <2>2, <2>3, <2>6 DEF SplitInv
<1> QED BY <1>1, <1>2, <1>3

\* The split, the metadata and the symbols agree in every state, for every
\* source file, every bound and all options.
THEOREM SplitAgrees == Spec => [](TypeOK /\ SplitInv)
<1>1. TypeOK /\ SplitInv /\ [Next]_vars => SplitInv'
  <2>1. SplitInv /\ UNCHANGED vars => SplitInv'
    <3> SUFFICES ASSUME SplitInv, UNCHANGED vars PROVE SplitInv'
      OBVIOUS
    <3>1. UNCHANGED <<fragVars, symVars, phase, moved, entries>>
      BY DEF vars, readVars, writeVars
    <3>2. UNCHANGED <<fragVars, call_flow_symbol>>
      BY <3>1 DEF symVars
    <3>3. MovedIsSplit' /\ EntriesCurrent'
      BY <3>1, <3>2, SplitSame DEF SplitInv, MovedIsSplit, EntriesCurrent
    <3>4. SymbolsAtHome'
      BY <3>1, <3>2, SplitSame
         DEF SplitInv, SymbolsAtHome, fragVars, symVars
    <3> QED BY <3>3, <3>4 DEF SplitInv
  <2> QED BY <2>1, ReadSplitInv, WriteSplitInv DEF Next, Done
<1> QED BY InitSplitInv, TypeCorrect, <1>1, PTL DEF Spec

\* What the metadata lists is what the split moves.
THEOREM MetadataExact == Spec => []CollectMatchesSplit
<1>1. TypeOK /\ SplitInv => CollectMatchesSplit
  <2> SUFFICES ASSUME TypeOK, SplitInv, phase = "done", DCollect, DSplit
               PROVE  {i \in FragId : entries[i] # <<>>} = moved \ align_frag
    BY DEF CollectMatchesSplit
  <2>1. \A i \in FragId : entries[i] # <<>> <=> IsEntry(i)
    <3>1. \A i \in FragId : entries[i] = EntriesOf(i)
      BY DEF SplitInv, EntriesCurrent
    <3>2. \A i \in FragId : EntriesOf(i) # <<>> <=> IsEntry(i)
      BY DEF EntriesOf
    <3> QED BY <3>1, <3>2
  <2>2. \A i \in FragId : IsEntry(i) <=> i \in SplitData
    BY DEF IsEntry, SplitData
  <2>3. moved \ align_frag = SplitData
    BY DEF SplitInv, MovedIsSplit, SplitData, SplitAlign
  <2>4. SplitData \subseteq FragId
    BY DEF SplitData, Walked, TypeOK, FragTypeOK, FragId
  <2> QED BY <2>1, <2>2, <2>3, <2>4
<1> QED BY SplitAgrees, <1>1, PTL

\* A symbol of .xom_data is defined in a frag that has moved there.
THEOREM SymbolsMove == Spec => []XomSymbolsInXom
<1>1. TypeOK /\ SplitInv => XomSymbolsInXom
  <2> SUFFICES ASSUME TypeOK, SplitInv, NEW s \in Syms,
                      sym_seg[s] = "xom_data"
               PROVE  sym_frag[s] \in moved
    BY DEF XomSymbolsInXom
  <2>1. phase = "done" /\ DSplit /\ s \in Homes
    BY DEF SplitInv, SymbolsAtHome
  <2>2. PICK i \in SplitData : s = frag_symbol[i] /\ s # NULL
    BY <2>1 DEF Homes
  <2>3. i \in FragId
    BY <2>2 DEF SplitData, Walked, TypeOK, FragTypeOK, FragId
  <2> QED BY <2>1, <2>2, <2>3 DEF SplitInv, SymbolsAtHome, MovedIsSplit
<1> QED BY SplitAgrees, <1>1, PTL

(***************************************************************************)
(* Alignment.                                                              *)
(***************************************************************************)

\* Closing frags makes no code alignment.
LEMMA NewAligns ==
  ASSUME fr_type \in [FragId -> FragTypes], NEW i \in FragId, NEW a, NEW b,
         frag_new(fr_type, a, b)[i] = "rs_align_code"
  PROVE  fr_type[i] = "rs_align_code"
  BY DEF frag_new

\* A variable part makes an alignment only of the frag it closes.
LEMMA VarAligns ==
  ASSUME fr_type \in [FragId -> FragTypes], NEW i \in FragId,
         NEW a, NEW c \in FragId, NEW type,
         frag_var(a, c, type)[i] = "rs_align_code"
  PROVE  \/ fr_type[i] = "rs_align_code"
         \/ i = c /\ type = "rs_align_code"
<1>1. frag_new(fr_type, a, c) \in [FragId -> FragTypes]
  BY FragNewType
<1>2. CASE i = c
  BY <1>1, <1>2 DEF frag_var
<1>3. CASE i # c
  BY <1>1, <1>3, NewAligns DEF frag_var
<1> QED BY <1>2, <1>3

\* Every statement keeps code alignment marked; the end of the source leaves
\* one unmarked, before the last frag.
LEMMA ReadAlignmentMarked ==
  ASSUME DCollect = TRUE, TypeOK, TypeOK', AlignmentMarked, ReadNext
  PROVE  AlignmentMarked'
<1> USE DEF TypeOK, FragTypeOK
<1>p. phase = "read"
  BY ReadPhase
<1>o. \A i \in FragId : fr_type[i] = "rs_align_code" => i \in align_frag
  BY <1>p DEF AlignmentMarked
<1>i. ASSUME NEW b, NEW e, fr_type' = frag_new(fr_type, b, e),
             align_frag \subseteq align_frag'
      PROVE  AlignmentMarked'
  <2> SUFFICES ASSUME NEW i \in FragId, fr_type'[i] = "rs_align_code"
               PROVE  i \in align_frag'
    BY DEF AlignmentMarked
  <2> QED BY <1>o, <1>i, NewAligns
<1>v. ASSUME NEW a, NEW c \in FragId, NEW type,
             fr_type' = frag_var(a, c, type),
             align_frag \subseteq align_frag',
             type = "rs_align_code" => c \in align_frag'
      PROVE  AlignmentMarked'
  <2> SUFFICES ASSUME NEW i \in FragId, fr_type'[i] = "rs_align_code"
               PROVE  i \in align_frag'
    BY DEF AlignmentMarked
  <2>1. \/ fr_type[i] = "rs_align_code"
        \/ i = c /\ type = "rs_align_code"
    BY <1>v, VarAligns
  <2> QED BY <1>o, <1>v, <2>1
<1>u. ASSUME UNCHANGED <<fr_type, align_frag>> PROVE AlignmentMarked'
  BY <1>o, <1>u DEF AlignmentMarked
<1>1. ASSUME NEW s \in Syms, NEW named \in BOOLEAN, Label(s, named)
      PROVE  AlignmentMarked'
  <2>1. /\ fr_type' = frag_new(fr_type, last, last')
        /\ align_frag' = align_frag
    BY <1>1 DEF Label
  <2> QED BY <1>i, <2>1
<1>2. ASSUME NEW s, LabelElsewhere(s) \/ TypeFunction(s) \/ Size(s)
      PROVE  AlignmentMarked'
  BY <1>2, <1>u DEF LabelElsewhere, TypeFunction, Size, fragVars
<1>3. ASSUME NEW s, NEW two, NEW g1, NEW g2, Cons(s, two, g1, g2)
      PROVE  AlignmentMarked'
  <2>1. /\ fr_type' = frag_new(fr_type, last, last')
        /\ align_frag' = align_frag
    BY <1>3 DEF Cons
  <2> QED BY <1>i, <2>1
<1>4. ASSUME NEW g, String(g)
      PROVE  AlignmentMarked'
  <2>1. /\ fr_type' = frag_new(fr_type, last, last')
        /\ align_frag' = align_frag
    BY <1>4 DEF String
  <2> QED BY <1>i, <2>1
<1>5. ASSUME NEW g \in Grow, Space(g)
      PROVE  AlignmentMarked'
  <2>1. /\ fr_type' = frag_var(last, last + g, "rs_fill_var")
        /\ align_frag' = align_frag
    BY <1>5 DEF Space
  <2>2. last + g \in FragId
    BY <1>5 DEF Space, Room, FragId, Grow
  <2> QED BY <1>v, <2>1, <2>2
<1>6. ASSUME NEW k, NEW s, NEW g1 \in Grow, NEW g2 \in Grow,
             Insn(k, s, g1, g2)
      PROVE  AlignmentMarked'
  <2>1. /\ \/ fr_type' = frag_var(last, last + g1 + g2,
                                  "rs_machine_dependent")
           \/ fr_type' = frag_new(fr_type, last, last + g1 + g2)
        /\ align_frag' = align_frag
    BY <1>6 DEF Insn
  <2>2. last + g1 + g2 \in FragId
    BY <1>6 DEF Insn, Room, FragId, Grow
  <2> QED BY <1>i, <1>v, <2>1, <2>2
<1>7. ASSUME NEW k, NEW s, InsnElsewhere(k, s)
      PROVE  AlignmentMarked'
  BY <1>7, <1>u DEF InsnElsewhere, fragVars
<1>8. ASSUME NEW k \in AlignKinds, NEW g \in Grow, Align(k, g)
      PROVE  AlignmentMarked'
  <2> DEFINE c == IF fr_fix[last] > 0 THEN last + 1 ELSE last
  <2>1. align_frag' = align_frag \cup AlignMarks(k, c, g)
    BY <1>8 DEF Align
  <2>2. CASE k = "align0"
    <3>1. fr_type' = frag_new(fr_type, last, c)
      BY <1>8, <2>2 DEF Align
    <3> QED BY <1>i, <2>1, <3>1
  <2>3. CASE k # "align0"
    <3>1. fr_type' = frag_var(last, c + g, IF k = "aligncode"
                                           THEN "rs_align_code"
                                           ELSE "rs_align")
      BY <1>8, <2>3 DEF Align
    <3>2. c + g \in FragId
      BY <1>8, <2>3 DEF Align, Room, FragId, Grow
    <3>3. k = "aligncode" => c + g \in align_frag'
      BY <2>1 DEF AlignMarks
    <3> HIDE DEF c
    <3> QED BY <1>v, <2>1, <3>1, <3>2, <3>3
  <2> QED BY <2>2, <2>3
<1>9. ASSUME SwitchSection
      PROVE  AlignmentMarked'
  BY <1>9, <1>u DEF SwitchSection, fragVars
<1>10. ASSUME NEW g \in Grow, Finish(g)
       PROVE  AlignmentMarked'
  <2> DEFINE c == last + g
  <2>1. /\ c + 1 \in FragId /\ last' = c + 1 /\ phase' = "chained"
        /\ fr_type' = [frag_var(last, c, "rs_align_code")
                         EXCEPT ![c + 1] = "rs_fill"]
        /\ align_frag' = align_frag
    BY <1>10 DEF Finish
  <2>2. c \in FragId /\ c = last' - 1
    BY <2>1 DEF FragId, Grow
  <2> HIDE DEF c
  <2> SUFFICES ASSUME NEW i \in FragId, fr_type'[i] = "rs_align_code"
               PROVE  i \in align_frag \/ i = c
    BY <2>1, <2>2 DEF AlignmentMarked
  <2>3. frag_var(last, c, "rs_align_code") \in [FragId -> FragTypes]
    BY FragVarType DEF FragTypes
  <2>4. frag_var(last, c, "rs_align_code")[i] = "rs_align_code"
    BY <2>1, <2>3
  <2>5. fr_type[i] = "rs_align_code" \/ i = c
    <3>1. frag_new(fr_type, last, c) \in [FragId -> FragTypes]
      BY FragNewType
    <3> QED BY <2>2, <2>4, <3>1, NewAligns DEF frag_var
  <2> QED BY <1>o, <2>5
<1> QED BY <1>1, <1>2, <1>3, <1>4, <1>5, <1>6, <1>7, <1>8, <1>9, <1>10
        DEF ReadNext

\* With --fiy-dcollect, a code alignment right before a moved data frag moves
\* with it, `.align 1' or not.
THEOREM AlignmentMoves ==
  ASSUME DCollect = TRUE
  PROVE  Spec => []AlignmentFollows
<1>1. Init => AlignmentMarked
  BY DEF Init, ReadInit, AlignmentMarked
<1>2. TypeOK /\ TypeOK' /\ AlignmentMarked /\ [Next]_vars => AlignmentMarked'
  <2>1. ASSUME AlignmentMarked, UNCHANGED <<fr_type, align_frag, last>>,
               phase # "read" => phase' # "read"
        PROVE  AlignmentMarked'
    BY <2>1 DEF AlignmentMarked
  <2>2. ASSUME AlignmentMarked, ParseSymbols \/ ParseFrags \/ Split
        PROVE  AlignmentMarked'
    BY <2>1, <2>2 DEF ParseSymbols, ParseFrags, Split, readVars, fragVars
  <2>3. ASSUME AlignmentMarked, UNCHANGED vars
        PROVE  AlignmentMarked'
    BY <2>1, <2>3 DEF vars, readVars, fragVars
  <2> QED BY <2>2, <2>3, ReadAlignmentMarked DEF Next, Done
<1>3. TypeOK /\ SplitInv /\ AlignmentMarked => AlignmentFollows
  <2> SUFFICES ASSUME TypeOK, SplitInv, AlignmentMarked, phase = "done",
                      NEW i \in Walked, fr_type[i] = "rs_align_code",
                      i + 1 \in moved \ align_frag
               PROVE  i \in moved
    BY DEF AlignmentFollows
  <2>1. moved = SplitData \cup SplitAlign
    BY DEF SplitInv, MovedIsSplit
  <2>2. i + 1 \in SplitData
    BY <2>1 DEF SplitAlign
  <2>3. i \in FragId /\ i # last - 1
    BY <2>2 DEF SplitData, Walked, TypeOK, FragTypeOK, FragId
  <2>4. i \in align_frag
    BY <2>3 DEF AlignmentMarked
  <2> QED BY <2>1, <2>2, <2>4 DEF SplitAlign
<1> QED BY <1>1, <1>2, <1>3, TypeCorrect, SplitAgrees, PTL DEF Spec

(***************************************************************************)
(* Labelled data.                                                          *)
(***************************************************************************)

\* frag_grow marks none but the frags it opens.
LEMMA GrowAhead ==
  ASSUME NEW m, NEW b, NEW c \in FragId, NEW g \in Nat,
         NEW i \in frag_grow(m, b, c, g)
  PROVE  c < i /\ i <= c + g
  BY DEF frag_grow, FragId

\* A step that opens no frag by a label and marks, besides frags it opens
\* itself, at most the open frag as one where an instruction starts keeps the
\* invariant.
LEMMA ForwardFresh ==
  ASSUME TypeOK, FreshInv, last' \in FragId, last <= last',
         fresh' = fresh, frag_has_insn \subseteq frag_has_insn',
         \A i \in insn_frag' \ insn_frag :
           /\ i \in FragId /\ i <= last'
           /\ last < i \/ i \in frag_has_insn',
         phase' # "read" => last < last'
  PROVE  FreshInv'
<1> USE DEF FreshInv, UnopenedUnmarked, FreshMarked, TypeOK, FragTypeOK,
            HistTypeOK, FragId
<1>1. \A i \in insn_frag' : i <= last'
  <2> SUFFICES ASSUME NEW i \in insn_frag' PROVE i <= last'
    OBVIOUS
  <2>1. CASE i \in insn_frag
    BY <2>1
  <2>2. CASE i \notin insn_frag
    BY <2>2
  <2> QED BY <2>1, <2>2
<1>2. \A i \in fresh : i <= last'
  OBVIOUS
<1>3. phase' # "read" => last' \notin fresh
  OBVIOUS
<1>4. FreshMarked'
  <2> SUFFICES ASSUME NEW i \in fresh, i \in insn_frag'
               PROVE  i \in frag_has_insn'
    OBVIOUS
  <2>1. CASE i \in insn_frag
    BY <2>1
  <2>2. CASE i \notin insn_frag
    BY <2>2
  <2> QED BY <2>1, <2>2
<1> QED BY <1>1, <1>2, <1>3, <1>4

\* Every statement and the end of the source keep the invariant.
LEMMA ReadFreshInv ==
  ASSUME DCollect = TRUE, TypeOK, TypeOK', FreshInv, ReadNext
  PROVE  FreshInv'
<1>p. phase = "read"
  BY ReadPhase
<1>r. ASSUME NEW k, Read(k) PROVE phase' = "read"
  BY <1>p, <1>r DEF Read
<1>t. last \in FragId /\ last' \in FragId
  BY DEF TypeOK, FragTypeOK
<1>u. ASSUME UNCHANGED <<fragVars, histVars>>, phase' = "read"
      PROVE  FreshInv'
  BY <1>u DEF fragVars, histVars, FreshInv, UnopenedUnmarked, FreshMarked
<1>1. ASSUME NEW s \in Syms, NEW named \in BOOLEAN, Label(s, named)
      PROVE  FreshInv'
  <2>1. /\ phase' = "read" /\ UNCHANGED <<insn_frag, frag_has_insn>>
        /\ \/ last' = last /\ fresh' = fresh
           \/ last' = last + 1 /\ fresh' = fresh \cup {last + 1}
    BY <1>1, <1>r DEF Label
  <2> QED BY <2>1, <1>t DEF FreshInv, UnopenedUnmarked, FreshMarked, TypeOK,
                            FragTypeOK, HistTypeOK, FragId
<1>2. ASSUME NEW s, LabelElsewhere(s) \/ TypeFunction(s) \/ Size(s)
      PROVE  FreshInv'
  BY <1>2, <1>r, <1>u DEF LabelElsewhere, TypeFunction, Size
<1>3. ASSUME NEW s, NEW two, NEW g1 \in Grow, NEW g2 \in Grow,
             Cons(s, two, g1, g2)
      PROVE  FreshInv'
  <2> DEFINE c1 == last + g1
             c2 == c1 + g2
             m1 == insn_frag \cup frag_grow(insn_frag, fr_fix[last], last, g1)
             f1 == frag_more(fr_fix, c1)
  <2>1. /\ last' = c2 /\ phase' = "read" /\ c2 < MaxFrags
        /\ insn_frag' = m1 \cup frag_grow(m1, f1[c1], c1, g2)
        /\ UNCHANGED <<fresh, frag_has_insn>>
    BY <1>3, <1>r DEF Cons, WroteData, Room
  <2>2. /\ c1 \in FragId /\ g1 \in Nat /\ g2 \in Nat
        /\ last <= c1 /\ c1 <= c2
    BY <1>t, <2>1 DEF FragId, Grow
  <2>3. \A i \in frag_grow(insn_frag, fr_fix[last], last, g1) :
          last < i /\ i <= c1
    BY <1>t, <2>2, GrowAhead
  <2>4. \A i \in frag_grow(m1, f1[c1], c1, g2) : c1 < i /\ i <= c2
    <3> HIDE DEF m1, f1
    <3> QED BY <2>2, GrowAhead
  <2>5. \A i \in insn_frag' : i \in FragId
    BY DEF TypeOK, FragTypeOK
  <2>6. c1 \in Nat /\ c2 \in Nat /\ last <= c2
    BY <1>t, <2>2 DEF FragId
  <2>7. ASSUME NEW i \in insn_frag' \ insn_frag
        PROVE  i \in FragId /\ i <= c2 /\ last < i
    <3>1. \/ last < i /\ i <= c1
          \/ c1 < i /\ i <= c2
      BY <2>1, <2>3, <2>4
    <3>2. i \in FragId
      BY <2>5
    <3> HIDE DEF c1, c2
    <3> QED BY <1>t, <2>2, <2>6, <3>1, <3>2 DEF FragId
  <2>8. last <= last' /\ \A i \in insn_frag' \ insn_frag :
                            i \in FragId /\ i <= last' /\ last < i
    BY <2>1, <2>6, <2>7
  <2> QED BY <1>t, <2>1, <2>8, ForwardFresh
<1>4. ASSUME NEW g \in {0, 1}, String(g)
      PROVE  FreshInv'
  <2>1. /\ last' = last + g /\ phase' = "read"
        /\ UNCHANGED <<insn_frag, fresh, frag_has_insn>>
    BY <1>4, <1>r DEF String, WroteData
  <2>2. last <= last'
    BY <1>t, <2>1 DEF FragId
  <2> QED BY <1>t, <2>1, <2>2, ForwardFresh
<1>5. ASSUME NEW g \in Grow, Space(g) \/ Finish(g)
      PROVE  FreshInv'
  <2>1. /\ last' = last + g + 1
        /\ insn_frag' = insn_frag
                          \cup frag_grow(insn_frag, fr_fix[last], last, g)
        /\ UNCHANGED <<fresh, frag_has_insn>>
    BY <1>5 DEF Space, Finish, WroteData, histVars
  <2>2. \A i \in frag_grow(insn_frag, fr_fix[last], last, g) :
          last < i /\ i <= last + g
    BY <1>t, GrowAhead DEF Grow
  <2>3. insn_frag' \subseteq FragId
    BY DEF TypeOK, FragTypeOK
  <2>4. \A i \in insn_frag' \ insn_frag :
          i \in FragId /\ i <= last' /\ last < i
    BY <1>t, <2>1, <2>2, <2>3 DEF FragId, Grow
  <2>5. last < last' /\ last <= last'
    BY <1>t, <2>1 DEF FragId, Grow
  <2> QED BY <1>t, <2>1, <2>4, <2>5, ForwardFresh
<1>6. ASSUME NEW k, NEW s, NEW g1 \in Grow, NEW g2 \in Grow,
             Insn(k, s, g1, g2)
      PROVE  FreshInv'
  <2>1. /\ phase' = "read"
        /\ insn_frag' = insn_frag \cup (last .. last')
        /\ frag_has_insn' = frag_has_insn \cup {last}
        /\ UNCHANGED fresh
    BY <1>6, <1>r DEF Insn, InsnMarks
  <2>2. last <= last'
    BY <1>6, <1>t DEF Insn, FragId, Grow
  <2>3. \A i \in insn_frag' \ insn_frag :
          /\ i \in FragId /\ i <= last'
          /\ last < i \/ i \in frag_has_insn'
    BY <1>t, <2>1 DEF FragId
  <2> QED BY <1>t, <2>1, <2>2, <2>3, ForwardFresh
<1>7. ASSUME NEW k, NEW s, InsnElsewhere(k, s)
      PROVE  FreshInv'
  BY <1>7, <1>r, <1>u DEF InsnElsewhere
<1>8. ASSUME NEW k \in AlignKinds, NEW g \in Grow, Align(k, g)
      PROVE  FreshInv'
  <2> DEFINE c == IF fr_fix[last] > 0 THEN last + 1 ELSE last
  <2>1. /\ phase' = "read"
        /\ last' = IF k = "align0" THEN c ELSE c + g + 1
        /\ insn_frag' = IF k = "align0" THEN insn_frag
                        ELSE insn_frag \cup
                               frag_grow(insn_frag, fr_fix[c], c, g)
        /\ UNCHANGED <<fresh, frag_has_insn>>
    BY <1>8, <1>r DEF Align
  <2>2. c \in FragId /\ last <= c /\ c <= last'
    BY <1>t, <2>1 DEF FragId, Grow
  <2>3. \A i \in frag_grow(insn_frag, fr_fix[c], c, g) : c < i /\ i <= c + g
    <3> HIDE DEF c
    <3> QED BY <2>2, GrowAhead DEF Grow
  <2>4. insn_frag' \subseteq FragId
    BY DEF TypeOK, FragTypeOK
  <2>5. \A i \in insn_frag' \ insn_frag :
          i \in FragId /\ i <= last' /\ last < i
    <3> HIDE DEF c
    <3> QED BY <1>t, <2>1, <2>2, <2>3, <2>4 DEF FragId, Grow
  <2> HIDE DEF c
  <2>6. last <= last'
    BY <1>t, <2>2 DEF FragId
  <2> QED BY <1>t, <2>1, <2>5, <2>6, ForwardFresh
<1>9. ASSUME SwitchSection
      PROVE  FreshInv'
  BY <1>9, <1>r, <1>u DEF SwitchSection
<1> QED BY <1>1, <1>2, <1>3, <1>4, <1>5, <1>6, <1>7, <1>8, <1>9
        DEF ReadNext

\* With --fiy-dcollect and no `.align 1', data behind a label that opened its
\* frag outside a function leaves .text, unless the label is a jump target, an
\* instruction starts in the same frag or is written to it, or the frag has no
\* fixed part (all of its data was reserved by .space or .zero).
THEOREM DataMoves ==
  ASSUME DCollect = TRUE, "align0" \notin Stmts
  PROVE  Spec => []LabelledDataMoved
<1>1. Init => FreshInv
  BY DEF Init, ReadInit, FreshInv, UnopenedUnmarked, FreshMarked
<1>2. TypeOK /\ TypeOK' /\ FreshInv /\ [Next]_vars => FreshInv'
  <2>1. ASSUME FreshInv,
               UNCHANGED <<last, insn_frag, frag_has_insn, fresh>>,
               phase' # "read" => phase # "read"
        PROVE  FreshInv'
    BY <2>1 DEF FreshInv, UnopenedUnmarked, FreshMarked
  <2>2. ASSUME FreshInv, ParseSymbols \/ ParseFrags \/ Split
        PROVE  FreshInv'
    BY <2>1, <2>2 DEF ParseSymbols, ParseFrags, Split, readVars, fragVars,
                      histVars
  <2>3. ASSUME FreshInv, UNCHANGED vars
        PROVE  FreshInv'
    BY <2>1, <2>3 DEF vars, readVars, fragVars, histVars
  <2> QED BY <2>2, <2>3, ReadFreshInv DEF Next, Done
<1>3. TypeOK /\ MarkInv /\ SplitInv /\ FreshInv => LabelledDataMoved
  <2> SUFFICES ASSUME TypeOK, MarkInv, SplitInv, FreshInv,
                      phase = "done", DSplit, NEW i \in fresh \cap data,
                      i \notin frag_has_insn, fr_fix[i] > 0,
                      ~S_IS_CF_SYMBOL(frag_symbol[i])
               PROVE  i \in moved
    BY DEF LabelledDataMoved
  <2>1. i \in FragId /\ i < last
    BY DEF FreshInv, UnopenedUnmarked, TypeOK, HistTypeOK, FragTypeOK, FragId
  <2>2. i \in Walked
    BY <2>1 DEF Walked, TypeOK, FragTypeOK, FragId
  <2>3. i \notin align_frag
    BY <2>1 DEF MarkInv, AlignEmpty, TypeOK, FragTypeOK
  <2>4. i \notin insn_frag
    BY DEF FreshInv, FreshMarked
  <2>5. i \in SplitData
    BY <2>2, <2>3, <2>4 DEF SplitData
  <2> QED BY <2>5 DEF SplitInv, MovedIsSplit
<1> QED BY <1>1, <1>2, <1>3, TypeCorrect, MarksCorrect, SplitAgrees, PTL
        DEF Spec
(***************************************************************************)
(* References from code.                                                   *)
(***************************************************************************)

\* A fix of .text patches a frag that an instruction was written to.
FixesInCode == \A f \in fixes : f.frag \in code

\* Without references in data a statement adds fixes for instructions only.
LEMMA ReadFixes ==
  ASSUME "consref" \notin Stmts, FixesInCode, ReadNext
  PROVE  FixesInCode'
<1>1. ASSUME NEW s \in Syms, NEW b \in BOOLEAN, Label(s, b)
      PROVE  UNCHANGED <<fixes, code>>
  BY <1>1 DEF Label
<1>2. ASSUME NEW s, LabelElsewhere(s) \/ TypeFunction(s) \/ Size(s)
      PROVE  UNCHANGED <<fixes, code>>
  BY <1>2 DEF LabelElsewhere, TypeFunction, Size, histVars
<1>3. ASSUME NEW s, NEW b, NEW g1, NEW g2, Cons(s, b, g1, g2)
      PROVE  UNCHANGED <<fixes, code>>
  <2>1. s = NULL
    BY <1>3 DEF Cons, Read
  <2> QED BY <1>3, <2>1 DEF Cons, WroteData
<1>4. ASSUME NEW g, String(g) \/ Space(g) \/ Finish(g)
      PROVE  UNCHANGED <<fixes, code>>
  BY <1>4 DEF String, Space, Finish, WroteData, histVars
<1>5. ASSUME NEW k, NEW s, InsnElsewhere(k, s)
      PROVE  UNCHANGED <<fixes, code>>
  BY <1>5 DEF InsnElsewhere, histVars
<1>6. ASSUME NEW k, NEW g, Align(k, g)
      PROVE  UNCHANGED <<fixes, code>>
  BY <1>6 DEF Align
<1>7. SwitchSection => UNCHANGED <<fixes, code>>
  BY DEF SwitchSection, histVars
<1>8. ASSUME NEW k, NEW s, NEW g1, NEW g2, Insn(k, s, g1, g2)
      PROVE  FixesInCode'
  <2> DEFINE c2 == last + g1 + g2
             new == [frag |-> c2, sym |-> s, pcrel |-> TRUE]
  <2>1. /\ fixes' \subseteq fixes \cup {new}
        /\ code \subseteq code' /\ c2 \in code'
    BY <1>8 DEF Insn
  <2>2. new.frag = c2
    OBVIOUS
  <2> HIDE DEF c2, new
  <2> QED BY <2>1, <2>2 DEF FixesInCode
<1>9. UNCHANGED <<fixes, code>> => FixesInCode'
  BY DEF FixesInCode
<1> QED BY <1>1, <1>2, <1>3, <1>4, <1>5, <1>6, <1>7, <1>8, <1>9 DEF ReadNext

\* The split rewrites fixes where they are.
LEMMA WriteFixes ==
  ASSUME FixesInCode, ParseSymbols \/ ParseFrags \/ Split
  PROVE  FixesInCode'
<1>1. CASE ParseSymbols \/ ParseFrags
  BY <1>1 DEF ParseSymbols, ParseFrags, readVars, histVars, FixesInCode
<1>2. CASE Split
  <2>1. code' = code
    BY <1>2 DEF Split, histVars
  <2>2. ASSUME NEW f \in fixes' PROVE \E e \in fixes : f.frag = e.frag
    <3>1. CASE DSplit
      <4>1. PICK e \in fixes :
              f = [frag |-> e.frag, sym |-> e.sym,
                   pcrel |-> (e.pcrel \/ e.sym \in Homes)]
        BY <1>2, <3>1 DEF Split
      <4> QED BY <4>1
    <3>2. CASE ~DSplit
      BY <1>2, <3>2 DEF Split
    <3> QED BY <3>1, <3>2
  <2> QED BY <2>1, <2>2 DEF FixesInCode
<1> QED BY <1>1, <1>2

\* In a source file whose data names no symbols, no relocation of .text is
\* for a frag that has moved to .xom_data: the references that data_references
\* shows to be left behind are those of .long, .quad, ... and no others.
THEOREM FixesStay ==
  ASSUME DCollect = TRUE, "align0" \notin Stmts, "consref" \notin Stmts
  PROVE  Spec => []FixesStayInText
<1>1. Init => FixesInCode
  BY DEF Init, ReadInit, FixesInCode
<1>2. FixesInCode /\ [Next]_vars => FixesInCode'
  <2>1. FixesInCode /\ UNCHANGED vars => FixesInCode'
    BY DEF vars, readVars, histVars, FixesInCode
  <2> QED BY <2>1, ReadFixes, WriteFixes DEF Next, Done
<1>3. FixesInCode /\ NoCodeMoved => FixesStayInText
  BY DEF FixesInCode, NoCodeMoved, FixesStayInText
<1> QED BY <1>1, <1>2, <1>3, CodeStays, PTL DEF Spec
=============================================================================
