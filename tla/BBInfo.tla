------------------------------- MODULE BBInfo -------------------------------
(***************************************************************************)
(* Basic blocks (--fiy-dsok, bbInfoHandle.c): the list of blocks that the  *)
(* directives of the compiler, or in a hand-written file the frags and     *)
(* offsets of the instructions, build while a file is read, and what       *)
(* relaxation does to it afterwards: md_estimate_size_before_relax fixes   *)
(* the jumps that leave their section, md_convert_frag the others, which   *)
(* it adds to a list of fixups.                                            *)
(*                                                                         *)
(* init_basic_block only appends, so the list is a sequence and its tail   *)
(* the last element; a block is named by its place.  Frags of all sections *)
(* are numbered in the order they are opened.                              *)
(***************************************************************************)
EXTENDS Integers, Sequences, FiniteSets

CONSTANTS
  Funcs, NULL,  \* names of functions
  SecOrder,     \* the sections in the order of the output file
  Collected,    \* those bbinfo_is_collect_sec accepts
  MaxFrags,     \* bound: frags
  MaxStmts,     \* bound: statements of the file
  MaxGrow       \* bound: frags one write opens for lack of room

FragId == 1 .. MaxFrags
Secs   == {SecOrder[n] : n \in DOMAIN SecOrder}

ASSUME BBConstantsOK ==
  /\ NULL \notin Funcs
  /\ SecOrder \in Seq(Secs) /\ SecOrder # <<>>
  /\ Collected \subseteq Secs
  /\ MaxFrags \in Nat /\ MaxFrags > Len(SecOrder)
  /\ MaxStmts \in Nat /\ MaxGrow \in Nat

VARIABLES
  fr_fix,    \* bytes of a frag
  fr_sec,    \* its section
  branches,  \* the frags that end in a relaxable jump
  last_bb,   \* the block the last instruction of a frag belongs to, or 0
  nfrags,    \* frags opened so far
  frag_now,  \* the open frag of each section
  now_seg

VARIABLES
  mbbs,      \* mbbs_list_head .. mbbs_list_tail
  cur_function_id, cur_function_end_id,
  bbinfo_handwritten_file, handwritten_bbinfo_func_name,
  bbinfo_last_frag, bbinfo_last_inst_offset, bbinfo_last_inst_size,
  fixups,    \* fixups_list_head
  far,       \* the frags whose jump leaves the section, once all is read
  converted, \* the frags whose jump has got its displacement
  phase,     \* "read", "convert"; "fatal" and "crash" end the program
  stmts

\* History, by block: all the bytes and fixes that really belong to it, with
\* those that relaxation adds; where its first instruction starts and its last
\* one ends; whether anything else is in between; and whether a TLS call was
\* counted too early, by it or for it.  By frag: the block of the jump it ends
\* in.
VARIABLES real, jumpOf

fragVars == <<fr_fix, fr_sec, branches, last_bb, nfrags, frag_now, now_seg>>
handVars == <<bbinfo_handwritten_file, handwritten_bbinfo_func_name,
              bbinfo_last_frag, bbinfo_last_inst_offset,
              bbinfo_last_inst_size>>
funcVars == <<cur_function_id, cur_function_end_id>>
outVars  == <<fixups, far, converted>>
vars     == <<fragVars, mbbs, funcVars, handVars, outVars, phase, stmts,
              real, jumpOf>>

\* struct basic_block without the fields no code sets.  The offset of an unused
\* block is -1, here NULL; of the type only the mark of a function's end is
\* ever set.
Block == [ID: Nat, type: {0, 1}, offset: Nat \cup {NULL}, size: Nat,
          num_fixs: Nat, fall_through: {0, 1}, parent_id: Nat,
          is_begin: {0, 1}, parent_frag: FragId \cup {0}]

Place == [frag: FragId \cup {0}, off: Nat]
Real  == [bytes: Nat, fixes: Nat, start: Place, end: Place, gap: BOOLEAN,
          stray: BOOLEAN]

NoPlace == [frag |-> 0, off |-> 0]
Unused  == [bytes |-> 0, fixes |-> 0, start |-> NoPlace, end |-> NoPlace,
            gap |-> FALSE, stray |-> FALSE]

\* A block without instructions; its ID is cur_block_id, the number of blocks
\* made so far.
init_basic_block(bs, parent, fall) ==
  Append(bs, [ID |-> Len(bs), type |-> 0, offset |-> NULL, size |-> 0,
              num_fixs |-> 0, fall_through |-> fall, parent_id |-> parent,
              is_begin |-> 1, parent_frag |-> 0])

tail == Len(mbbs)

\* mbbs_list_tail && mbbs_list_tail->is_begin
TailUnused == tail > 0 /\ mbbs[tail].is_begin = 1

MarkEnd(bs) == [bs EXCEPT ![Len(bs)].type = 1]

----------------------------------------------------------------------------
\* A statement is read, within the bound of the model.
Read ==
  /\ phase = "read"
  /\ stmts < MaxStmts
  /\ stmts' = stmts + 1

cur == frag_now[now_seg]

\* n frags are opened in the current section and the last becomes frag_now.
Open(n) ==
  LET new == (nfrags + 1) .. (nfrags + n)
  IN  /\ nfrags + n <= MaxFrags
      /\ nfrags' = nfrags + n
      /\ fr_sec' = [f \in FragId |-> IF f \in new THEN now_seg ELSE fr_sec[f]]
      /\ frag_now' = [frag_now EXCEPT ![now_seg] =
                        IF n = 0 THEN @ ELSE nfrags + n]

\* The frag that is open after g frags were opened for lack of room.
After(g) == IF g = 0 THEN cur ELSE nfrags + g

\* Data, which is in no block, possibly in a new frag.
Data(g) ==
  /\ Read
  /\ Open(g)
  /\ fr_fix' = [fr_fix EXCEPT ![After(g)] = @ + 1]
  /\ UNCHANGED <<branches, last_bb, now_seg, mbbs, funcVars, handVars,
                 outVars, phase, real, jumpOf>>

\* Alignment ends the frag.
Align ==
  /\ Read
  /\ Open(1)
  /\ UNCHANGED <<fr_fix, branches, last_bb, now_seg, mbbs, funcVars, handVars,
                 outVars, phase, real, jumpOf>>

SwitchSection(s) ==
  /\ Read
  /\ s # now_seg
  /\ now_seg' = s
  /\ UNCHANGED <<fr_fix, fr_sec, branches, last_bb, nfrags, frag_now, mbbs,
                 funcVars, handVars, outVars, phase, real, jumpOf>>

----------------------------------------------------------------------------
(***************************************************************************)
(* bbInfoHandle.c                                                          *)
(***************************************************************************)

\* handwritten_funcb_bbinfo_handler, for `.type f,@function': the last block
\* ends its function and a new one begins, unless it is still unused.
TypeFunction(f) ==
  /\ Read
  /\ IF bbinfo_handwritten_file
     THEN /\ handwritten_bbinfo_func_name' = f
          /\ IF TailUnused
             THEN UNCHANGED <<mbbs, real>>
             ELSE /\ mbbs' = init_basic_block(
                       IF tail > 0 THEN MarkEnd(mbbs) ELSE mbbs,
                       cur_function_id, 0)
                  /\ real' = Append(real, Unused)
     ELSE UNCHANGED <<handwritten_bbinfo_func_name, mbbs, real>>
  /\ UNCHANGED <<fragVars, funcVars, bbinfo_handwritten_file,
                 bbinfo_last_frag, bbinfo_last_inst_offset,
                 bbinfo_last_inst_size, outVars, phase, jumpOf>>

\* handwritten_funce_bbinfo_handler, for the `.size' of the function that
\* `.type' named last.
Size(f) ==
  /\ Read
  /\ mbbs' = IF bbinfo_handwritten_file /\ handwritten_bbinfo_func_name = f
             THEN MarkEnd(mbbs) ELSE mbbs
  /\ UNCHANGED <<fragVars, funcVars, handVars, outVars, phase, real, jumpOf>>

\* funcb_bbInfo_handler: .bbinfo_funb
FuncB ==
  /\ Read
  /\ cur_function_id' = cur_function_id + 1
  /\ bbinfo_handwritten_file' = FALSE
  /\ IF TailUnused
     THEN UNCHANGED <<mbbs, real>>
     ELSE /\ mbbs' = init_basic_block(mbbs, cur_function_id + 1, 0)
          /\ real' = Append(real, Unused)
  /\ UNCHANGED <<fragVars, cur_function_end_id, handwritten_bbinfo_func_name,
                 bbinfo_last_frag, bbinfo_last_inst_offset,
                 bbinfo_last_inst_size, outVars, phase, jumpOf>>

\* funce_bbInfo_handler: .bbinfo_fune ends the program when there is no block.
FuncE ==
  /\ Read
  /\ cur_function_end_id' = cur_function_end_id + 1
  /\ \/ tail = 0 /\ phase' = "fatal" /\ UNCHANGED mbbs
     \/ tail > 0 /\ mbbs' = MarkEnd(mbbs) /\ UNCHANGED phase
  /\ UNCHANGED <<fragVars, cur_function_id, handVars, outVars, real, jumpOf>>

\* bb_bbInfo_handler: .bbinfo_bb; a block that is still unused is taken, and
\* the file then stays hand-written if it was.
BB(fall) ==
  /\ Read
  /\ IF TailUnused
     THEN /\ mbbs' = [mbbs EXCEPT ![tail].fall_through = fall]
          /\ UNCHANGED <<bbinfo_handwritten_file, real>>
     ELSE /\ mbbs' = init_basic_block(mbbs, cur_function_id, fall)
          /\ real' = Append(real, Unused)
          /\ bbinfo_handwritten_file' = FALSE
  /\ UNCHANGED <<fragVars, funcVars, handwritten_bbinfo_func_name,
                 bbinfo_last_frag, bbinfo_last_inst_offset,
                 bbinfo_last_inst_size, outVars, phase, jumpOf>>

\* be_bbInfo_handler: .bbinfo_be writes through mbbs_list_tail, null or not.
BE(fall) ==
  /\ Read
  /\ \/ /\ fall = 1 /\ tail = 0
        /\ phase' = "crash"
        /\ UNCHANGED mbbs
     \/ /\ fall = 1 /\ tail > 0
        /\ mbbs' = [mbbs EXCEPT ![tail].fall_through = 1]
        /\ UNCHANGED phase
     \/ fall = 0 /\ UNCHANGED <<mbbs, phase>>
  /\ UNCHANGED <<fragVars, funcVars, handVars, outVars, real, jumpOf>>

----------------------------------------------------------------------------
(***************************************************************************)
(* output_insn                                                             *)
(***************************************************************************)

\* A fault: only the frag is compared, not the offset.
Continues_Frag(f, off) == bbinfo_last_frag = f

\* The instruction at offset off of f is the one right behind the last.
Continues(f, off) ==
  /\ bbinfo_last_frag = f
  /\ bbinfo_last_inst_offset + bbinfo_last_inst_size = off

\* A fault: every instruction begins the last block anew.
Begun_Always(bs, f, off) ==
  IF bs = <<>> THEN bs
  ELSE [bs EXCEPT ![Len(bs)].is_begin = 0, ![Len(bs)].offset = off,
                  ![Len(bs)].parent_frag = f]

\* An unused last block begins here.
Begun(bs, f, off) ==
  IF Len(bs) > 0 /\ bs[Len(bs)].is_begin = 1
  THEN [bs EXCEPT ![Len(bs)].is_begin = 0, ![Len(bs)].offset = off,
                  ![Len(bs)].parent_frag = f]
  ELSE bs

\* A hand-written file needs a block of its own here.
HandBlock(f, off) ==
  bbinfo_handwritten_file /\ (tail = 0 \/ ~Continues(f, off))

\* A fault: the frags between the first and the last are forgotten.
insn_size_Ends(fix, f, off, end) ==
  (fix[f] - off) + (IF end > nfrags THEN fix[end] ELSE 0)

\* A fault: the instruction is taken to be in one frag.
insn_size_OneFrag(fix, f, off, end) ==
  (IF end > nfrags THEN fix[end] ELSE fix[f]) - off

\* insn_size: the bytes behind off in insn_start_frag and those of the frags
\* opened since, up to frag_now.
insn_size(fix, f, off, end) ==
  LET upto[x \in nfrags .. end] ==
        IF x = nfrags THEN fix[f] - off ELSE upto[x - 1] + fix[x]
  IN  upto[end]

\* A fault: only the frag the instruction started in gets its block.
LastBB_Start(f, end) == {f}

\* The frags whose last_bb is set: from insn_start_frag to frag_now.
LastBB(f, end) == {f} \cup ((nfrags + 1) .. end)

\* History: an instruction becomes part of block t, which may be new.
Joined(r, t, wrote) ==
  [r EXCEPT ![t] =
     [bytes |-> @.bytes + wrote.bytes,
      fixes |-> @.fixes + wrote.fixes,
      start |-> IF @.bytes = 0 THEN wrote.start ELSE @.start,
      end   |-> wrote.end,
      gap   |-> @.gap \/ (@.bytes > 0 /\ @.end # wrote.start),
      stray |-> @.stray]]

\* History: the fix of a TLS call in block t was counted before t was made.
Strayed(r, t) ==
  [b \in DOMAIN r |->
     IF b \in {tail, t} THEN [r[b] EXCEPT !.stray = TRUE] ELSE r[b]]

\* An instruction: one write, or two when it has an operand with a fix ("ref"),
\* each of which may open frags first.  A relaxable jump ends the frag.  The
\* fix of a TLS descriptor call is made by optimize_disp, before output_insn
\* has chosen the block, and counted by the block that is last then.
Insn(k, g1, g2) ==
  LET f      == cur
      off    == fr_fix[cur]
      opened == g1 + g2 + (IF k = "branch" THEN 1 ELSE 0)
      c1     == After(g1)
      c2     == After(g1 + g2)
      one    == [fr_fix EXCEPT ![c1] = @ + 1]
      fix    == IF k = "ref" THEN [one EXCEPT ![c2] = @ + 1] ELSE one
      size   == insn_size(fix, f, off, nfrags + opened)
      refs   == IF k = "ref" THEN 1 ELSE 0
      early  == IF k = "tlscall" THEN 1 ELSE 0
      b0     == IF tail = 0 THEN mbbs
                ELSE [mbbs EXCEPT ![tail].num_fixs = @ + early]
      b1     == Begun(b0, f, off)
      b2     == IF HandBlock(f, off)
                THEN Begun(init_basic_block(b1, 0, 0), f, off) ELSE b1
      t      == Len(b2)
      wrote  == [bytes |-> 1 + refs, fixes |-> refs + early,
                 start |-> [frag |-> f, off |-> off],
                 end   |-> [frag |-> After(opened),
                            off  |-> fix[After(opened)]]]
      old    == IF Len(real) < t THEN Append(real, Unused) ELSE real
      seen   == IF t = 0 THEN real ELSE Joined(old, t, wrote)
  IN  /\ Read
      /\ k = "ref" \/ g2 = 0
      /\ g1 + g2 <= MaxGrow
      /\ Open(opened)
      /\ fr_fix' = fix
      /\ branches' = IF k = "branch" THEN branches \cup {c1} ELSE branches
      /\ last_bb' = [x \in FragId |->
                       IF x \in LastBB(f, nfrags + opened) THEN t
                       ELSE last_bb[x]]
      /\ mbbs' = IF t = 0 THEN b2
                 ELSE [b2 EXCEPT ![t].size = @ + size,
                                 ![t].num_fixs = @ + refs]
      /\ bbinfo_last_frag' = IF HandBlock(f, off) THEN f
                             ELSE bbinfo_last_frag
      /\ bbinfo_last_inst_offset' = IF bbinfo_handwritten_file THEN off
                                    ELSE bbinfo_last_inst_offset
      /\ bbinfo_last_inst_size' = IF bbinfo_handwritten_file THEN size
                                  ELSE bbinfo_last_inst_size
      /\ real' = IF early = 1 /\ tail # t THEN Strayed(seen, t) ELSE seen
      /\ jumpOf' = IF k = "branch" THEN [jumpOf EXCEPT ![c1] = t] ELSE jumpOf
      /\ UNCHANGED <<now_seg, funcVars, bbinfo_handwritten_file,
                     handwritten_bbinfo_func_name, outVars, phase>>

----------------------------------------------------------------------------
(***************************************************************************)
(* After the file has been read: relaxation.                               *)
(***************************************************************************)

\* Only now is it known which jumps go to a symbol that is undefined, external
\* or of another section: any.
EndOfFile(out) ==
  /\ phase = "read"
  /\ phase' = "convert"
  /\ out \subseteq branches
  /\ far' = out
  /\ UNCHANGED <<fragVars, mbbs, funcVars, handVars, fixups, converted, stmts,
                 real, jumpOf>>

OrderOf(s) == CHOOSE n \in DOMAIN SecOrder : SecOrder[n] = s

Before(f, g) ==
  \/ OrderOf(fr_sec[f]) < OrderOf(fr_sec[g])
  \/ fr_sec[f] = fr_sec[g] /\ f < g

\* The jump at the end of f, the first of the frags in fs (sections in order,
\* frags in chain order), gets its displacement.
Displace(f, fs) ==
  /\ phase = "convert"
  /\ f \in fs
  /\ \A g \in fs : g = f \/ Before(f, g)
  /\ converted' = converted \cup {f}
  /\ fr_fix' = [fr_fix EXCEPT ![f] = @ + 1]
  /\ UNCHANGED <<fr_sec, branches, last_bb, nfrags, frag_now, now_seg, far,
                 funcVars, handVars, phase, stmts, jumpOf>>

\* History: block b, if there is one, gets the displacement of its jump, and
\* n fixes for it.
Relaxed(b, n) ==
  IF b = 0 THEN real
  ELSE [real EXCEPT ![b].bytes = @ + 1, ![b].fixes = @ + n]

\* md_estimate_size_before_relax, for a jump that leaves the section: its fix
\* is made here and the frag waned.  No block counts it.  All sections are
\* relaxed before the first frag is converted.
Estimate(f) ==
  /\ Displace(f, far \ converted)
  /\ real' = Relaxed(jumpOf[f], 1)
  /\ UNCHANGED <<mbbs, fixups>>

\* A fault: the fixup goes in front of the first one of its section.
InsertAt_First(fl, s, off) ==
  IF \E n \in DOMAIN fl : fl[n].sec = s
  THEN CHOOSE n \in DOMAIN fl :
         fl[n].sec = s /\ \A m \in 1 .. (n - 1) : fl[m].sec # s
  ELSE Len(fl) + 1

\* bbinfo_init_insert_fixup: the place in front of which the fixup goes.  Of
\* its section, the first that is not before it, or the end of the run that
\* starts there; the end of the list when the section is new.
InsertAt(fl, s, off) ==
  IF \E n \in DOMAIN fl : fl[n].sec = s
  THEN CHOOSE n \in 1 .. (Len(fl) + 1) :
         LET first == CHOOSE m \in DOMAIN fl :
                        /\ fl[m].sec = s
                        /\ \A x \in 1 .. (m - 1) : fl[x].sec # s
         IN  /\ n >= first
             /\ n > Len(fl) \/ fl[n].sec # s \/ off <= fl[n].offset
             /\ \A x \in first .. (n - 1) :
                  fl[x].sec = s /\ off > fl[x].offset
  ELSE Len(fl) + 1

bbinfo_init_insert_fixup(fl, s, off) ==
  LET n == InsertAt(fl, s, off)
  IN  SubSeq(fl, 1, n - 1) \o <<[sec |-> s, offset |-> off]>>
        \o SubSeq(fl, n, Len(fl))

\* md_convert_frag, for a jump within its section: in a collected section it
\* gets a fixup, which its block counts.  The address of a frag only matters
\* by its order.
Convert(f) ==
  /\ far \subseteq converted
  /\ Displace(f, branches \ converted)
  /\ IF fr_sec[f] \in Collected
     THEN /\ fixups' = bbinfo_init_insert_fixup(fixups, fr_sec[f], f)
          /\ mbbs' = IF last_bb[f] = 0 THEN mbbs
                     ELSE [mbbs EXCEPT ![last_bb[f]].num_fixs = @ + 1]
          /\ real' = Relaxed(jumpOf[f], 1)
     ELSE real' = Relaxed(jumpOf[f], 0) /\ UNCHANGED <<fixups, mbbs>>

\* All jumps have their displacement, or the program has ended before.
Done ==
  /\ \/ phase = "convert" /\ branches \subseteq converted
     \/ phase \in {"fatal", "crash"}
  /\ UNCHANGED vars

----------------------------------------------------------------------------
\* bbinfo_init; every section has an open frag.
Init ==
  /\ nfrags = Len(SecOrder)
  /\ fr_fix = [f \in FragId |-> 0]
  /\ fr_sec = [f \in FragId |-> IF f <= Len(SecOrder) THEN SecOrder[f]
                                ELSE SecOrder[1]]
  /\ frag_now = [s \in Secs |-> CHOOSE f \in 1 .. Len(SecOrder) :
                                  SecOrder[f] = s]
  /\ now_seg = SecOrder[1]
  /\ branches = {}
  /\ last_bb = [f \in FragId |-> 0]
  /\ mbbs = <<>>
  /\ cur_function_id = 0 /\ cur_function_end_id = 0
  /\ bbinfo_handwritten_file = TRUE
  /\ handwritten_bbinfo_func_name = NULL
  /\ bbinfo_last_frag = 0
  /\ bbinfo_last_inst_offset = 0 /\ bbinfo_last_inst_size = 0
  /\ fixups = <<>>
  /\ far = {} /\ converted = {}
  /\ phase = "read"
  /\ stmts = 0
  /\ real = <<>>
  /\ jumpOf = [f \in FragId |-> 0]

Next ==
  \/ \E g \in 0 .. MaxGrow : Data(g)
  \/ Align
  \/ \E s \in Secs : SwitchSection(s)
  \/ \E f \in Funcs : TypeFunction(f) \/ Size(f)
  \/ FuncB
  \/ FuncE
  \/ \E fall \in {0, 1} : BB(fall) \/ BE(fall)
  \/ \E k \in {"plain", "ref", "tlscall", "branch"}, g1, g2 \in 0 .. MaxGrow :
       Insn(k, g1, g2)
  \/ \E out \in SUBSET branches : EndOfFile(out)
  \/ \E f \in FragId : Estimate(f) \/ Convert(f)
  \/ Done

Spec == Init /\ [][Next]_vars

----------------------------------------------------------------------------
(***************************************************************************)
(* Properties.                                                             *)
(***************************************************************************)

\* The types of the state.
BBTypeOK ==
  /\ fr_fix \in [FragId -> Nat]
  /\ fr_sec \in [FragId -> Secs]
  /\ branches \subseteq FragId
  /\ last_bb \in [FragId -> Nat]
  /\ nfrags \in FragId
  /\ frag_now \in [Secs -> FragId]
  /\ now_seg \in Secs
  /\ mbbs \in Seq(Block)
  /\ cur_function_id \in Nat /\ cur_function_end_id \in Nat
  /\ bbinfo_handwritten_file \in BOOLEAN
  /\ handwritten_bbinfo_func_name \in Funcs \cup {NULL}
  /\ bbinfo_last_frag \in FragId \cup {0}
  /\ bbinfo_last_inst_offset \in Nat /\ bbinfo_last_inst_size \in Nat
  /\ fixups \in Seq([sec: Secs, offset: Nat])
  /\ far \subseteq FragId /\ converted \subseteq FragId
  /\ phase \in {"read", "convert", "fatal", "crash"}
  /\ real \in Seq(Real)

\* The jumps of block b that have got their displacement, and those of them
\* that leave the section.
Late(b)    == {f \in converted : jumpOf[f] = b}

Leaving(b) == Late(b) \cap far

\* The size of a block is the size of its instructions, also of those that
\* were spread over several frags, but for the displacements of its relaxable
\* jumps: output_branch writes their opcode only, and neither
\* md_estimate_size_before_relax nor md_convert_frag adds what they write,
\* although bbInfoHandle.h calls this the size of the block.
SizesAddUp ==
  \A b \in DOMAIN mbbs :
    mbbs[b].size + Cardinality(Late(b)) = real[b].bytes

\* A block with instructions begins where its first instruction does.
StartsRecorded ==
  \A b \in DOMAIN mbbs :
    mbbs[b].size > 0 =>
      real[b].start = [frag |-> mbbs[b].parent_frag, off |-> mbbs[b].offset]

\* The blocks of a hand-written file have nothing between their instructions:
\* "the blocks made like this contain no padding" (output_insn).
HandBlocksContiguous ==
  bbinfo_handwritten_file => \A b \in DOMAIN mbbs : ~real[b].gap

\* num_fixs counts the fixes of the block's own instructions, those of
\* converted jumps too, which are found by last_bb long after; it is short of
\* exactly the jumps that leave the section, whose fixes are made by
\* md_estimate_size_before_relax.  The exception is a TLS call that begins a
\* block of a hand-written file.
FixesOfOwnBlock ==
  \A b \in DOMAIN mbbs :
    ~real[b].stray =>
      mbbs[b].num_fixs + Cardinality(Leaving(b)) = real[b].fixes

\* The list of fixups has the fixups of a section in one run, in ascending
\* order ("insert it into fixups_list serially").
FixupsSerial ==
  \A m, n \in DOMAIN fixups :
    (m < n /\ fixups[m].sec = fixups[n].sec) =>
      \A x \in m .. n : /\ fixups[x].sec = fixups[m].sec
                        /\ fixups[m].offset <= fixups[n].offset

----------------------------------------------------------------------------
(***************************************************************************)
(* The inductive invariant behind the properties.                          *)
(***************************************************************************)

\* Frags that are not open yet are empty; the open one of a section is in it
\* and does not end in a jump.
FragsOpened ==
  /\ \A f \in FragId : f > nfrags => fr_fix[f] = 0
  /\ \A s \in Secs : /\ frag_now[s] <= nfrags
                     /\ fr_sec[frag_now[s]] = s
                     /\ frag_now[s] \notin branches
  /\ \A f \in branches : f <= nfrags
  /\ bbinfo_last_frag <= nfrags

\* last_bb names blocks, and for a frag that ends in a jump the jump's.
BlocksNamed ==
  /\ Len(real) = tail
  /\ jumpOf \in [FragId -> Nat]
  /\ \A f \in FragId : last_bb[f] <= tail
  /\ \A f \in branches : jumpOf[f] = last_bb[f]

\* is_begin of the last block says whether it has instructions.
TailBegun == tail > 0 => (mbbs[tail].is_begin = 1 <=> mbbs[tail].size = 0)

\* In a hand-written file the last block ends where bbinfo_last_frag and the
\* other two say, as long as that frag is open.
HandEnd ==
  (/\ bbinfo_handwritten_file
   /\ tail > 0 /\ real[tail].bytes > 0
   /\ \E s \in Secs : frag_now[s] = bbinfo_last_frag)
  => real[tail].end = [frag |-> bbinfo_last_frag,
                       off  |-> bbinfo_last_inst_offset + bbinfo_last_inst_size]

\* Before the file has been read nothing is relaxed.
Unrelaxed ==
  /\ far \subseteq branches
  /\ phase # "convert" => far = {} /\ converted = {}

BBInv ==
  /\ FragsOpened /\ BlocksNamed /\ TailBegun /\ Unrelaxed
  /\ phase = "read" => HandEnd
  /\ SizesAddUp /\ StartsRecorded /\ HandBlocksContiguous
  /\ FixesOfOwnBlock /\ FixupsSerial
=============================================================================
