---------------------------- MODULE BBInfoProofs ----------------------------
(***************************************************************************)
(* Proofs about the list of basic blocks and the list of fixups, for files *)
(* and numbers of frags of every size.                                     *)
(***************************************************************************)
EXTENDS BBInfo, SetInduction, FiniteSetTheorems, SequenceTheorems, TLAPS

USE BBConstantsOK

\* While the file is read no jump has its displacement: SizesAddUp and
\* FixesOfOwnBlock without the jumps.
SizesRead == \A b \in DOMAIN mbbs : mbbs[b].size = real[b].bytes

FixesRead ==
  \A b \in DOMAIN mbbs :
    ~real[b].stray => mbbs[b].num_fixs = real[b].fixes

\* The properties of blocks while the file is read, without those of the frags
\* and of the fixups.
BlockInv ==
  /\ BlocksNamed /\ TailBegun /\ HandEnd
  /\ SizesRead /\ StartsRecorded /\ HandBlocksContiguous /\ FixesRead

\* BBTypeOK, of the frags, of the blocks and of the rest.
FragTypes ==
  /\ fr_fix \in [FragId -> Nat]
  /\ fr_sec \in [FragId -> Secs]
  /\ branches \subseteq FragId
  /\ last_bb \in [FragId -> Nat]
  /\ nfrags \in FragId
  /\ frag_now \in [Secs -> FragId]
  /\ now_seg \in Secs

BlockTypes ==
  /\ mbbs \in Seq(Block)
  /\ real \in Seq(Real)
  /\ cur_function_id \in Nat /\ cur_function_end_id \in Nat
  /\ bbinfo_handwritten_file \in BOOLEAN
  /\ handwritten_bbinfo_func_name \in Funcs \cup {NULL}
  /\ bbinfo_last_frag \in FragId \cup {0}
  /\ bbinfo_last_inst_offset \in Nat /\ bbinfo_last_inst_size \in Nat

OutTypes ==
  /\ fixups \in Seq([sec: Secs, offset: Nat])
  /\ far \subseteq FragId /\ converted \subseteq FragId
  /\ phase \in {"read", "convert", "fatal", "crash"}

\* What holds while the file is read, and the inductive invariant.
ReadSafe ==
  /\ FragTypes /\ BlockTypes /\ OutTypes
  /\ FragsOpened /\ BlockInv /\ FixupsSerial

BBSafe == BBTypeOK /\ BBInv

LEMMA SafeParts ==
  ReadSafe <=> /\ FragTypes /\ BlockTypes /\ OutTypes
               /\ FragsOpened /\ BlockInv /\ FixupsSerial
BY DEF ReadSafe

LEMMA SafeAfter ==
  /\ FragTypes' /\ BlockTypes' /\ OutTypes'
  /\ FragsOpened' /\ BlockInv' /\ FixupsSerial'
  => ReadSafe'
BY DEF ReadSafe

LEMMA FragIds == \A f \in FragId : f \in Nat /\ f > 0 /\ f <= MaxFrags
BY DEF FragId

----------------------------------------------------------------------------
(***************************************************************************)
(* Sequences of blocks.                                                    *)
(***************************************************************************)

\* One element is replaced.
LEMMA Replace ==
  ASSUME NEW S, NEW s \in Seq(S), NEW i, NEW e,
         i \in 1 .. Len(s) => e \in S
  PROVE  /\ [s EXCEPT ![i] = e] \in Seq(S)
         /\ Len([s EXCEPT ![i] = e]) = Len(s)
         /\ \A j \in 1 .. Len(s) :
              [s EXCEPT ![i] = e][j] = IF j = i THEN e ELSE s[j]
<1>1. DOMAIN s = 1 .. Len(s) /\ s \in [1 .. Len(s) -> S] /\ Len(s) \in Nat
  BY LenProperties
<1>2. CASE i \in 1 .. Len(s)
  BY <1>1, <1>2, ExceptSeq
<1>3. CASE i \notin 1 .. Len(s)
  <2>1. [s EXCEPT ![i] = e] = s
    BY <1>1, <1>3
  <2>2. \A j \in 1 .. Len(s) : j # i
    BY <1>3
  <2> QED BY <2>1, <2>2
<1> QED BY <1>2, <1>3

\* The blocks of two lists agree in all but their marks.
Alike(b, c) ==
  /\ c.size = b.size /\ c.num_fixs = b.num_fixs /\ c.is_begin = b.is_begin
  /\ c.offset = b.offset /\ c.parent_frag = b.parent_frag

AllAlike(bs, cs) ==
  /\ cs \in Seq(Block) /\ Len(cs) = Len(bs)
  /\ \A b \in 1 .. Len(bs) : Alike(bs[b], cs[b])

LEMMA MarkType ==
  ASSUME NEW bs \in Seq(Block), NEW i
  PROVE  AllAlike(bs, [bs EXCEPT ![i].type = 1])
<1> DEFINE e == [bs[i] EXCEPT !.type = 1]
<1>1. [bs EXCEPT ![i].type = 1] = [bs EXCEPT ![i] = e]
  OBVIOUS
<1>2. ASSUME i \in 1 .. Len(bs) PROVE e \in Block /\ Alike(bs[i], e)
  <2>1. bs[i] \in Block
    BY <1>2
  <2> QED BY <2>1 DEF Block, Alike
<1>3. \A j \in 1 .. Len(bs) : Alike(bs[j], bs[j])
  BY DEF Alike
<1> HIDE DEF e
<1> QED BY <1>1, <1>2, <1>3, Replace DEF AllAlike

LEMMA MarkFall ==
  ASSUME NEW bs \in Seq(Block), NEW i, NEW fall \in {0, 1}
  PROVE  AllAlike(bs, [bs EXCEPT ![i].fall_through = fall])
<1> DEFINE e == [bs[i] EXCEPT !.fall_through = fall]
<1>1. [bs EXCEPT ![i].fall_through = fall] = [bs EXCEPT ![i] = e]
  OBVIOUS
<1>2. ASSUME i \in 1 .. Len(bs) PROVE e \in Block /\ Alike(bs[i], e)
  <2>1. bs[i] \in Block
    BY <1>2
  <2> QED BY <2>1 DEF Block, Alike
<1>3. \A j \in 1 .. Len(bs) : Alike(bs[j], bs[j])
  BY DEF Alike
<1> HIDE DEF e
<1> QED BY <1>1, <1>2, <1>3, Replace DEF AllAlike

LEMMA LikeItself ==
  ASSUME NEW bs \in Seq(Block)
  PROVE  AllAlike(bs, bs)
BY DEF AllAlike, Alike

\* A block, and its history, count more fixes.
LEMMA CountFix ==
  ASSUME NEW b \in Block, NEW n \in Nat, NEW e,
         e = [b EXCEPT !.num_fixs = @ + n]
  PROVE  /\ e \in Block /\ e.num_fixs = b.num_fixs + n /\ e.size = b.size
         /\ e.is_begin = b.is_begin /\ e.offset = b.offset
         /\ e.parent_frag = b.parent_frag
BY DEF Block

\* A new block.
LEMMA NewBlock ==
  ASSUME NEW bs \in Seq(Block), NEW parent \in Nat, NEW fall \in {0, 1},
         NEW cs, cs = init_basic_block(bs, parent, fall)
  PROVE  /\ cs \in Seq(Block) /\ Len(cs) = Len(bs) + 1
         /\ \A b \in 1 .. Len(bs) : cs[b] = bs[b]
         /\ cs[Len(cs)].size = 0 /\ cs[Len(cs)].num_fixs = 0
         /\ cs[Len(cs)].is_begin = 1
<1> DEFINE e == [ID |-> Len(bs), type |-> 0, offset |-> NULL, size |-> 0,
                 num_fixs |-> 0, fall_through |-> fall, parent_id |-> parent,
                 is_begin |-> 1, parent_frag |-> 0]
<1>1. e \in Block /\ e.size = 0 /\ e.num_fixs = 0 /\ e.is_begin = 1
  BY DEF Block
<1>2. cs = Append(bs, e)
  BY DEF init_basic_block
<1> HIDE DEF e
<1> QED BY <1>1, <1>2, AppendProperties

----------------------------------------------------------------------------
(***************************************************************************)
(* Steps that write no instruction.                                        *)
(***************************************************************************)

\* What such a step leaves alone: the history and the marks of frags; and it
\* opens no frag that is the one of the last instruction.
Quiet ==
  /\ UNCHANGED <<last_bb, branches, jumpOf, bbinfo_last_frag,
                 bbinfo_last_inst_offset, bbinfo_last_inst_size>>
  /\ bbinfo_handwritten_file' => bbinfo_handwritten_file
  /\ \A s \in Secs :
       frag_now'[s] = bbinfo_last_frag => frag_now[s] = bbinfo_last_frag

\* The list of blocks keeps its length.
LEMMA BlocksSame ==
  ASSUME FragTypes, BlockTypes, BlockInv, Quiet, AllAlike(mbbs, mbbs'),
         real' = real
  PROVE  BlockInv'
<1>1. /\ mbbs \in Seq(Block) /\ mbbs' \in Seq(Block) /\ Len(mbbs') = Len(mbbs)
      /\ DOMAIN mbbs = 1 .. Len(mbbs) /\ DOMAIN mbbs' = 1 .. Len(mbbs)
      /\ Len(mbbs) \in Nat
  BY DEF BlockTypes, AllAlike
<1>2. \A b \in 1 .. Len(mbbs) : Alike(mbbs[b], mbbs'[b])
  BY DEF AllAlike
<1>3. tail' = tail /\ tail = Len(mbbs)
  BY <1>1 DEF tail
<1>4. BlocksNamed'
  BY <1>3 DEF BlockInv, BlocksNamed, Quiet
<1>5. TailBegun'
  BY <1>1, <1>2, <1>3 DEF BlockInv, TailBegun, Alike
<1>6. HandEnd'
  BY <1>3 DEF BlockInv, HandEnd, Quiet
<1>7. SizesRead' /\ StartsRecorded' /\ HandBlocksContiguous'
      /\ FixesRead'
  BY <1>1, <1>2 DEF BlockInv, SizesRead, StartsRecorded,
                    HandBlocksContiguous, FixesRead, Alike, Quiet
<1> QED BY <1>4, <1>5, <1>6, <1>7 DEF BlockInv

\* A new block is appended, possibly after a mark was set.
LEMMA BlockAdded ==
  ASSUME FragTypes, BlockTypes, BlockInv, Quiet,
         NEW bs, AllAlike(mbbs, bs), NEW parent \in Nat, NEW fall \in {0, 1},
         mbbs' = init_basic_block(bs, parent, fall),
         real' = Append(real, Unused)
  PROVE  BlockInv' /\ mbbs' \in Seq(Block) /\ real' \in Seq(Real)
<1> DEFINE n == Len(mbbs) + 1
<1>1. /\ mbbs \in Seq(Block) /\ bs \in Seq(Block) /\ Len(bs) = Len(mbbs)
      /\ Len(mbbs) \in Nat /\ DOMAIN mbbs = 1 .. Len(mbbs)
      /\ \A b \in 1 .. Len(mbbs) : Alike(mbbs[b], bs[b])
  BY DEF BlockTypes, AllAlike
<1>2. /\ mbbs' \in Seq(Block) /\ Len(mbbs') = n
      /\ \A b \in 1 .. Len(mbbs) : mbbs'[b] = bs[b]
      /\ mbbs'[n].size = 0 /\ mbbs'[n].num_fixs = 0 /\ mbbs'[n].is_begin = 1
  BY <1>1, NewBlock
<1>3. DOMAIN mbbs' = 1 .. n
  BY <1>2
<1>4. Unused \in Real /\ Unused.bytes = 0 /\ Unused.fixes = 0
      /\ Unused.gap = FALSE
  BY DEF Unused, Real, Place, NoPlace
<1>5. real \in Seq(Real) /\ Len(real) = Len(mbbs)
  BY DEF BlockTypes, BlockInv, BlocksNamed, tail
<1>6. /\ real' \in Seq(Real) /\ Len(real') = n /\ real'[n] = Unused
      /\ \A b \in 1 .. Len(mbbs) : real'[b] = real[b]
  BY <1>4, <1>5, AppendProperties
<1>7. tail = Len(mbbs) /\ tail' = n
  BY <1>2 DEF tail
<1>8. \A b \in 1 .. n : b = n \/ b \in 1 .. Len(mbbs)
  BY <1>1
<1> HIDE DEF n
<1>9. BlocksNamed'
  <2>1. \A f \in FragId : last_bb[f] \in Nat /\ last_bb[f] <= Len(mbbs)
    BY <1>7 DEF BlockInv, BlocksNamed, FragTypes
  <2>2. \A f \in FragId : last_bb'[f] <= n
    BY <2>1, <1>1 DEF Quiet, n
  <2> QED BY <2>2, <1>6, <1>7 DEF BlockInv, BlocksNamed, Quiet
<1>10. TailBegun' /\ HandEnd'
  BY <1>2, <1>4, <1>6, <1>7 DEF TailBegun, HandEnd
<1>11. ASSUME NEW b \in 1 .. n
       PROVE  /\ mbbs'[b].size = real'[b].bytes
              /\ mbbs'[b].size > 0 =>
                   real'[b].start = [frag |-> mbbs'[b].parent_frag,
                                     off  |-> mbbs'[b].offset]
              /\ bbinfo_handwritten_file' => ~real'[b].gap
              /\ ~real'[b].stray => mbbs'[b].num_fixs = real'[b].fixes
  <2>1. CASE b = n
    BY <2>1, <1>2, <1>4, <1>6
  <2>2. CASE b \in 1 .. Len(mbbs)
    <3>1. real'[b] = real[b] /\ Alike(mbbs[b], mbbs'[b])
      BY <2>2, <1>1, <1>2, <1>6
    <3>2. /\ mbbs[b].size = real[b].bytes
          /\ mbbs[b].size > 0 =>
               real[b].start = [frag |-> mbbs[b].parent_frag,
                                off  |-> mbbs[b].offset]
          /\ bbinfo_handwritten_file => ~real[b].gap
          /\ ~real[b].stray => mbbs[b].num_fixs = real[b].fixes
      BY <2>2, <1>1 DEF BlockInv, SizesRead, StartsRecorded,
                        HandBlocksContiguous, FixesRead
    <3> QED BY <3>1, <3>2 DEF Alike, Quiet
  <2> QED BY <2>1, <2>2, <1>8
<1>12. SizesRead' /\ StartsRecorded' /\ HandBlocksContiguous'
       /\ FixesRead'
  BY <1>3, <1>11 DEF SizesRead, StartsRecorded, HandBlocksContiguous,
                     FixesRead
<1> QED BY <1>2, <1>6, <1>9, <1>10, <1>12 DEF BlockInv

----------------------------------------------------------------------------
(***************************************************************************)
(* Frags.                                                                  *)
(***************************************************************************)

\* The frag that is open after g more have been opened.
LEMMA AfterOpen ==
  ASSUME FragTypes, FragsOpened, NEW g \in Nat, nfrags + g <= MaxFrags
  PROVE  /\ cur \in FragId /\ cur <= nfrags
         /\ After(g) \in FragId
         /\ g = 0 => After(g) = cur
         /\ g > 0 => After(g) = nfrags + g
BY DEF FragTypes, FragsOpened, FragId, cur, After

\* Opening n frags: those that get bytes are open or new, and no frag becomes
\* the open one again.
LEMMA FragsStay ==
  ASSUME FragTypes, BlockTypes, FragsOpened, NEW n \in Nat, Open(n),
         fr_fix' \in [FragId -> Nat],
         \A f \in FragId : f > nfrags + n => fr_fix'[f] = fr_fix[f],
         branches' \subseteq FragId,
         \A f \in branches' \ branches : f <= nfrags + n /\ f # frag_now'[now_seg]
                                      /\ (f = cur \/ f > nfrags),
         n = 0 => branches' = branches,
         branches \subseteq branches',
         last_bb' \in [FragId -> Nat], now_seg' = now_seg,
         bbinfo_last_frag' \in {bbinfo_last_frag, cur}
  PROVE  /\ FragTypes' /\ FragsOpened' /\ nfrags' = nfrags + n
         /\ n = 0 => frag_now' = frag_now
         /\ \A s \in Secs : /\ s # now_seg => frag_now'[s] = frag_now[s]
                            /\ frag_now'[s] <= nfrags => frag_now'[s] = frag_now[s]
         /\ n > 0 => \A s \in Secs : frag_now'[s] # cur
<1> DEFINE new == (nfrags + 1) .. (nfrags + n)
<1>1. /\ nfrags \in Nat /\ nfrags >= 1 /\ nfrags + n <= MaxFrags
      /\ nfrags' = nfrags + n /\ MaxFrags \in Nat
  BY DEF FragTypes, FragId, Open
<1>2. /\ fr_sec' = [f \in FragId |-> IF f \in new THEN now_seg ELSE fr_sec[f]]
      /\ frag_now' = [frag_now EXCEPT ![now_seg] =
                         IF n = 0 THEN @ ELSE nfrags + n]
  BY DEF Open
<1>3. now_seg \in Secs /\ frag_now \in [Secs -> FragId]
      /\ fr_sec \in [FragId -> Secs]
  BY DEF FragTypes
<1>4. \A s \in Secs : frag_now'[s] = IF s = now_seg /\ n > 0 THEN nfrags + n
                                     ELSE frag_now[s]
  <2> TAKE s \in Secs
  <2>1. CASE s = now_seg
    BY <2>1, <1>2, <1>3
  <2>2. CASE s # now_seg
    BY <2>2, <1>2, <1>3
  <2> QED BY <2>1, <2>2
<1>5. nfrags' \in FragId
  BY <1>1 DEF FragId
<1>6. frag_now' \in [Secs -> FragId] /\ (n = 0 => frag_now' = frag_now)
  BY <1>1, <1>2, <1>3, <1>5
<1>7. fr_sec' \in [FragId -> Secs]
  BY <1>2, <1>3
<1>8. FragTypes'
  BY <1>3, <1>5, <1>6, <1>7 DEF FragTypes
<1>9. \A f \in FragId : f \in Nat
  BY DEF FragId
<1>10. \A f \in FragId : f > nfrags' => fr_fix'[f] = 0
  BY <1>1, <1>9 DEF FragsOpened
<1>11. cur = frag_now[now_seg] /\ cur \in FragId /\ cur <= nfrags
       /\ fr_sec[cur] = now_seg
  BY <1>3 DEF cur, FragsOpened
<1>12. ASSUME NEW s \in Secs
       PROVE  /\ frag_now'[s] <= nfrags' /\ fr_sec'[frag_now'[s]] = s
              /\ frag_now'[s] \notin branches'
  <2>1. frag_now[s] \in FragId /\ frag_now[s] <= nfrags
        /\ fr_sec[frag_now[s]] = s /\ frag_now[s] \notin branches
    BY <1>3 DEF FragsOpened
  <2>2. CASE s = now_seg /\ n > 0
    <3>1. frag_now'[s] = nfrags + n /\ nfrags + n \in new /\ nfrags + n \in FragId
      BY <2>2, <1>1, <1>4, <1>5
    <3>2. fr_sec'[nfrags + n] = s
      BY <3>1, <2>2, <1>2
    <3>3. nfrags + n \notin branches
      BY <2>2, <1>1 DEF FragsOpened
    <3> QED BY <3>1, <3>2, <3>3, <2>2, <1>1
  <2>3. CASE ~(s = now_seg /\ n > 0)
    <3>1. frag_now'[s] = frag_now[s] /\ frag_now[s] \notin new
      BY <2>1, <2>3, <1>1, <1>4, <1>9
    <3>2. fr_sec'[frag_now[s]] = s
      BY <3>1, <2>1, <1>2
    <3>3. frag_now[s] \notin branches'
      <4>1. CASE n = 0
        BY <4>1, <2>1
      <4>2. CASE s # now_seg
        <5>1. frag_now[s] # cur
          BY <4>2, <2>1, <1>11
        <5>2. ~(frag_now[s] > nfrags)
          BY <2>1, <1>1, <1>9
        <5> QED BY <5>1, <5>2, <2>1
      <4> QED BY <4>1, <4>2, <2>3
    <3> QED BY <3>1, <3>2, <3>3, <2>1, <1>1, <1>9
  <2> QED BY <2>2, <2>3
<1>13. \A f \in branches' : f <= nfrags'
  <2> TAKE f \in branches'
  <2>1. CASE f \in branches
    <3>1. f \in Nat /\ f <= nfrags
      BY <2>1, <1>9 DEF FragsOpened, FragTypes
    <3> QED BY <3>1, <1>1
  <2>2. CASE f \notin branches
    BY <2>2, <1>1
  <2> QED BY <2>1, <2>2
<1>14. bbinfo_last_frag' <= nfrags'
  <2>1. bbinfo_last_frag \in Nat /\ cur \in Nat /\ bbinfo_last_frag <= nfrags
    BY <1>9, <1>11 DEF FragsOpened, BlockTypes
  <2> QED BY <2>1, <1>1, <1>11
<1>15. FragsOpened'
  BY <1>10, <1>12, <1>13, <1>14 DEF FragsOpened
<1>16. n > 0 => \A s \in Secs : frag_now'[s] # cur
  <2>1. SUFFICES ASSUME n > 0, NEW s \in Secs PROVE frag_now'[s] # cur
    OBVIOUS
  <2>2. CASE s = now_seg
    BY <2>1, <2>2, <1>1, <1>4, <1>9, <1>11
  <2>3. CASE s # now_seg
    BY <2>3, <1>4, <1>11 DEF FragsOpened
  <2> QED BY <2>2, <2>3
<1>17. \A s \in Secs : /\ s # now_seg => frag_now'[s] = frag_now[s]
                       /\ frag_now'[s] <= nfrags => frag_now'[s] = frag_now[s]
  <2> TAKE s \in Secs
  <2>1. ~(nfrags + n <= nfrags) \/ n = 0
    BY <1>1
  <2> QED BY <2>1, <1>4
<1>18. FragTypes' /\ FragsOpened' /\ nfrags' = nfrags + n
  BY <1>1, <1>8, <1>15
<1>19. n = 0 => frag_now' = frag_now
  BY <1>6
<1> QED BY <1>16, <1>17, <1>18, <1>19

----------------------------------------------------------------------------
(***************************************************************************)
(* The actions, but for instructions and conversion.                       *)
(***************************************************************************)

LEMMA InitReadSafe == Init => ReadSafe
<1> SUFFICES ASSUME Init PROVE ReadSafe
  OBVIOUS
<1>1. /\ Len(SecOrder) \in Nat /\ Len(SecOrder) > 0
      /\ Len(SecOrder) < MaxFrags /\ MaxFrags \in Nat
      /\ DOMAIN SecOrder = 1 .. Len(SecOrder)
  BY EmptySeq, LenProperties
<1>2. \A f \in 1 .. Len(SecOrder) : SecOrder[f] \in Secs /\ f \in FragId
  BY <1>1 DEF Secs, FragId
<1>3. nfrags = Len(SecOrder) /\ nfrags \in FragId /\ branches = {}
      /\ now_seg \in Secs
  BY <1>1, <1>2 DEF Init, FragId
<1>4. fr_fix \in [FragId -> Nat] /\ last_bb \in [FragId -> Nat]
      /\ jumpOf \in [FragId -> Nat]
      /\ \A f \in FragId : fr_fix[f] = 0 /\ last_bb[f] = 0
  BY DEF Init
<1>5. /\ fr_sec \in [FragId -> Secs]
      /\ \A f \in 1 .. Len(SecOrder) : fr_sec[f] = SecOrder[f]
  BY <1>1, <1>2 DEF Init, FragId
<1>6. ASSUME NEW s \in Secs
      PROVE  frag_now[s] \in 1 .. Len(SecOrder) /\ SecOrder[frag_now[s]] = s
  <2>1. \E f \in 1 .. Len(SecOrder) : SecOrder[f] = s
    BY <1>1 DEF Secs
  <2>2. frag_now[s] = CHOOSE f \in 1 .. Len(SecOrder) : SecOrder[f] = s
    BY DEF Init
  <2> QED BY <2>1, <2>2
<1>7. frag_now \in [Secs -> FragId]
  BY <1>2, <1>6 DEF Init
<1>8. FragTypes
  BY <1>3, <1>4, <1>5, <1>7 DEF FragTypes
<1>9. mbbs = <<>> /\ real = <<>> /\ fixups = <<>> /\ bbinfo_last_frag = 0
  BY DEF Init
<1>10. BlockTypes /\ OutTypes
  BY <1>9 DEF Init, BlockTypes, OutTypes
<1>11. FragsOpened
  BY <1>1, <1>3, <1>4, <1>5, <1>6, <1>9 DEF FragsOpened
<1>12. Len(mbbs) = 0 /\ Len(real) = 0 /\ DOMAIN mbbs = {} /\ DOMAIN fixups = {}
  BY <1>9
<1>13. BlockInv
  BY <1>3, <1>4, <1>12
     DEF BlockInv, BlocksNamed, TailBegun, HandEnd, SizesRead, StartsRecorded,
         HandBlocksContiguous, FixesRead, tail
<1>14. FixupsSerial
  BY <1>12 DEF FixupsSerial
<1> QED BY <1>8, <1>10, <1>11, <1>13, <1>14, SafeParts

\* A step that opens no frag and writes none.
LEMMA SameFrags ==
  ASSUME FragTypes, FragsOpened,
         UNCHANGED <<fr_fix, fr_sec, branches, last_bb, nfrags, frag_now,
                     bbinfo_last_frag>>,
         now_seg' \in Secs
  PROVE  FragTypes' /\ FragsOpened'
BY DEF FragTypes, FragsOpened

\* A step that leaves the fixups alone.
LEMMA SameOut ==
  ASSUME OutTypes, FixupsSerial, UNCHANGED outVars,
         phase' \in {"read", "convert", "fatal", "crash"}
  PROVE  OutTypes' /\ FixupsSerial'
BY DEF OutTypes, FixupsSerial, outVars

LEMMA DataSafe ==
  ASSUME ReadSafe, NEW g \in Nat, Data(g) \/ (Align /\ g = 1)
  PROVE  ReadSafe'
<1>1. /\ FragTypes /\ BlockTypes /\ OutTypes
      /\ FragsOpened /\ BlockInv /\ FixupsSerial
  BY SafeParts
<1>2. /\ Open(g) /\ g \in Nat
      /\ UNCHANGED <<branches, last_bb, now_seg, mbbs, real, jumpOf, phase>>
      /\ UNCHANGED funcVars /\ UNCHANGED handVars /\ UNCHANGED outVars
      /\ \/ fr_fix' = [fr_fix EXCEPT ![After(g)] = @ + 1]
         \/ fr_fix' = fr_fix
  BY DEF Data, Align
<1>3. After(g) \in FragId /\ After(g) <= nfrags + g /\ nfrags \in Nat
  <2>1. nfrags + g <= MaxFrags /\ nfrags \in Nat
    BY <1>1, <1>2, FragIds DEF Open, FragTypes
  <2> QED BY <2>1, <1>1, <1>2, FragIds, AfterOpen
<1>4. /\ fr_fix' \in [FragId -> Nat]
      /\ \A f \in FragId : f > nfrags + g => fr_fix'[f] = fr_fix[f]
  <2>1. fr_fix \in [FragId -> Nat] /\ \A f \in FragId : f \in Nat
    BY <1>1, FragIds DEF FragTypes
  <2>2. After(g) \in Nat /\ \A f \in FragId : f > nfrags + g => f # After(g)
    BY <1>2, <1>3, <2>1
  <2> QED BY <1>2, <1>3, <2>1, <2>2
<1>5. /\ branches' = branches /\ branches' \subseteq FragId
      /\ last_bb' \in [FragId -> Nat] /\ now_seg' = now_seg
      /\ bbinfo_last_frag' = bbinfo_last_frag
      /\ bbinfo_last_frag' \in {bbinfo_last_frag, cur}
  BY <1>1, <1>2 DEF FragTypes, handVars
<1>6. /\ FragTypes' /\ FragsOpened'
      /\ \A s \in Secs : frag_now'[s] <= nfrags => frag_now'[s] = frag_now[s]
  BY <1>1, <1>2, <1>4, <1>5, FragsStay
<1>7. Quiet
  <2>1. bbinfo_last_frag <= nfrags
    BY <1>1 DEF FragsOpened
  <2> QED BY <1>2, <1>6, <2>1 DEF Quiet, handVars
<1>8. BlockInv' /\ BlockTypes'
  BY <1>1, <1>2, <1>7, BlocksSame, LikeItself
     DEF BlockTypes, funcVars, handVars
<1>9. OutTypes' /\ FixupsSerial'
  BY <1>1, <1>2, SameOut DEF OutTypes
<1> QED BY <1>6, <1>8, <1>9, SafeAfter

\* A directive: it writes no bytes, and marks blocks or adds one.
LEMMA DirectiveSafe ==
  ASSUME ReadSafe, UNCHANGED <<fr_fix, fr_sec, branches, last_bb, nfrags, frag_now>>,
         now_seg' \in Secs, UNCHANGED outVars, UNCHANGED jumpOf,
         UNCHANGED <<bbinfo_last_frag, bbinfo_last_inst_offset,
                     bbinfo_last_inst_size>>,
         phase' \in {"read", "convert", "fatal", "crash"},
         bbinfo_handwritten_file' \in {bbinfo_handwritten_file, FALSE},
         cur_function_id' \in Nat, cur_function_end_id' \in Nat,
         handwritten_bbinfo_func_name' \in Funcs \cup {NULL},
         \/ AllAlike(mbbs, mbbs') /\ real' = real
         \/ \E bs : /\ AllAlike(mbbs, bs)
                   /\ \E parent \in Nat, fall \in {0, 1} :
                        mbbs' = init_basic_block(bs, parent, fall)
                   /\ real' = Append(real, Unused)
  PROVE  ReadSafe'
<1>1. /\ FragTypes /\ BlockTypes /\ OutTypes
      /\ FragsOpened /\ BlockInv /\ FixupsSerial
  BY SafeParts
<1>2. FragTypes' /\ FragsOpened'
  BY <1>1, SameFrags
<1>3. OutTypes' /\ FixupsSerial'
  BY <1>1, SameOut
<1>4. Quiet
  <2>1. bbinfo_handwritten_file' => bbinfo_handwritten_file
    BY Zenon
  <2>2. \A s \in Secs :
          frag_now'[s] = bbinfo_last_frag => frag_now[s] = bbinfo_last_frag
    OBVIOUS
  <2> QED BY <2>1, <2>2 DEF Quiet
<1>5. BlockInv' /\ mbbs' \in Seq(Block) /\ real' \in Seq(Real)
  <2>1. CASE AllAlike(mbbs, mbbs') /\ real' = real
    BY <2>1, <1>1, <1>4, BlocksSame DEF AllAlike, BlockTypes
  <2>2. ASSUME NEW bs, AllAlike(mbbs, bs), NEW parent \in Nat,
               NEW fall \in {0, 1}, mbbs' = init_basic_block(bs, parent, fall),
               real' = Append(real, Unused)
        PROVE  BlockInv' /\ mbbs' \in Seq(Block) /\ real' \in Seq(Real)
    BY <2>2, <1>1, <1>4, BlockAdded
  <2> QED BY <2>1, <2>2
<1>6. BlockTypes'
  BY <1>1, <1>5 DEF BlockTypes
<1> QED BY <1>2, <1>3, <1>5, <1>6, SafeAfter

LEMMA SwitchSafe ==
  ASSUME ReadSafe, NEW s \in Secs, SwitchSection(s)
  PROVE  ReadSafe'
<1>1. /\ mbbs \in Seq(Block) /\ phase \in {"read", "convert", "fatal", "crash"}
      /\ cur_function_id \in Nat /\ cur_function_end_id \in Nat
      /\ handwritten_bbinfo_func_name \in Funcs \cup {NULL}
  BY DEF ReadSafe, FragTypes, BlockTypes, OutTypes
<1>2. AllAlike(mbbs, mbbs') /\ real' = real
  BY <1>1, LikeItself DEF SwitchSection
<1> QED BY <1>1, <1>2, DirectiveSafe
       DEF SwitchSection, funcVars, handVars, outVars

LEMMA TypeFunctionSafe ==
  ASSUME ReadSafe, NEW f \in Funcs, TypeFunction(f)
  PROVE  ReadSafe'
<1>1. /\ mbbs \in Seq(Block) /\ phase \in {"read", "convert", "fatal", "crash"}
      /\ cur_function_id \in Nat /\ cur_function_end_id \in Nat
      /\ handwritten_bbinfo_func_name \in Funcs \cup {NULL}
      /\ now_seg \in Secs
  BY DEF ReadSafe, FragTypes, BlockTypes, OutTypes
<1>2. AllAlike(mbbs, mbbs) /\ AllAlike(mbbs, MarkEnd(mbbs))
  BY <1>1, LikeItself, MarkType DEF MarkEnd
<1>3. \/ AllAlike(mbbs, mbbs') /\ real' = real
      \/ \E bs : /\ AllAlike(mbbs, bs)
                /\ \E parent \in Nat, fall \in {0, 1} :
                     mbbs' = init_basic_block(bs, parent, fall)
                /\ real' = Append(real, Unused)
  <2>1. CASE bbinfo_handwritten_file /\ ~TailUnused
    <3> DEFINE bs == IF tail > 0 THEN MarkEnd(mbbs) ELSE mbbs
    <3>1. AllAlike(mbbs, bs)
      BY <1>2
    <3>2. mbbs' = init_basic_block(bs, cur_function_id, 0)
          /\ real' = Append(real, Unused)
      BY <2>1 DEF TypeFunction
    <3> HIDE DEF bs
    <3> QED BY <1>1, <3>1, <3>2
  <2>2. CASE ~(bbinfo_handwritten_file /\ ~TailUnused)
    BY <2>2, <1>2 DEF TypeFunction
  <2> QED BY <2>1, <2>2
<1>4. handwritten_bbinfo_func_name' \in Funcs \cup {NULL}
  BY <1>1 DEF TypeFunction
<1> QED BY <1>1, <1>3, <1>4, DirectiveSafe
       DEF TypeFunction, fragVars, funcVars, outVars

LEMMA SizeSafe ==
  ASSUME ReadSafe, NEW f \in Funcs, Size(f)
  PROVE  ReadSafe'
<1>1. /\ mbbs \in Seq(Block) /\ phase \in {"read", "convert", "fatal", "crash"}
      /\ cur_function_id \in Nat /\ cur_function_end_id \in Nat
      /\ handwritten_bbinfo_func_name \in Funcs \cup {NULL}
      /\ now_seg \in Secs
  BY DEF ReadSafe, FragTypes, BlockTypes, OutTypes
<1>2. AllAlike(mbbs, mbbs') /\ real' = real
  BY <1>1, LikeItself, MarkType DEF Size, MarkEnd
<1> QED BY <1>1, <1>2, DirectiveSafe
       DEF Size, fragVars, funcVars, handVars, outVars

LEMMA FuncBSafe ==
  ASSUME ReadSafe, FuncB
  PROVE  ReadSafe'
<1>1. /\ mbbs \in Seq(Block) /\ phase \in {"read", "convert", "fatal", "crash"}
      /\ cur_function_id \in Nat /\ cur_function_end_id \in Nat
      /\ handwritten_bbinfo_func_name \in Funcs \cup {NULL}
      /\ now_seg \in Secs
  BY DEF ReadSafe, FragTypes, BlockTypes, OutTypes
<1>2. AllAlike(mbbs, mbbs)
  BY <1>1, LikeItself
<1>3. \/ AllAlike(mbbs, mbbs') /\ real' = real
      \/ \E bs : /\ AllAlike(mbbs, bs)
                /\ \E parent \in Nat, fall \in {0, 1} :
                     mbbs' = init_basic_block(bs, parent, fall)
                /\ real' = Append(real, Unused)
  <2>1. cur_function_id + 1 \in Nat
    BY <1>1
  <2> QED BY <1>2, <2>1 DEF FuncB
<1>4. cur_function_id' \in Nat
  BY <1>1 DEF FuncB
<1>5. bbinfo_handwritten_file' \in {bbinfo_handwritten_file, FALSE}
  BY Zenon DEF FuncB
<1> QED BY <1>1, <1>3, <1>4, <1>5, DirectiveSafe
       DEF FuncB, fragVars, outVars

LEMMA FuncESafe ==
  ASSUME ReadSafe, FuncE
  PROVE  ReadSafe'
<1>1. /\ mbbs \in Seq(Block) /\ phase \in {"read", "convert", "fatal", "crash"}
      /\ cur_function_id \in Nat /\ cur_function_end_id \in Nat
      /\ handwritten_bbinfo_func_name \in Funcs \cup {NULL}
      /\ now_seg \in Secs
  BY DEF ReadSafe, FragTypes, BlockTypes, OutTypes
<1>2. AllAlike(mbbs, mbbs') /\ real' = real
  BY <1>1, LikeItself, MarkType DEF FuncE, MarkEnd
<1>3. phase' \in {"read", "convert", "fatal", "crash"}
      /\ cur_function_end_id' \in Nat
  BY <1>1 DEF FuncE
<1> QED BY <1>1, <1>2, <1>3, DirectiveSafe
       DEF FuncE, fragVars, handVars, outVars

LEMMA BBDirectiveSafe ==
  ASSUME ReadSafe, NEW fall \in {0, 1}, BB(fall)
  PROVE  ReadSafe'
<1>1. /\ mbbs \in Seq(Block) /\ phase \in {"read", "convert", "fatal", "crash"}
      /\ cur_function_id \in Nat /\ cur_function_end_id \in Nat
      /\ handwritten_bbinfo_func_name \in Funcs \cup {NULL}
      /\ now_seg \in Secs
  BY DEF ReadSafe, FragTypes, BlockTypes, OutTypes
<1>2. AllAlike(mbbs, mbbs)
      /\ AllAlike(mbbs, [mbbs EXCEPT ![tail].fall_through = fall])
  BY <1>1, LikeItself, MarkFall
<1>3. \/ AllAlike(mbbs, mbbs') /\ real' = real
      \/ \E bs : /\ AllAlike(mbbs, bs)
                /\ \E parent \in Nat, fl \in {0, 1} :
                     mbbs' = init_basic_block(bs, parent, fl)
                /\ real' = Append(real, Unused)
  BY <1>1, <1>2 DEF BB
<1>4. bbinfo_handwritten_file' \in {bbinfo_handwritten_file, FALSE}
  BY DEF BB
<1> QED BY <1>1, <1>3, <1>4, DirectiveSafe
       DEF BB, fragVars, funcVars, outVars

LEMMA BESafe ==
  ASSUME ReadSafe, NEW fall \in {0, 1}, BE(fall)
  PROVE  ReadSafe'
<1>1. /\ mbbs \in Seq(Block) /\ phase \in {"read", "convert", "fatal", "crash"}
      /\ cur_function_id \in Nat /\ cur_function_end_id \in Nat
      /\ handwritten_bbinfo_func_name \in Funcs \cup {NULL}
      /\ now_seg \in Secs
  BY DEF ReadSafe, FragTypes, BlockTypes, OutTypes
<1>2. AllAlike(mbbs, mbbs') /\ real' = real
  <2>1. 1 \in {0, 1}
    OBVIOUS
  <2> QED BY <1>1, <2>1, LikeItself, MarkFall DEF BE
<1>3. phase' \in {"read", "convert", "fatal", "crash"}
  BY <1>1 DEF BE
<1> QED BY <1>1, <1>2, <1>3, DirectiveSafe
       DEF BE, fragVars, funcVars, handVars, outVars

----------------------------------------------------------------------------
(***************************************************************************)
(* The list of fixups.                                                     *)
(***************************************************************************)

Fixup == [sec: Secs, offset: Nat]

\* A list of fixups is in order.
Serial(fl) ==
  \A m, n \in DOMAIN fl :
    (m < n /\ fl[m].sec = fl[n].sec) =>
      \A x \in m .. n : fl[x].sec = fl[m].sec /\ fl[m].offset <= fl[n].offset

\* There is a place for a fixup of a section that has one: the loop ends in
\* the run of its section or right behind it.
LEMMA PlaceFound ==
  ASSUME NEW fl \in Seq(Fixup), NEW s, NEW off \in Nat,
         \E n \in DOMAIN fl : fl[n].sec = s
  PROVE  LET n == InsertAt(fl, s, off)
         IN  /\ n \in 1 .. Len(fl) + 1
             /\ n > Len(fl) \/ fl[n].sec # s \/ off <= fl[n].offset
             /\ \E first \in DOMAIN fl :
                  /\ fl[first].sec = s /\ n >= first
                  /\ \A x \in 1 .. (first - 1) : fl[x].sec # s
                  /\ \A x \in first .. (n - 1) :
                       fl[x].sec = s /\ off > fl[x].offset
<1> DEFINE IsFirst(m) == /\ fl[m].sec = s
                         /\ \A x \in 1 .. (m - 1) : fl[x].sec # s
           first == CHOOSE m \in DOMAIN fl : IsFirst(m)
           Stop(n) == n > Len(fl) \/ fl[n].sec # s \/ off <= fl[n].offset
           Fits(n) == /\ n >= first /\ Stop(n)
                      /\ \A x \in first .. (n - 1) :
                           fl[x].sec = s /\ off > fl[x].offset
<1>1. Len(fl) \in Nat /\ DOMAIN fl = 1 .. Len(fl)
      /\ \A x \in 1 .. Len(fl) : fl[x].offset \in Nat
  <2>1. Len(fl) \in Nat /\ DOMAIN fl = 1 .. Len(fl)
        /\ \A x \in 1 .. Len(fl) : fl[x] \in Fixup
    BY LenProperties
  <2> QED BY <2>1 DEF Fixup
<1>2. first \in DOMAIN fl /\ IsFirst(first)
  <2> DEFINE Ours == {m \in DOMAIN fl : fl[m].sec = s}
  <2>1. Ours \in SUBSET Nat /\ Ours # {}
    BY <1>1
  <2>2. PICK m \in Ours : \A n \in Ours : m <= n
    <3> HIDE DEF Ours
    <3> QED BY <2>1, Least
  <2>3. m \in DOMAIN fl /\ IsFirst(m)
    BY <1>1, <2>2
  <2> HIDE DEF IsFirst
  <2> QED BY <2>3
<1> HIDE DEF first
<1>3. \E n \in 1 .. Len(fl) + 1 : Fits(n)
  <2> DEFINE Ends == {n \in first .. Len(fl) + 1 : Stop(n)}
  <2>1. Ends \in SUBSET Nat /\ Ends # {}
    <3>1. Len(fl) + 1 \in Ends
      BY <1>1, <1>2
    <3>2. first \in Nat
      BY <1>1, <1>2
    <3>3. first .. Len(fl) + 1 \subseteq Nat
      BY <3>2, <1>1
    <3> HIDE DEF Stop
    <3> QED BY <3>1, <3>3
  <2>2. PICK n \in Ends : \A j \in Ends : n <= j
    <3> HIDE DEF Ends
    <3> QED BY <2>1, Least
  <2>3. n \in 1 .. Len(fl) + 1 /\ n >= first /\ Stop(n)
    BY <1>1, <1>2, <2>2
  <2>4. ASSUME NEW x \in first .. (n - 1)
        PROVE  fl[x].sec = s /\ off > fl[x].offset
    <3>1. x \in 1 .. Len(fl) /\ x \notin Ends
      BY <1>1, <1>2, <2>2, <2>3
    <3> QED BY <3>1, <1>1, <1>2, <2>3
  <2> HIDE DEF Stop
  <2> QED BY <2>3, <2>4
<1>4. InsertAt(fl, s, off) = CHOOSE n \in 1 .. Len(fl) + 1 : Fits(n)
  BY Zenon DEF InsertAt, first
<1> DEFINE n == InsertAt(fl, s, off)
<1>5. n \in 1 .. Len(fl) + 1 /\ Fits(n)
  <2> HIDE DEF Fits
  <2> QED BY <1>3, <1>4
<1> HIDE DEF n
<1>6. /\ n \in 1 .. Len(fl) + 1 /\ Stop(n)
      /\ \E f \in DOMAIN fl :
           /\ fl[f].sec = s /\ n >= f
           /\ \A x \in 1 .. (f - 1) : fl[x].sec # s
           /\ \A x \in f .. (n - 1) : fl[x].sec = s /\ off > fl[x].offset
  BY <1>2, <1>5
<1> QED BY <1>6, Zenon DEF n

\* An element e is put in front of the n-th.
IsInsert(g, fl, n, e) ==
  g = SubSeq(fl, 1, n - 1) \o <<e>> \o SubSeq(fl, n, Len(fl))

LEMMA Inserted ==
  ASSUME NEW S, NEW fl \in Seq(S), NEW e \in S, NEW n \in 1 .. Len(fl) + 1,
         NEW g, IsInsert(g, fl, n, e)
  PROVE  /\ g \in Seq(S) /\ Len(g) = Len(fl) + 1
         /\ \A k \in 1 .. Len(fl) + 1 :
              g[k] = IF k < n THEN fl[k] ELSE IF k = n THEN e ELSE fl[k - 1]
<1> DEFINE a == SubSeq(fl, 1, n - 1)
           c == SubSeq(fl, n, Len(fl))
           b == <<e>>
<1>1. Len(fl) \in Nat /\ n \in Nat /\ n >= 1 /\ n <= Len(fl) + 1
  OBVIOUS
<1>2. /\ a \in Seq(S) /\ Len(a) = n - 1
      /\ \A k \in 1 .. n - 1 : a[k] = fl[k]
  BY <1>1
<1>3. /\ c \in Seq(S) /\ Len(c) = (Len(fl) - n) + 1
      /\ \A k \in 1 .. (Len(fl) - n) + 1 : c[k] = fl[(n + k) - 1]
  BY <1>1
<1>4. b \in Seq(S) /\ Len(b) = 1 /\ b[1] = e
  OBVIOUS
<1> HIDE DEF a, b, c
<1> DEFINE d == a \o b
<1>5. /\ d \in Seq(S) /\ Len(d) = n
      /\ \A k \in 1 .. n : d[k] = IF k < n THEN fl[k] ELSE e
  <2>1. d \in Seq(S) /\ Len(d) = Len(a) + Len(b)
        /\ \A k \in 1 .. Len(a) + Len(b) :
             d[k] = IF k <= Len(a) THEN a[k] ELSE b[k - Len(a)]
    BY <1>2, <1>4, ConcatProperties
  <2> HIDE DEF d
  <2> QED BY <2>1, <1>1, <1>2, <1>4
<1>6. g = d \o c
  BY DEF IsInsert, a, b, c
<1> HIDE DEF d
<1>7. /\ d \o c \in Seq(S) /\ Len(d \o c) = Len(d) + Len(c)
      /\ \A k \in 1 .. Len(d) + Len(c) :
           (d \o c)[k] = IF k <= Len(d) THEN d[k] ELSE c[k - Len(d)]
  BY <1>3, <1>5, ConcatProperties, Zenon
<1>8. Len(d) + Len(c) = Len(fl) + 1
  BY <1>1, <1>3, <1>5
<1>9. /\ g \in Seq(S) /\ Len(g) = Len(fl) + 1
      /\ \A k \in 1 .. Len(fl) + 1 :
           g[k] = IF k <= n THEN d[k] ELSE c[k - n]
  <2>1. Len(d) = n
    BY <1>5
  <2> QED BY <2>1, <1>6, <1>7, <1>8
<1>10. ASSUME NEW k \in 1 .. Len(fl) + 1
       PROVE  g[k] = IF k < n THEN fl[k] ELSE IF k = n THEN e ELSE fl[k - 1]
  <2>0. k \in Nat /\ k >= 1 /\ k <= Len(fl) + 1
    BY <1>1
  <2>1. CASE k <= n
    <3>1. k \in 1 .. n /\ g[k] = d[k]
      BY <2>0, <2>1, <1>1, <1>9
    <3>2. d[k] = IF k < n THEN fl[k] ELSE e
      BY <3>1, <1>5
    <3> QED BY <2>0, <2>1, <3>1, <3>2, <1>1
  <2>2. CASE k > n
    <3>1. k - n \in 1 .. (Len(fl) - n) + 1 /\ (n + (k - n)) - 1 = k - 1
      BY <2>0, <2>2, <1>1
    <3>2. g[k] = c[k - n]
      BY <2>0, <2>2, <1>1, <1>9
    <3>3. c[k - n] = fl[k - 1]
      BY <3>1, <1>3
    <3> QED BY <2>0, <2>2, <3>2, <3>3, <1>1
  <2> QED BY <2>0, <2>1, <2>2, <1>1
<1> QED BY <1>9, <1>10

\* bbinfo_init_insert_fixup keeps the list in order, in whatever order the
\* fixups come.
LEMMA InsertSerial ==
  ASSUME NEW fl \in Seq(Fixup), Serial(fl), NEW s \in Secs, NEW off \in Nat,
         NEW g, g = bbinfo_init_insert_fixup(fl, s, off)
  PROVE  g \in Seq(Fixup) /\ Serial(g)
<1> DEFINE n == InsertAt(fl, s, off)
           e == [sec |-> s, offset |-> off]
           Ours == \E i \in DOMAIN fl : fl[i].sec = s
           First(f) == /\ f \in DOMAIN fl /\ fl[f].sec = s /\ n >= f
                       /\ \A x \in 1 .. (f - 1) : fl[x].sec # s
                       /\ \A x \in f .. (n - 1) :
                            fl[x].sec = s /\ off > fl[x].offset
<1>1. Len(fl) \in Nat /\ DOMAIN fl = 1 .. Len(fl)
      /\ \A x \in 1 .. Len(fl) : fl[x].offset \in Nat
  <2>1. Len(fl) \in Nat /\ DOMAIN fl = 1 .. Len(fl)
        /\ \A x \in 1 .. Len(fl) : fl[x] \in Fixup
    BY LenProperties
  <2> QED BY <2>1 DEF Fixup
<1>2. n \in 1 .. Len(fl) + 1
      /\ (Ours => \E f : First(f))
      /\ (Ours => (n > Len(fl) \/ fl[n].sec # s \/ off <= fl[n].offset))
      /\ (~Ours => n = Len(fl) + 1)
  <2>1. CASE Ours
    BY <2>1, PlaceFound
  <2>2. CASE ~Ours
    <3>1. n = Len(fl) + 1
      BY <2>2 DEF InsertAt
    <3> HIDE DEF n
    <3> QED BY <2>2, <3>1, <1>1
  <2> QED BY <2>1, <2>2
<1>3. e \in Fixup /\ e.sec = s /\ e.offset = off
  BY DEF Fixup
<1>4. IsInsert(g, fl, n, e)
  BY DEF bbinfo_init_insert_fixup, IsInsert
<1> HIDE DEF n, e
<1>5. /\ g \in Seq(Fixup) /\ Len(g) = Len(fl) + 1
      /\ \A k \in 1 .. Len(fl) + 1 :
           g[k] = IF k < n THEN fl[k] ELSE IF k = n THEN e ELSE fl[k - 1]
  <2>1. n \in 1 .. Len(fl) + 1 /\ e \in Fixup
    BY <1>2, <1>3
  <2>2. fl \in Seq(Fixup)
    OBVIOUS
  <2> QED BY <2>1, <2>2, <1>4, Inserted
<1>6. DOMAIN g = 1 .. Len(fl) + 1
  BY <1>5
<1>7. \A i, j \in 1 .. Len(fl) :
        (i <= j /\ fl[i].sec = fl[j].sec) =>
          /\ fl[i].offset <= fl[j].offset
          /\ \A x \in i .. j : fl[x].sec = fl[i].sec
  <2> TAKE i, j \in 1 .. Len(fl)
  <2>1. CASE i < j
    <3>1. i \in i .. j
      BY <2>1, <1>1
    <3> QED BY <2>1, <3>1, <1>1 DEF Serial
  <2>2. CASE i = j
    BY <2>2, <1>1
  <2> QED BY <2>1, <2>2, <1>1
<1>8. ASSUME NEW m \in 1 .. Len(fl) + 1, NEW k \in 1 .. Len(fl) + 1,
             m < k, g[m].sec = g[k].sec
      PROVE  /\ g[m].offset <= g[k].offset
             /\ \A x \in m .. k : g[x].sec = g[m].sec
  <2>1. CASE k = n
    <3>1. m \in 1 .. Len(fl) /\ g[m] = fl[m] /\ g[k] = e /\ fl[m].sec = s
      BY <2>1, <1>1, <1>2, <1>3, <1>5, <1>8
    <3>2. PICK f : First(f)
      BY <3>1, <1>1, <1>2
    <3>3. f \in 1 .. Len(fl) /\ f <= m
      BY <3>1, <3>2, <1>1
    <3>4. \A x \in m .. n - 1 : g[x] = fl[x] /\ fl[x].sec = s
      BY <3>1, <3>2, <3>3, <1>1, <1>2, <1>5
    <3>5. off > fl[m].offset
      BY <3>1, <3>2, <3>3, <2>1, <1>1, <1>2, <1>8
    <3>6. \A x \in m .. k : x = n \/ x \in m .. n - 1
      BY <2>1, <1>2
    <3> QED BY <3>1, <3>4, <3>5, <3>6, <2>1, <1>1, <1>3
  <2>2. CASE m = n
    <3>1. k - 1 \in 1 .. Len(fl) /\ g[k] = fl[k - 1] /\ g[m] = e
          /\ fl[k - 1].sec = s /\ n <= k - 1 /\ n \in 1 .. Len(fl)
      BY <2>2, <1>1, <1>2, <1>3, <1>5, <1>8
    <3>2. PICK f : First(f)
      BY <3>1, <1>1, <1>2
    <3>3. f \in 1 .. Len(fl) /\ f <= n /\ f <= k - 1
      BY <3>1, <3>2, <1>1, <1>2
    <3>4. \A x \in f .. k - 1 : fl[x].sec = s
      BY <3>1, <3>2, <3>3, <1>7
    <3>5. fl[n].sec = s
      BY <3>1, <3>3, <3>4
    <3>6. off <= fl[n].offset /\ fl[n].offset <= fl[k - 1].offset
      BY <3>1, <3>5, <1>1, <1>2, <1>7
    <3>7. \A x \in m .. k : g[x].sec = s
      <4> TAKE x \in m .. k
      <4>1. CASE x = n
        BY <4>1, <2>2, <3>1, <1>3
      <4>2. CASE x # n
        <5>1. x \in 1 .. Len(fl) + 1 /\ x > n /\ g[x] = fl[x - 1]
          BY <4>2, <2>2, <1>1, <1>2, <1>5
        <5>2. x - 1 \in f .. k - 1
          BY <5>1, <3>3, <3>1, <1>2
        <5> QED BY <5>1, <5>2, <3>4
      <4> QED BY <4>1, <4>2
    <3> QED BY <3>1, <3>6, <3>7, <1>1, <1>3
  <2>3. CASE m # n /\ k # n
    <3> DEFINE Old(j) == IF j < n THEN j ELSE j - 1
    <3>1. \A j \in 1 .. Len(fl) + 1 :
            j # n => Old(j) \in 1 .. Len(fl) /\ g[j] = fl[Old(j)]
      BY <1>1, <1>2, <1>5
    <3>2. Old(m) <= Old(k) /\ Old(m) \in 1 .. Len(fl) /\ Old(k) \in 1 .. Len(fl)
          /\ g[m] = fl[Old(m)] /\ g[k] = fl[Old(k)]
      BY <2>3, <3>1, <1>1, <1>2, <1>8
    <3>3. /\ fl[Old(m)].offset <= fl[Old(k)].offset
          /\ \A y \in Old(m) .. Old(k) : fl[y].sec = fl[Old(m)].sec
      <4> HIDE DEF Old
      <4> QED BY <3>2, <1>7, <1>8
    <3>4. ASSUME NEW x \in m .. k PROVE g[x].sec = g[m].sec
      <4>1. x \in 1 .. Len(fl) + 1
        BY <1>1
      <4>2. CASE x # n
        <5>1. Old(x) \in Old(m) .. Old(k)
          BY <2>3, <4>1, <4>2, <1>1, <1>2
        <5>2. g[x] = fl[Old(x)]
          BY <3>1, <4>1, <4>2
        <5> HIDE DEF Old
        <5> QED BY <5>1, <5>2, <3>2, <3>3
      <4>3. CASE x = n
        <5>1. Old(m) = m /\ Old(k) = k - 1 /\ m <= n - 1 /\ n <= k - 1
              /\ n \in 1 .. Len(fl) /\ g[x] = e
          BY <2>3, <4>3, <1>1, <1>2, <1>5
        <5>2. fl[n - 1].sec = g[m].sec /\ fl[n].sec = g[m].sec
          <6>1. n - 1 \in m .. k - 1 /\ n \in m .. k - 1
            BY <5>1, <1>1, <1>2
          <6> HIDE DEF Old
          <6> QED BY <5>1, <6>1, <3>2, <3>3
        <5>3. PICK f : First(f)
          BY <5>1, <1>1, <1>2
        <5>4. f \in 1 .. Len(fl) /\ f <= n
          BY <5>3, <1>1, <1>2
        <5>5. CASE f = n
          BY <5>1, <5>2, <5>3, <5>5, <1>3
        <5>6. CASE f < n
          <6>1. n - 1 \in f .. (n - 1)
            BY <5>4, <5>6, <1>2
          <6> QED BY <5>1, <5>2, <5>3, <6>1, <1>3
        <5> QED BY <5>4, <5>5, <5>6, <1>2
      <4> QED BY <4>2, <4>3
    <3> HIDE DEF Old
    <3> QED BY <3>2, <3>3, <3>4
  <2> QED BY <2>1, <2>2, <2>3
<1>9. Serial(g)
  BY <1>6, <1>8 DEF Serial
<1> QED BY <1>5, <1>9

----------------------------------------------------------------------------
(***************************************************************************)
(* The size of an instruction.                                             *)
(***************************************************************************)

\* up is the sum insn_size takes, frag by frag.
IsSum(up, fix, f, off, end) ==
  up = [x \in nfrags .. end |->
          IF x = nfrags THEN fix[f] - off ELSE up[x - 1] + fix[x]]

\* There is such a sum.
LEMMA SumExists ==
  ASSUME NEW fix, NEW f, NEW off, NEW end \in Nat, nfrags \in Nat
  PROVE  \A e \in nfrags .. end : \E up : IsSum(up, fix, f, off, e)
<1> DEFINE Good == {e \in nfrags .. end : \E up : IsSum(up, fix, f, off, e)}
<1>1. SUFFICES ASSUME nfrags <= end PROVE nfrags .. end \subseteq Good
  OBVIOUS
<1>2. nfrags \in Good
  <2> DEFINE up == [x \in nfrags .. nfrags |-> fix[f] - off]
  <2>1. IsSum(up, fix, f, off, nfrags)
    BY DEF IsSum
  <2> QED BY <1>1, <2>1
<1>3. ASSUME NEW e \in nfrags .. end - 1, e \in Good PROVE e + 1 \in Good
  <2>1. PICK up : IsSum(up, fix, f, off, e)
    BY <1>3
  <2> DEFINE v == [x \in nfrags .. e + 1 |->
                     IF x = e + 1 THEN up[e] + fix[e + 1] ELSE up[x]]
  <2>2. DOMAIN up = nfrags .. e
        /\ \A x \in nfrags .. e :
             up[x] = IF x = nfrags THEN fix[f] - off ELSE up[x - 1] + fix[x]
    BY <2>1 DEF IsSum
  <2>3. ASSUME NEW x \in nfrags .. e + 1
        PROVE  v[x] = IF x = nfrags THEN fix[f] - off ELSE v[x - 1] + fix[x]
    <3>1. CASE x = e + 1
      <4>1. v[x] = up[e] + fix[e + 1] /\ v[x - 1] = up[e] /\ x # nfrags
        BY <3>1
      <4> QED BY <3>1, <4>1
    <3>2. CASE x = nfrags
      <4>1. v[x] = up[x] /\ x \in nfrags .. e
        BY <3>2
      <4> QED BY <3>2, <4>1, <2>2
    <3>3. CASE x # e + 1 /\ x # nfrags
      <4>1. /\ v[x] = up[x] /\ x \in nfrags .. e /\ x - 1 \in nfrags .. e + 1
            /\ x - 1 # e + 1
        BY <3>3
      <4>2. v[x - 1] = up[x - 1]
        BY <4>1
      <4> QED BY <3>3, <4>1, <4>2, <2>2
    <3> QED BY <3>1, <3>2, <3>3
  <2>4. IsSum(v, fix, f, off, e + 1)
    <3>1. v = [x \in nfrags .. e + 1 |-> v[x]]
      OBVIOUS
    <3> HIDE DEF v
    <3> QED BY <3>1, <2>3 DEF IsSum
  <2>5. e + 1 \in nfrags .. end
    BY <1>3
  <2> HIDE DEF v
  <2> QED BY <2>4, <2>5
<1> HIDE DEF Good
<1> QED BY <1>1, <1>2, <1>3, Induct

\* insn_size is the last of them.
LEMMA SizeIs ==
  ASSUME NEW fix, NEW f, NEW off, NEW end \in Nat, nfrags \in Nat,
         nfrags <= end
  PROVE  \E up : /\ IsSum(up, fix, f, off, end)
                 /\ insn_size(fix, f, off, end) = up[end]
<1> DEFINE up == CHOOSE u : IsSum(u, fix, f, off, end)
<1>1. \E u : IsSum(u, fix, f, off, end)
  <2>1. end \in nfrags .. end
    OBVIOUS
  <2> QED BY <2>1, SumExists
<1>2. insn_size(fix, f, off, end) = up[end]
  BY Zenon DEF insn_size, IsSum
<1>3. IsSum(up, fix, f, off, end)
  BY <1>1, Zenon
<1> HIDE DEF up
<1> QED BY <1>2, <1>3

\* Instructions are written in the open frag, in c1 and, for an operand with
\* a fix, c2.  However many frags were opened on the way, insn_size finds
\* every byte: the frags that were opened since were empty.
LEMMA InsnSize ==
  ASSUME FragTypes, FragsOpened, NEW c1 \in FragId, NEW c2 \in FragId,
         NEW refs \in {0, 1}, NEW end \in FragId,
         nfrags <= end, c1 <= end, c2 <= end,
         c1 = cur \/ c1 > nfrags, c2 = cur \/ c2 > nfrags,
         NEW fix,
         \A y \in FragId : fix[y] = (fr_fix[y] + (IF y = c1 THEN 1 ELSE 0))
                                      + (IF y = c2 THEN refs ELSE 0)
  PROVE  insn_size(fix, cur, fr_fix[cur], end) = 1 + refs
<1>1. /\ nfrags \in Nat /\ end \in Nat /\ c1 \in Nat /\ c2 \in Nat
      /\ cur \in FragId /\ cur \in Nat /\ cur <= nfrags
      /\ fr_fix[cur] \in Nat /\ refs \in Nat
      /\ nfrags \in FragId
  <2>1. nfrags \in FragId /\ cur \in FragId /\ cur <= nfrags
        /\ fr_fix \in [FragId -> Nat]
    BY DEF FragTypes, FragsOpened, cur
  <2> QED BY <2>1, FragIds
<1>2. PICK up : /\ IsSum(up, fix, cur, fr_fix[cur], end)
                /\ insn_size(fix, cur, fr_fix[cur], end) = up[end]
  BY <1>1, SizeIs
<1>3. \A x \in nfrags .. end :
        up[x] = IF x = nfrags THEN fix[cur] - fr_fix[cur]
                ELSE up[x - 1] + fix[x]
  BY <1>2 DEF IsSum
<1> DEFINE Hit(x) == (IF c1 <= x THEN 1 ELSE 0) + (IF c2 <= x THEN refs ELSE 0)
           Good == {x \in nfrags .. end : up[x] = Hit(x)}
<1>4. nfrags \in Good
  <2>1. up[nfrags] = fix[cur] - fr_fix[cur] /\ nfrags \in nfrags .. end
    BY <1>1, <1>3
  <2>2. fix[cur] = (fr_fix[cur] + (IF cur = c1 THEN 1 ELSE 0))
                     + (IF cur = c2 THEN refs ELSE 0)
    BY <1>1
  <2>3. (c1 <= nfrags <=> cur = c1) /\ (c2 <= nfrags <=> cur = c2)
    BY <1>1
  <2>4. up[nfrags] = Hit(nfrags)
    BY <2>1, <2>2, <2>3, <1>1
  <2> QED BY <2>1, <2>4
<1>5. ASSUME NEW x \in nfrags .. end - 1, x \in Good PROVE x + 1 \in Good
  <2>1. /\ x \in Nat /\ x >= nfrags /\ x + 1 \in nfrags .. end
        /\ x + 1 # nfrags /\ (x + 1) - 1 = x /\ x + 1 > nfrags
    BY <1>1
  <2>2. x + 1 \in FragId
    BY <2>1, <1>1 DEF FragId
  <2>3. up[x + 1] = up[x] + fix[x + 1]
    BY <2>1, <1>3
  <2>4. fr_fix[x + 1] = 0
    BY <2>1, <2>2 DEF FragsOpened
  <2>5. fix[x + 1] = (IF x + 1 = c1 THEN 1 ELSE 0)
                       + (IF x + 1 = c2 THEN refs ELSE 0)
    BY <2>2, <2>4, <1>1
  <2>6. up[x] = Hit(x)
    BY <1>5
  <2>7. Hit(x + 1) = Hit(x) + fix[x + 1]
    BY <2>1, <2>5, <1>1
  <2> HIDE DEF Hit
  <2> QED BY <2>1, <2>3, <2>6, <2>7
<1>6. end \in Good
  <2>1. nfrags .. end \subseteq Good
    <3> HIDE DEF Good
    <3> QED BY <1>1, <1>4, <1>5, Induct
  <2>2. end \in nfrags .. end
    BY <1>1
  <2> HIDE DEF Good
  <2> QED BY <2>1, <2>2
<1>7. up[end] = Hit(end) /\ Hit(end) = 1 + refs
  BY <1>1, <1>6
<1> QED BY <1>2, <1>7

----------------------------------------------------------------------------
(***************************************************************************)
(* The block of an instruction.                                            *)
(***************************************************************************)

\* The list of blocks after output_insn, in its three steps: a fix was counted
\* early; the block was found or made; size and fixes were added.
Early(n) ==
  IF tail = 0 THEN mbbs ELSE [mbbs EXCEPT ![tail].num_fixs = @ + n]

Ready(f, off, n) ==
  IF HandBlock(f, off)
  THEN Begun(init_basic_block(Begun(Early(n), f, off), 0, 0), f, off)
  ELSE Begun(Early(n), f, off)

Written(bs, size, refs) ==
  IF Len(bs) = 0 THEN bs
  ELSE [bs EXCEPT ![Len(bs)].size = @ + size, ![Len(bs)].num_fixs = @ + refs]

\* What becomes of a block: it begins at off of f, unless it had begun, and
\* grows.
Grown(b, e, f, off, size, n) ==
  /\ e.size = b.size + size /\ e.num_fixs = b.num_fixs + n
  /\ e.is_begin = 0
  /\ b.is_begin = 1 => e.offset = off /\ e.parent_frag = f
  /\ b.is_begin = 0 => e.offset = b.offset /\ e.parent_frag = b.parent_frag

\* Only the last element of a list of blocks changes.
LastOnly(bs, cs) ==
  /\ cs \in Seq(Block) /\ Len(cs) = Len(bs)
  /\ \A j \in 1 .. Len(bs) : j # Len(bs) => cs[j] = bs[j]

LEMMA BegunLast ==
  ASSUME NEW bs \in Seq(Block), NEW f \in FragId, NEW off \in Nat,
         NEW cs, cs = Begun(bs, f, off)
  PROVE  /\ LastOnly(bs, cs)
         /\ Len(bs) > 0 => Grown(bs[Len(bs)], cs[Len(bs)], f, off, 0, 0)
<1> DEFINE n == Len(bs)
           b == bs[n]
           e == [b EXCEPT !.is_begin = 0, !.offset = off, !.parent_frag = f]
<1>1. n \in Nat /\ (n > 0 => b \in Block) /\ DOMAIN bs = 1 .. n
  BY LenProperties
<1>2. ASSUME NEW c \in Block, NEW d,
             d = [c EXCEPT !.is_begin = 0, !.offset = off, !.parent_frag = f]
      PROVE  /\ d \in Block /\ d.size = c.size /\ d.num_fixs = c.num_fixs
             /\ d.is_begin = 0 /\ d.offset = off /\ d.parent_frag = f
  BY <1>2 DEF Block
<1>3. \A c \in Block : /\ c.size \in Nat /\ c.num_fixs \in Nat
                       /\ c.is_begin \in {0, 1}
  BY DEF Block
<1>4. CASE n > 0 /\ b.is_begin = 1
  <2>1. cs = [bs EXCEPT ![n] = e]
    BY <1>1, <1>4 DEF Begun
  <2>2. /\ e \in Block /\ e.size = b.size /\ e.num_fixs = b.num_fixs
        /\ e.is_begin = 0 /\ e.offset = off /\ e.parent_frag = f
    <3>1. b \in Block /\ e = [b EXCEPT !.is_begin = 0, !.offset = off,
                                       !.parent_frag = f]
      BY <1>1, <1>4
    <3> HIDE DEF b, e
    <3> QED BY <3>1, <1>2
  <2>3. Len(bs) = n /\ bs[Len(bs)] = b /\ b.size \in Nat /\ b.num_fixs \in Nat
    BY <1>1, <1>3, <1>4
  <2>4. n \in 1 .. n
    BY <1>1, <1>4
  <2> HIDE DEF b, e
  <2>5. /\ cs \in Seq(Block) /\ Len(cs) = n
        /\ \A j \in 1 .. n : cs[j] = IF j = n THEN e ELSE bs[j]
    BY <2>1, <2>2, Replace
  <2> HIDE DEF n
  <2> QED BY <2>2, <2>3, <2>4, <2>5, <1>4 DEF LastOnly, Grown
<1>5. CASE ~(n > 0 /\ b.is_begin = 1)
  <2>1. cs = bs
    BY <1>5 DEF Begun
  <2>2. n > 0 => b.is_begin = 0 /\ b.size \in Nat /\ b.num_fixs \in Nat
    BY <1>1, <1>3, <1>5
  <2> QED BY <2>1, <2>2 DEF LastOnly, Grown
<1> QED BY <1>4, <1>5

LEMMA EarlyLast ==
  ASSUME BlockTypes, NEW n \in Nat, NEW cs, cs = Early(n)
  PROVE  /\ LastOnly(mbbs, cs)
         /\ tail > 0 => /\ cs[tail].num_fixs = mbbs[tail].num_fixs + n
                        /\ cs[tail].size = mbbs[tail].size
                        /\ cs[tail].is_begin = mbbs[tail].is_begin
                        /\ cs[tail].offset = mbbs[tail].offset
                        /\ cs[tail].parent_frag = mbbs[tail].parent_frag
<1> DEFINE e == [mbbs[tail] EXCEPT !.num_fixs = @ + n]
<1>1. /\ mbbs \in Seq(Block) /\ tail = Len(mbbs) /\ tail \in Nat
      /\ DOMAIN mbbs = 1 .. tail
  BY LenProperties DEF BlockTypes, tail
<1>2. CASE tail = 0
  BY <1>1, <1>2 DEF Early, LastOnly
<1>3. CASE tail > 0
  <2>1. cs = [mbbs EXCEPT ![tail] = e]
    BY <1>1, <1>3 DEF Early
  <2>2. mbbs[tail] \in Block /\ e = [mbbs[tail] EXCEPT !.num_fixs = @ + n]
        /\ tail \in 1 .. Len(mbbs)
    BY <1>1, <1>3
  <2> HIDE DEF e
  <2>3. /\ e \in Block /\ e.num_fixs = mbbs[tail].num_fixs + n
        /\ e.size = mbbs[tail].size
        /\ e.is_begin = mbbs[tail].is_begin /\ e.offset = mbbs[tail].offset
        /\ e.parent_frag = mbbs[tail].parent_frag
    BY <2>2, CountFix
  <2>4. /\ cs \in Seq(Block) /\ Len(cs) = Len(mbbs)
        /\ \A j \in 1 .. Len(mbbs) : cs[j] = IF j = tail THEN e ELSE mbbs[j]
    BY <2>1, <2>3, <1>1, Replace
  <2>5. cs[tail] = e
    BY <2>2, <2>4
  <2> QED BY <2>3, <2>4, <2>5, <1>1 DEF LastOnly
<1> QED BY <1>1, <1>2, <1>3

LEMMA WrittenLast ==
  ASSUME NEW bs \in Seq(Block), NEW size \in Nat, NEW refs \in Nat,
         NEW cs, cs = Written(bs, size, refs)
  PROVE  /\ LastOnly(bs, cs)
         /\ Len(bs) > 0 =>
              /\ cs[Len(bs)].size = bs[Len(bs)].size + size
              /\ cs[Len(bs)].num_fixs = bs[Len(bs)].num_fixs + refs
              /\ cs[Len(bs)].is_begin = bs[Len(bs)].is_begin
              /\ cs[Len(bs)].offset = bs[Len(bs)].offset
              /\ cs[Len(bs)].parent_frag = bs[Len(bs)].parent_frag
<1> DEFINE n == Len(bs)
           b == bs[n]
           e == [b EXCEPT !.size = @ + size, !.num_fixs = @ + refs]
<1>1. n \in Nat /\ (n > 0 => b \in Block) /\ DOMAIN bs = 1 .. n
  BY LenProperties
<1>2. CASE n = 0
  BY <1>1, <1>2 DEF Written, LastOnly
<1>3. CASE n > 0
  <2>1. cs = [bs EXCEPT ![n] = e]
    <3> DEFINE x == b.size + size
               y == b.num_fixs + refs
    <3>1. cs = [bs EXCEPT ![n].size = x, ![n].num_fixs = y]
      BY <1>1, <1>3 DEF Written
    <3>2. e = [b EXCEPT !.size = x, !.num_fixs = y]
      OBVIOUS
    <3> HIDE DEF x, y, e
    <3> QED BY <3>1, <3>2, <1>1, <1>3
  <2>2. ASSUME NEW c \in Block, NEW d,
               d = [c EXCEPT !.size = @ + size, !.num_fixs = @ + refs]
        PROVE  /\ d \in Block /\ d.size = c.size + size
               /\ d.num_fixs = c.num_fixs + refs
               /\ d.is_begin = c.is_begin /\ d.offset = c.offset
               /\ d.parent_frag = c.parent_frag
    <3> DEFINE x == c.size + size
               y == c.num_fixs + refs
    <3>1. x \in Nat /\ y \in Nat
      BY DEF Block
    <3>2. d = [c EXCEPT !.size = x, !.num_fixs = y]
      BY <2>2
    <3> HIDE DEF x, y
    <3>3. d \in Block /\ d.size = x /\ d.num_fixs = y
          /\ d.is_begin = c.is_begin /\ d.offset = c.offset
          /\ d.parent_frag = c.parent_frag
      BY <3>1, <3>2 DEF Block
    <3> QED BY <3>3 DEF x, y
  <2>3. b \in Block /\ n \in 1 .. n
        /\ e = [b EXCEPT !.size = @ + size, !.num_fixs = @ + refs]
    BY <1>1, <1>3
  <2> HIDE DEF b, e
  <2>4. /\ e \in Block /\ e.size = b.size + size
        /\ e.num_fixs = b.num_fixs + refs
        /\ e.is_begin = b.is_begin /\ e.offset = b.offset
        /\ e.parent_frag = b.parent_frag
    BY <2>2, <2>3
  <2>5. /\ cs \in Seq(Block) /\ Len(cs) = n
        /\ \A j \in 1 .. n : cs[j] = IF j = n THEN e ELSE bs[j]
    BY <2>1, <2>4, Replace
  <2>6. cs[n] = e /\ bs[n] = b
    BY <2>3, <2>5 DEF b
  <2> QED BY <2>4, <2>5, <2>6 DEF LastOnly
<1> QED BY <1>1, <1>2, <1>3

\* The three steps together: the block that was last grows, or begins and
\* counts the early fix only, and in a hand-written file a new one may follow.
IsWritten(cs, bs, f, off, size, refs, early) ==
  /\ f \in FragId /\ off \in Nat /\ size \in Nat /\ refs \in Nat
  /\ early \in Nat
  /\ bs = Ready(f, off, early) /\ cs = Written(bs, size, refs)

LEMMA BlocksGrown ==
  ASSUME BlockTypes, NEW cs, NEW bs, NEW f, NEW off, NEW size, NEW refs,
         NEW early, IsWritten(cs, bs, f, off, size, refs, early)
  PROVE  /\ cs \in Seq(Block) /\ Len(cs) = Len(bs)
         /\ Len(bs) = IF HandBlock(f, off) THEN tail + 1 ELSE tail
         /\ \A j \in 1 .. tail : j # tail => cs[j] = mbbs[j]
         /\ (tail > 0 /\ HandBlock(f, off)) =>
              Grown(mbbs[tail], cs[tail], f, off, 0, early)
         /\ (tail > 0 /\ ~HandBlock(f, off)) =>
              Grown(mbbs[tail], cs[tail], f, off, size, early + refs)
         /\ HandBlock(f, off) =>
              /\ cs[tail + 1].size = size /\ cs[tail + 1].num_fixs = refs
              /\ cs[tail + 1].is_begin = 0
              /\ cs[tail + 1].offset = off /\ cs[tail + 1].parent_frag = f
<1> DEFINE b0 == Early(early)
           b1 == Begun(b0, f, off)
           b2 == init_basic_block(b1, 0, 0)
           b3 == Begun(b2, f, off)
<1> /\ f \in FragId /\ off \in Nat /\ size \in Nat /\ refs \in Nat
    /\ early \in Nat /\ cs = Written(bs, size, refs)
  BY DEF IsWritten
<1>1. mbbs \in Seq(Block) /\ tail = Len(mbbs) /\ tail \in Nat
  BY LenProperties DEF BlockTypes, tail
<1>2. bs = IF HandBlock(f, off) THEN b3 ELSE b1
  BY DEF IsWritten, Ready
<1>3. /\ LastOnly(mbbs, b0)
      /\ tail > 0 => /\ b0[tail].num_fixs = mbbs[tail].num_fixs + early
                     /\ b0[tail].size = mbbs[tail].size
                     /\ b0[tail].is_begin = mbbs[tail].is_begin
                     /\ b0[tail].offset = mbbs[tail].offset
                     /\ b0[tail].parent_frag = mbbs[tail].parent_frag
  BY EarlyLast
<1> HIDE DEF b0
<1>4. b0 \in Seq(Block) /\ Len(b0) = tail
  BY <1>1, <1>3 DEF LastOnly
<1>5. /\ LastOnly(b0, b1)
      /\ tail > 0 => Grown(b0[tail], b1[tail], f, off, 0, 0)
  BY <1>4, BegunLast
<1> HIDE DEF b1
<1>6. /\ b1 \in Seq(Block) /\ Len(b1) = tail
      /\ \A j \in 1 .. tail : j # tail => b1[j] = mbbs[j]
  BY <1>1, <1>3, <1>4, <1>5 DEF LastOnly
<1>7. \A j \in 1 .. tail : mbbs[j].size \in Nat /\ mbbs[j].num_fixs \in Nat
  <2>1. \A j \in 1 .. tail : mbbs[j] \in Block
    BY <1>1
  <2> QED BY <2>1 DEF Block
<1>8. tail > 0 => Grown(mbbs[tail], b1[tail], f, off, 0, early)
  <2>1. SUFFICES ASSUME tail > 0
                 PROVE  Grown(mbbs[tail], b1[tail], f, off, 0, early)
    OBVIOUS
  <2>2. mbbs[tail].size \in Nat /\ mbbs[tail].num_fixs \in Nat
    BY <2>1, <1>1, <1>7
  <2> QED BY <2>1, <2>2, <1>3, <1>5 DEF Grown
<1>9. CASE ~HandBlock(f, off)
  <2>1. bs = b1
    BY <1>2, <1>9
  <2>2. /\ LastOnly(b1, cs)
        /\ tail > 0 => /\ cs[tail].size = b1[tail].size + size
                       /\ cs[tail].num_fixs = b1[tail].num_fixs + refs
                       /\ cs[tail].is_begin = b1[tail].is_begin
                       /\ cs[tail].offset = b1[tail].offset
                       /\ cs[tail].parent_frag = b1[tail].parent_frag
    BY <2>1, <1>6, WrittenLast
  <2>3. tail > 0 => Grown(mbbs[tail], cs[tail], f, off, size, early + refs)
    <3>1. SUFFICES ASSUME tail > 0
                   PROVE  Grown(mbbs[tail], cs[tail], f, off, size, early + refs)
      OBVIOUS
    <3>2. mbbs[tail].size \in Nat /\ mbbs[tail].num_fixs \in Nat
      BY <3>1, <1>1, <1>7
    <3>3. /\ cs[tail].size = mbbs[tail].size + size
          /\ cs[tail].num_fixs = mbbs[tail].num_fixs + (early + refs)
      <4>1. /\ b1[tail].size = mbbs[tail].size + 0
            /\ b1[tail].num_fixs = mbbs[tail].num_fixs + early
        BY <3>1, <1>8 DEF Grown
      <4>2. /\ cs[tail].size = b1[tail].size + size
            /\ cs[tail].num_fixs = b1[tail].num_fixs + refs
        BY <3>1, <2>2
      <4> QED BY <4>1, <4>2, <3>2
    <3>4. /\ cs[tail].is_begin = b1[tail].is_begin
          /\ cs[tail].offset = b1[tail].offset
          /\ cs[tail].parent_frag = b1[tail].parent_frag
      BY <3>1, <2>2
    <3>5. Grown(mbbs[tail], b1[tail], f, off, 0, early)
      BY <3>1, <1>8
    <3> QED BY <3>3, <3>4, <3>5, Zenon DEF Grown
  <2>4. /\ cs \in Seq(Block) /\ Len(cs) = tail
        /\ \A j \in 1 .. tail : j # tail => cs[j] = mbbs[j]
    BY <2>2, <1>1, <1>6 DEF LastOnly
  <2> QED BY <2>1, <2>3, <2>4, <1>6, <1>9
<1>10. CASE HandBlock(f, off)
  <2>1. bs = b3
    BY <1>2, <1>10
  <2>2. /\ b2 \in Seq(Block) /\ Len(b2) = tail + 1
        /\ \A j \in 1 .. tail : b2[j] = b1[j]
        /\ b2[tail + 1].size = 0 /\ b2[tail + 1].num_fixs = 0
        /\ b2[tail + 1].is_begin = 1
    <3>1. 0 \in Nat /\ 0 \in {0, 1}
      OBVIOUS
    <3>2. b2 = init_basic_block(b1, 0, 0)
      OBVIOUS
    <3> HIDE DEF b2
    <3>3. /\ b2 \in Seq(Block) /\ Len(b2) = Len(b1) + 1
          /\ \A j \in 1 .. Len(b1) : b2[j] = b1[j]
          /\ b2[Len(b2)].size = 0 /\ b2[Len(b2)].num_fixs = 0
          /\ b2[Len(b2)].is_begin = 1
      BY <3>1, <3>2, <1>6, NewBlock
    <3> QED BY <3>3, <1>6
  <2> HIDE DEF b2
  <2>3. /\ LastOnly(b2, b3)
        /\ Grown(b2[tail + 1], b3[tail + 1], f, off, 0, 0)
    <3>1. tail + 1 > 0
      BY <1>1
    <3> QED BY <3>1, <2>2, BegunLast
  <2> HIDE DEF b3
  <2>4. /\ b3 \in Seq(Block) /\ Len(b3) = tail + 1
        /\ \A j \in 1 .. tail : b3[j] = b1[j]
        /\ b3[tail + 1].size = 0 /\ b3[tail + 1].num_fixs = 0
        /\ b3[tail + 1].is_begin = 0 /\ b3[tail + 1].offset = off
        /\ b3[tail + 1].parent_frag = f
    <3>1. \A j \in 1 .. tail : j \in 1 .. tail + 1 /\ j # tail + 1
      BY <1>1
    <3> QED BY <3>1, <2>2, <2>3 DEF LastOnly, Grown
  <2>5. /\ LastOnly(b3, cs)
        /\ cs[tail + 1].size = b3[tail + 1].size + size
        /\ cs[tail + 1].num_fixs = b3[tail + 1].num_fixs + refs
        /\ cs[tail + 1].is_begin = b3[tail + 1].is_begin
        /\ cs[tail + 1].offset = b3[tail + 1].offset
        /\ cs[tail + 1].parent_frag = b3[tail + 1].parent_frag
    <3>1. tail + 1 > 0
      BY <1>1
    <3> QED BY <3>1, <2>1, <2>4, WrittenLast
  <2>6. /\ cs \in Seq(Block) /\ Len(cs) = tail + 1
        /\ \A j \in 1 .. tail : cs[j] = b1[j]
    <3>1. \A j \in 1 .. tail : j \in 1 .. tail + 1 /\ j # tail + 1
      BY <1>1
    <3> QED BY <3>1, <2>4, <2>5 DEF LastOnly
  <2>7. tail > 0 => Grown(mbbs[tail], cs[tail], f, off, 0, early)
    <3>1. tail > 0 => tail \in 1 .. tail
      BY <1>1
    <3> QED BY <3>1, <2>6, <1>8
  <2>8. cs[tail + 1].size = size /\ cs[tail + 1].num_fixs = refs
        /\ cs[tail + 1].is_begin = 0
        /\ cs[tail + 1].offset = off /\ cs[tail + 1].parent_frag = f
    BY <2>4, <2>5
  <2> QED BY <2>1, <2>4, <2>6, <2>7, <2>8, <1>6, <1>10
<1> QED BY <1>9, <1>10

----------------------------------------------------------------------------
(***************************************************************************)
(* The history of an instruction.                                          *)
(***************************************************************************)

Wrote == [bytes: Nat, fixes: Nat, start: Place, end: Place]

\* What becomes of the history r of a block when w is written.
IsJoined(r, e, w) ==
  /\ e.bytes = r.bytes + w.bytes /\ e.fixes = r.fixes + w.fixes
  /\ e.start = IF r.bytes = 0 THEN w.start ELSE r.start
  /\ e.end = w.end
  /\ e.gap <=> (r.gap \/ (r.bytes > 0 /\ r.end # w.start))
  /\ e.stray <=> r.stray

Seen(t, w) ==
  IF t = 0 THEN real
  ELSE Joined(IF Len(real) < t THEN Append(real, Unused) ELSE real, t, w)

LEMMA JoinedIs ==
  ASSUME NEW r \in Real, NEW w \in Wrote, NEW e,
         e = [bytes |-> r.bytes + w.bytes,
              fixes |-> r.fixes + w.fixes,
              start |-> IF r.bytes = 0 THEN w.start ELSE r.start,
              end   |-> w.end,
              gap   |-> r.gap \/ (r.bytes > 0 /\ r.end # w.start),
              stray |-> r.stray]
  PROVE  e \in Real /\ IsJoined(r, e, w)
<1>1. /\ r.bytes \in Nat /\ r.fixes \in Nat /\ r.start \in Place
      /\ r.end \in Place /\ r.gap \in BOOLEAN /\ r.stray \in BOOLEAN
  BY DEF Real
<1>2. /\ w.bytes \in Nat /\ w.fixes \in Nat /\ w.start \in Place
      /\ w.end \in Place
  BY DEF Wrote
<1> DEFINE gap == r.gap \/ (r.bytes > 0 /\ r.end # w.start)
           start == IF r.bytes = 0 THEN w.start ELSE r.start
           bytes == r.bytes + w.bytes
           fixes == r.fixes + w.fixes
<1>3. gap \in BOOLEAN /\ start \in Place /\ bytes \in Nat /\ fixes \in Nat
  BY <1>1, <1>2
<1>4. e = [bytes |-> bytes, fixes |-> fixes, start |-> start, end |-> w.end,
           gap |-> gap, stray |-> r.stray]
  BY Zenon
<1> HIDE DEF gap, start, bytes, fixes
<1>5. e \in Real
  BY <1>1, <1>2, <1>3, <1>4 DEF Real
<1>6. e.bytes = bytes /\ e.fixes = fixes /\ e.start = start /\ e.end = w.end
      /\ e.gap = gap /\ e.stray = r.stray
  BY <1>4
<1> QED BY <1>5, <1>6 DEF IsJoined, gap, start, bytes, fixes

LEMMA SeenIs ==
  ASSUME NEW t \in Nat, NEW w \in Wrote, real \in Seq(Real),
         t = Len(real) \/ t = Len(real) + 1, NEW rs, rs = Seen(t, w)
  PROVE  /\ rs \in Seq(Real) /\ Len(rs) = t
         /\ \A j \in 1 .. t : j # t => rs[j] = real[j]
         /\ t > 0 => IsJoined(IF t = Len(real) THEN real[t] ELSE Unused,
                              rs[t], w)
<1> DEFINE n == Len(real)
           old == IF n < t THEN Append(real, Unused) ELSE real
           r == IF t = n THEN real[t] ELSE Unused
           e == [bytes |-> r.bytes + w.bytes,
                 fixes |-> r.fixes + w.fixes,
                 start |-> IF r.bytes = 0 THEN w.start ELSE r.start,
                 end   |-> w.end,
                 gap   |-> r.gap \/ (r.bytes > 0 /\ r.end # w.start),
                 stray |-> r.stray]
<1>1. n \in Nat /\ Unused \in Real
  BY LenProperties DEF Unused, Real, NoPlace, Place
<1>2. CASE t = 0
  BY <1>1, <1>2 DEF Seen
<1>3. CASE t > 0
  <2>1. /\ old \in Seq(Real) /\ Len(old) = t
        /\ \A j \in 1 .. t : j # t => old[j] = real[j]
        /\ old[t] = r
    <3>1. CASE t = n
      BY <3>1, <1>1
    <3>2. CASE t = n + 1
      <4>1. old = Append(real, Unused) /\ r = Unused
        BY <3>2, <1>1
      <4> HIDE DEF old, r
      <4>2. /\ Append(real, Unused) \in Seq(Real)
            /\ Len(Append(real, Unused)) = n + 1
            /\ \A j \in 1 .. n : Append(real, Unused)[j] = real[j]
            /\ Append(real, Unused)[n + 1] = Unused
        BY <1>1, AppendProperties
      <4>3. \A j \in 1 .. n + 1 : j # n + 1 => j \in 1 .. n
        BY <1>1
      <4> QED BY <3>2, <4>1, <4>2, <4>3
    <3> QED BY <3>1, <3>2
  <2>2. r \in Real
    <3>1. t = n => t \in 1 .. n
      BY <1>1, <1>3
    <3> QED BY <3>1, <1>1
  <2>3. rs = [old EXCEPT ![t] = e]
    <3>1. rs = Joined(old, t, w)
      BY <1>3 DEF Seen
    <3> HIDE DEF old, r
    <3> QED BY <2>1, <3>1, Zenon DEF Joined
  <2>4. e \in Real /\ IsJoined(r, e, w)
    <3>1. e = [bytes |-> r.bytes + w.bytes,
               fixes |-> r.fixes + w.fixes,
               start |-> IF r.bytes = 0 THEN w.start ELSE r.start,
               end   |-> w.end,
               gap   |-> r.gap \/ (r.bytes > 0 /\ r.end # w.start),
               stray |-> r.stray]
      BY Zenon
    <3> HIDE DEF r, e
    <3> QED BY <2>2, <3>1, JoinedIs, Zenon
  <2> HIDE DEF e, old
  <2>5. /\ rs \in Seq(Real) /\ Len(rs) = t
        /\ \A j \in 1 .. t : rs[j] = IF j = t THEN e ELSE old[j]
    BY <2>1, <2>3, <2>4, Replace
  <2>6. rs[t] = e
    BY <2>5, <1>3
  <2> HIDE DEF r
  <2>7. IsJoined(r, rs[t], w)
    BY <2>4, <2>6
  <2> QED BY <2>1, <2>5, <2>7 DEF r
<1> QED BY <1>2, <1>3

\* Of the history of a block only the stray mark changes.
LikeReal(r, e) ==
  /\ e.bytes = r.bytes /\ e.fixes = r.fixes /\ e.start = r.start
  /\ e.end = r.end /\ e.gap = r.gap

LEMMA StrayedIs ==
  ASSUME NEW rs \in Seq(Real), NEW t, NEW us, us = Strayed(rs, t)
  PROVE  /\ us \in Seq(Real) /\ Len(us) = Len(rs)
         /\ \A j \in 1 .. Len(rs) : LikeReal(rs[j], us[j])
         /\ \A j \in 1 .. Len(rs) : j \in {tail, t} => us[j].stray
         /\ \A j \in 1 .. Len(rs) : j \notin {tail, t} => us[j] = rs[j]
<1>1. Len(rs) \in Nat /\ DOMAIN rs = 1 .. Len(rs)
      /\ \A j \in 1 .. Len(rs) : rs[j] \in Real
  BY LenProperties
<1>2. ASSUME NEW r \in Real, NEW e, e = [r EXCEPT !.stray = TRUE]
      PROVE  e \in Real /\ LikeReal(r, e) /\ e.stray
  BY <1>2 DEF Real, LikeReal
<1>3. us = [b \in 1 .. Len(rs) |->
              IF b \in {tail, t} THEN [rs[b] EXCEPT !.stray = TRUE] ELSE rs[b]]
  BY <1>1 DEF Strayed
<1>4. ASSUME NEW j \in 1 .. Len(rs)
      PROVE  /\ us[j] \in Real /\ LikeReal(rs[j], us[j])
             /\ j \in {tail, t} => us[j].stray
             /\ j \notin {tail, t} => us[j] = rs[j]
  <2>1. CASE j \in {tail, t}
    <3>1. us[j] = [rs[j] EXCEPT !.stray = TRUE] /\ rs[j] \in Real
      BY <2>1, <1>1, <1>3
    <3> QED BY <2>1, <3>1, <1>2
  <2>2. CASE j \notin {tail, t}
    <3>1. us[j] = rs[j]
      BY <2>2, <1>3
    <3> QED BY <2>2, <3>1, <1>1 DEF LikeReal
  <2> QED BY <2>1, <2>2
<1>5. us \in [1 .. Len(rs) -> Real]
  BY <1>3, <1>4
<1>6. us \in Seq(Real) /\ Len(us) = Len(rs)
  <2>1. DOMAIN us = 1 .. Len(rs)
    BY <1>5
  <2>2. us \in Seq(Real)
    BY <1>1, <1>5
  <2> QED BY <2>1, <2>2, <1>1, LenProperties
<1> QED BY <1>4, <1>6

----------------------------------------------------------------------------
(***************************************************************************)
(* An instruction keeps the properties of blocks.                          *)
(***************************************************************************)

\* What output_insn does to the blocks, with the bytes w it wrote at off of
\* the open frag, the last of which are in the open frag when no other was
\* opened.
Assembled(off, size, refs, early, t, w) ==
  /\ off \in Nat /\ size \in Nat /\ size > 0
  /\ refs \in {0, 1} /\ early \in {0, 1}
  /\ t = Len(Ready(cur, off, early))
  /\ mbbs' = Written(Ready(cur, off, early), size, refs)
  /\ w \in Wrote /\ w.bytes = size /\ w.fixes = refs + early
  /\ w.start = [frag |-> cur, off |-> off]
  /\ (\E s \in Secs : frag_now'[s] = cur) =>
       w.end = [frag |-> cur, off |-> off + size]
  /\ real' = IF early = 1 /\ tail # t THEN Strayed(Seen(t, w), t)
             ELSE Seen(t, w)
  /\ bbinfo_handwritten_file' = bbinfo_handwritten_file
  /\ bbinfo_last_frag' = IF HandBlock(cur, off) THEN cur ELSE bbinfo_last_frag
  /\ bbinfo_handwritten_file => /\ bbinfo_last_inst_offset' = off
                                /\ bbinfo_last_inst_size' = size
  /\ jumpOf' \in [FragId -> Nat]
  /\ \A x \in FragId : last_bb'[x] \in {last_bb[x], t}
  /\ \A x \in branches' : jumpOf'[x] = last_bb'[x]

\* What it does to the histories.
LEMMA HistoryIs ==
  ASSUME BlockTypes, Len(real) = tail, NEW off, NEW size, NEW refs,
         NEW early, NEW t \in Nat, NEW w,
         Assembled(off, size, refs, early, t, w), t = tail \/ t = tail + 1
  PROVE  /\ real' \in Seq(Real) /\ Len(real') = t
         /\ \A j \in 1 .. t : (j # t /\ j # tail) => real'[j] = real[j]
         /\ (t # tail /\ tail > 0) =>
              /\ LikeReal(real[tail], real'[tail])
              /\ early = 1 => real'[tail].stray
              /\ early = 0 => real'[tail] = real[tail]
         /\ t > 0 => \E e : /\ IsJoined(IF t = tail THEN real[t] ELSE Unused, e, w)
                            /\ LikeReal(e, real'[t])
                            /\ (early = 1 /\ tail # t) => real'[t].stray
                            /\ ~(early = 1 /\ tail # t) => real'[t] = e
<1>1. /\ real \in Seq(Real) /\ w \in Wrote /\ tail \in Nat
      /\ early \in {0, 1} /\ tail = Len(real)
  BY LenProperties DEF BlockTypes, Assembled
<1> DEFINE rs == Seen(t, w)
           r == IF t = tail THEN real[t] ELSE Unused
<1>2. /\ rs \in Seq(Real) /\ Len(rs) = t
      /\ \A j \in 1 .. t : j # t => rs[j] = real[j]
      /\ t > 0 => IsJoined(r, rs[t], w)
  BY <1>1, SeenIs
<1>3. real' = IF early = 1 /\ tail # t THEN Strayed(rs, t) ELSE rs
  BY DEF Assembled
<1> HIDE DEF rs, r
<1>4. \A x : LikeReal(x, x)
  BY DEF LikeReal
<1>5. (t # tail /\ tail > 0) => tail \in 1 .. t
  BY <1>1
<1>6. t > 0 => t \in 1 .. t
  OBVIOUS
<1>7. CASE early = 1 /\ tail # t
  <2>1. /\ real' \in Seq(Real) /\ Len(real') = t
        /\ \A j \in 1 .. t : LikeReal(rs[j], real'[j])
        /\ \A j \in 1 .. t : j \in {tail, t} => real'[j].stray
        /\ \A j \in 1 .. t : j \notin {tail, t} => real'[j] = rs[j]
    BY <1>2, <1>3, <1>7, StrayedIs
  <2>2. \A j \in 1 .. t : (j # t /\ j # tail) => real'[j] = real[j]
    BY <2>1, <1>2
  <2>3. (t # tail /\ tail > 0) =>
          LikeReal(real[tail], real'[tail]) /\ real'[tail].stray
    BY <2>1, <1>2, <1>5
  <2>4. t > 0 => IsJoined(r, rs[t], w) /\ LikeReal(rs[t], real'[t])
                 /\ real'[t].stray
    BY <2>1, <1>2, <1>6
  <2> QED BY <2>1, <2>2, <2>3, <2>4, <1>7 DEF r
<1>8. CASE ~(early = 1 /\ tail # t)
  <2>1. real' = rs
    BY <1>3, <1>8
  <2>2. (t # tail /\ tail > 0) => early = 0 /\ real'[tail] = real[tail]
    BY <2>1, <1>1, <1>2, <1>5, <1>8
  <2>3. t > 0 => IsJoined(r, rs[t], w) /\ LikeReal(rs[t], real'[t])
                 /\ real'[t] = rs[t]
    BY <2>1, <1>2, <1>4
  <2> QED BY <2>1, <2>2, <2>3, <1>2, <1>4, <1>8 DEF r
<1> QED BY <1>7, <1>8

\* The properties of one block.
BlockOK(b, r) ==
  /\ b.size = r.bytes
  /\ b.size > 0 => r.start = [frag |-> b.parent_frag, off |-> b.offset]
  /\ ~r.stray => b.num_fixs = r.fixes

\* A block with history r, and is_begin as it should be, becomes c with e.
Grows(b, c, r, e, w, f, off) ==
  /\ b.size \in Nat /\ b.num_fixs \in Nat /\ b.is_begin \in {0, 1}
  /\ BlockOK(b, r) /\ (b.is_begin = 1 <=> b.size = 0)
  /\ w.bytes \in Nat /\ w.bytes > 0 /\ w.fixes \in Nat
  /\ w.start = [frag |-> f, off |-> off]
  /\ Grown(b, c, f, off, w.bytes, w.fixes) /\ IsJoined(r, e, w)

\* The block that grows keeps its properties.
LEMMA GrownOK ==
  ASSUME NEW b, NEW c, NEW r, NEW e, NEW w, NEW f, NEW off,
         Grows(b, c, r, e, w, f, off)
  PROVE  BlockOK(c, e) /\ c.size > 0 /\ c.is_begin = 0
<1> DEFINE size == w.bytes
           n == w.fixes
<1>0. /\ b.size \in Nat /\ b.num_fixs \in Nat /\ b.is_begin \in {0, 1}
      /\ BlockOK(b, r) /\ (b.is_begin = 1 <=> b.size = 0)
      /\ size \in Nat /\ size > 0 /\ n \in Nat
      /\ w.start = [frag |-> f, off |-> off]
      /\ Grown(b, c, f, off, size, n) /\ IsJoined(r, e, w)
      /\ w.bytes = size /\ w.fixes = n
  BY DEF Grows
<1> HIDE DEF size, n
<1>1. c.size = b.size + size /\ e.bytes = r.bytes + size /\ b.size = r.bytes
      /\ c.is_begin = 0
  BY <1>0 DEF Grown, IsJoined, BlockOK
<1>2. c.size = e.bytes /\ c.size > 0
  BY <1>0, <1>1
<1>3. e.start = [frag |-> c.parent_frag, off |-> c.offset]
  <2>1. CASE b.size = 0
    <3>1. b.is_begin = 1 /\ c.offset = off /\ c.parent_frag = f
      BY <2>1, <1>0 DEF Grown
    <3>2. e.start = w.start
      BY <2>1, <1>0, <1>1 DEF IsJoined
    <3> QED BY <3>1, <3>2, <1>0
  <2>2. CASE b.size # 0
    <3>1. b.is_begin = 0 /\ c.offset = b.offset /\ c.parent_frag = b.parent_frag
      BY <2>2, <1>0 DEF Grown
    <3>2. e.start = r.start
      BY <2>2, <1>0, <1>1 DEF IsJoined
    <3>3. r.start = [frag |-> b.parent_frag, off |-> b.offset]
      <4>1. b.size > 0
        BY <2>2, <1>0
      <4> QED BY <4>1, <1>0 DEF BlockOK
    <3> QED BY <3>1, <3>2, <3>3
  <2> QED BY <2>1, <2>2
<1>4. ~e.stray => c.num_fixs = e.fixes
  <2>1. SUFFICES ASSUME ~e.stray PROVE c.num_fixs = e.fixes
    OBVIOUS
  <2>2. b.num_fixs = r.fixes
    BY <2>1, <1>0 DEF IsJoined, BlockOK
  <2> QED BY <2>2, <1>0 DEF Grown, IsJoined
<1> QED BY <1>1, <1>2, <1>3, <1>4 DEF BlockOK

\* All blocks have them.
LEMMA BlocksOK ==
  BlockInv => \A j \in DOMAIN mbbs : BlockOK(mbbs[j], real[j])
BY DEF BlockInv, SizesRead, StartsRecorded, FixesRead, BlockOK

LEMMA BlocksOKAfter ==
  (\A j \in DOMAIN mbbs' : BlockOK(mbbs'[j], real'[j])) =>
    SizesRead' /\ StartsRecorded' /\ FixesRead'
BY DEF SizesRead, StartsRecorded, FixesRead, BlockOK

\* The block is the one that was last: it grows.
LEMMA InsnInLast ==
  ASSUME FragTypes, BlockTypes, FragsOpened, BlockInv, NEW off, NEW size,
         NEW refs, NEW early, NEW t, NEW w,
         Assembled(off, size, refs, early, t, w), ~HandBlock(cur, off)
  PROVE  BlockInv' /\ mbbs' \in Seq(Block) /\ real' \in Seq(Real)
<1>1. /\ off \in Nat /\ size \in Nat /\ size > 0 /\ refs \in Nat
      /\ early \in Nat /\ w \in Wrote /\ w.bytes = size
      /\ w.fixes = early + refs /\ w.start = [frag |-> cur, off |-> off]
      /\ t = Len(Ready(cur, off, early))
      /\ mbbs' = Written(Ready(cur, off, early), size, refs)
      /\ bbinfo_handwritten_file' = bbinfo_handwritten_file
      /\ bbinfo_last_frag' = bbinfo_last_frag
      /\ bbinfo_handwritten_file => /\ bbinfo_last_inst_offset' = off
                                    /\ bbinfo_last_inst_size' = size
  BY DEF Assembled
<1>2. /\ cur \in FragId /\ mbbs \in Seq(Block) /\ tail = Len(mbbs)
      /\ tail \in Nat /\ DOMAIN mbbs = 1 .. tail /\ Len(real) = tail
  BY LenProperties DEF FragTypes, cur, BlockTypes, tail, BlockInv, BlocksNamed
<1>3. /\ mbbs' \in Seq(Block) /\ Len(mbbs') = tail /\ t = tail
      /\ \A j \in 1 .. tail : j # tail => mbbs'[j] = mbbs[j]
      /\ tail > 0 => Grown(mbbs[tail], mbbs'[tail], cur, off, size, early + refs)
  <2> DEFINE bs == Ready(cur, off, early)
  <2>1. bs = Ready(cur, off, early) /\ mbbs' = Written(bs, size, refs)
        /\ t = Len(bs)
    BY <1>1
  <2> HIDE DEF bs
  <2>2. /\ mbbs' \in Seq(Block) /\ Len(mbbs') = Len(bs) /\ Len(bs) = tail
        /\ \A j \in 1 .. tail : j # tail => mbbs'[j] = mbbs[j]
        /\ tail > 0 =>
             Grown(mbbs[tail], mbbs'[tail], cur, off, size, early + refs)
    <3>1. IsWritten(mbbs', bs, cur, off, size, refs, early)
      BY <2>1, <1>1, <1>2 DEF IsWritten
    <3>2. /\ mbbs' \in Seq(Block) /\ Len(mbbs') = Len(bs)
          /\ Len(bs) = IF HandBlock(cur, off) THEN tail + 1 ELSE tail
          /\ \A j \in 1 .. tail : j # tail => mbbs'[j] = mbbs[j]
          /\ (tail > 0 /\ ~HandBlock(cur, off)) =>
               Grown(mbbs[tail], mbbs'[tail], cur, off, size, early + refs)
      BY <3>1, BlocksGrown
    <3> QED BY <3>2
  <2> QED BY <2>1, <2>2
<1>4. /\ real' \in Seq(Real) /\ Len(real') = tail
      /\ \A j \in 1 .. tail : j # tail => real'[j] = real[j]
      /\ tail > 0 => IsJoined(real[tail], real'[tail], w)
  <2>1. t \in Nat
    BY <1>2, <1>3
  <2> QED BY <2>1, <1>2, <1>3, HistoryIs
<1>5. tail' = tail /\ DOMAIN mbbs' = 1 .. tail
  BY <1>2, <1>3 DEF tail
<1>6. \A j \in 1 .. tail : mbbs[j].size \in Nat /\ mbbs[j].num_fixs \in Nat
                           /\ mbbs[j].is_begin \in {0, 1}
  <2>1. \A j \in 1 .. tail : mbbs[j] \in Block
    BY <1>2
  <2> QED BY <2>1 DEF Block
<1>7. tail > 0 => /\ BlockOK(mbbs'[tail], real'[tail])
                  /\ mbbs'[tail].size > 0 /\ mbbs'[tail].is_begin = 0
  <2>1. SUFFICES ASSUME tail > 0
                 PROVE  /\ BlockOK(mbbs'[tail], real'[tail])
                        /\ mbbs'[tail].size > 0 /\ mbbs'[tail].is_begin = 0
    OBVIOUS
  <2>2. /\ tail \in 1 .. tail /\ mbbs[tail].size \in Nat
        /\ mbbs[tail].num_fixs \in Nat /\ mbbs[tail].is_begin \in {0, 1}
    BY <2>1, <1>2, <1>6
  <2>3. BlockOK(mbbs[tail], real[tail])
    BY <2>2, <1>2, BlocksOK
  <2>4. mbbs[tail].is_begin = 1 <=> mbbs[tail].size = 0
    BY <2>1 DEF BlockInv, TailBegun
  <2>5. Grown(mbbs[tail], mbbs'[tail], cur, off, size, early + refs)
    BY <2>1, <1>3
  <2>6. IsJoined(real[tail], real'[tail], w)
    BY <2>1, <1>4
  <2>7. early + refs \in Nat
    BY <1>1
  <2>8. Grows(mbbs[tail], mbbs'[tail], real[tail], real'[tail], w, cur, off)
    BY <2>2, <2>3, <2>4, <2>5, <2>6, <2>7, <1>1 DEF Grows
  <2> QED BY <2>8, GrownOK
<1>8. \A j \in DOMAIN mbbs' : BlockOK(mbbs'[j], real'[j])
  <2> SUFFICES ASSUME NEW j \in 1 .. tail PROVE BlockOK(mbbs'[j], real'[j])
    BY <1>5
  <2>1. CASE j = tail
    <3>1. tail > 0
      BY <2>1, <1>2
    <3> QED BY <2>1, <3>1, <1>7
  <2>2. CASE j # tail
    BY <2>2, <1>2, <1>3, <1>4, BlocksOK
  <2> QED BY <2>1, <2>2
<1>9. SizesRead' /\ StartsRecorded' /\ FixesRead'
  BY <1>8, BlocksOKAfter
<1>10. TailBegun'
  BY <1>5, <1>7 DEF TailBegun
\* A hand-written file: the instruction continues the block.
<1>11. bbinfo_handwritten_file =>
         /\ tail > 0 /\ bbinfo_last_frag = cur
         /\ bbinfo_last_inst_offset + bbinfo_last_inst_size = off
  BY <1>2 DEF HandBlock, Continues
<1>12. (bbinfo_handwritten_file /\ real[tail].bytes > 0) =>
          real[tail].end = w.start
  <2>1. SUFFICES ASSUME bbinfo_handwritten_file, real[tail].bytes > 0
                 PROVE  real[tail].end = w.start
    OBVIOUS
  <2>2. \E s \in Secs : frag_now[s] = bbinfo_last_frag
    BY <2>1, <1>11 DEF FragTypes, cur
  <2>3. real[tail].end = [frag |-> bbinfo_last_frag,
                          off |-> bbinfo_last_inst_offset + bbinfo_last_inst_size]
    BY <2>1, <2>2, <1>11 DEF BlockInv, HandEnd
  <2> QED BY <2>1, <2>3, <1>1, <1>11
<1>13. HandBlocksContiguous'
  <2>1. SUFFICES ASSUME bbinfo_handwritten_file, NEW j \in 1 .. tail
                 PROVE  ~real'[j].gap
    BY <1>1, <1>5 DEF HandBlocksContiguous
  <2>2. ~real[j].gap
    BY <2>1, <1>2 DEF BlockInv, HandBlocksContiguous
  <2>3. CASE j = tail
    <3>1. IsJoined(real[tail], real'[tail], w)
      BY <2>1, <1>4, <1>11
    <3> QED BY <2>1, <2>2, <2>3, <3>1, <1>12 DEF IsJoined
  <2>4. CASE j # tail
    BY <2>2, <2>4, <1>4
  <2> QED BY <2>3, <2>4
<1>14. HandEnd'
  <2>1. SUFFICES ASSUME bbinfo_handwritten_file, tail > 0,
                        \E s \in Secs : frag_now'[s] = bbinfo_last_frag
                 PROVE  real'[tail].end = [frag |-> bbinfo_last_frag,
                                           off |-> off + size]
    BY <1>1, <1>5 DEF HandEnd
  <2>2. w.end = [frag |-> cur, off |-> off + size]
    BY <2>1, <1>11 DEF Assembled
  <2>3. real'[tail].end = w.end
    BY <2>1, <1>4 DEF IsJoined
  <2> QED BY <2>1, <2>2, <2>3, <1>11
<1>15. BlocksNamed'
  <2>1. \A x \in FragId : last_bb'[x] <= tail
    <3>1. \A x \in FragId : last_bb[x] <= tail
      BY DEF BlockInv, BlocksNamed
    <3>2. \A x \in FragId : last_bb'[x] \in {last_bb[x], tail}
      BY <1>3 DEF Assembled
    <3> QED BY <3>1, <3>2, <1>2
  <2>2. jumpOf' \in [FragId -> Nat]
        /\ \A x \in branches' : jumpOf'[x] = last_bb'[x]
    BY DEF Assembled
  <2> QED BY <2>1, <2>2, <1>4, <1>5 DEF BlocksNamed
<1> QED BY <1>3, <1>4, <1>9, <1>10, <1>13, <1>14, <1>15 DEF BlockInv

\* The instruction begins a block of its own in a hand-written file.
LEMMA InsnInNew ==
  ASSUME FragTypes, BlockTypes, FragsOpened, BlockInv, NEW off, NEW size,
         NEW refs, NEW early, NEW t, NEW w,
         Assembled(off, size, refs, early, t, w), HandBlock(cur, off)
  PROVE  BlockInv' /\ mbbs' \in Seq(Block) /\ real' \in Seq(Real)
<1>1. /\ off \in Nat /\ size \in Nat /\ size > 0 /\ refs \in Nat
      /\ early \in {0, 1} /\ w \in Wrote /\ w.bytes = size
      /\ w.fixes = refs + early /\ w.start = [frag |-> cur, off |-> off]
      /\ t = Len(Ready(cur, off, early))
      /\ mbbs' = Written(Ready(cur, off, early), size, refs)
      /\ bbinfo_handwritten_file' = bbinfo_handwritten_file
      /\ bbinfo_last_frag' = cur
      /\ bbinfo_handwritten_file => /\ bbinfo_last_inst_offset' = off
                                    /\ bbinfo_last_inst_size' = size
  BY DEF Assembled
<1>2. /\ cur \in FragId /\ mbbs \in Seq(Block) /\ tail = Len(mbbs)
      /\ tail \in Nat /\ DOMAIN mbbs = 1 .. tail /\ Len(real) = tail
  BY LenProperties DEF FragTypes, cur, BlockTypes, tail, BlockInv, BlocksNamed
<1>3. /\ mbbs' \in Seq(Block) /\ Len(mbbs') = tail + 1 /\ t = tail + 1
      /\ \A j \in 1 .. tail : j # tail => mbbs'[j] = mbbs[j]
      /\ tail > 0 => Grown(mbbs[tail], mbbs'[tail], cur, off, 0, early)
      /\ mbbs'[tail + 1].size = size /\ mbbs'[tail + 1].num_fixs = refs
      /\ mbbs'[tail + 1].is_begin = 0
      /\ mbbs'[tail + 1].offset = off /\ mbbs'[tail + 1].parent_frag = cur
  <2> DEFINE bs == Ready(cur, off, early)
  <2>1. bs = Ready(cur, off, early) /\ mbbs' = Written(bs, size, refs)
        /\ t = Len(bs)
    BY <1>1
  <2> HIDE DEF bs
  <2>2. IsWritten(mbbs', bs, cur, off, size, refs, early)
    BY <2>1, <1>1, <1>2 DEF IsWritten
  <2>3. /\ mbbs' \in Seq(Block) /\ Len(mbbs') = Len(bs)
        /\ Len(bs) = IF HandBlock(cur, off) THEN tail + 1 ELSE tail
        /\ \A j \in 1 .. tail : j # tail => mbbs'[j] = mbbs[j]
        /\ (tail > 0 /\ HandBlock(cur, off)) =>
             Grown(mbbs[tail], mbbs'[tail], cur, off, 0, early)
        /\ HandBlock(cur, off) =>
             /\ mbbs'[tail + 1].size = size /\ mbbs'[tail + 1].num_fixs = refs
             /\ mbbs'[tail + 1].is_begin = 0
             /\ mbbs'[tail + 1].offset = off
             /\ mbbs'[tail + 1].parent_frag = cur
    BY <2>2, BlocksGrown
  <2> QED BY <2>1, <2>3
<1>4. t \in Nat /\ t > 0 /\ t # tail
  BY <1>2, <1>3
<1>5. /\ real' \in Seq(Real) /\ Len(real') = t
      /\ \A j \in 1 .. t : (j # t /\ j # tail) => real'[j] = real[j]
      /\ tail > 0 => /\ LikeReal(real[tail], real'[tail])
                     /\ early = 1 => real'[tail].stray
                     /\ early = 0 => real'[tail] = real[tail]
      /\ \E e : /\ IsJoined(Unused, e, w) /\ LikeReal(e, real'[t])
                /\ early = 1 => real'[t].stray
                /\ early = 0 => real'[t] = e
  <2>1. /\ real' \in Seq(Real) /\ Len(real') = t
        /\ \A j \in 1 .. t : (j # t /\ j # tail) => real'[j] = real[j]
        /\ (t # tail /\ tail > 0) =>
             /\ LikeReal(real[tail], real'[tail])
             /\ early = 1 => real'[tail].stray
             /\ early = 0 => real'[tail] = real[tail]
        /\ t > 0 => \E e : /\ IsJoined(IF t = tail THEN real[t] ELSE Unused, e, w)
                           /\ LikeReal(e, real'[t])
                           /\ (early = 1 /\ tail # t) => real'[t].stray
                           /\ ~(early = 1 /\ tail # t) => real'[t] = e
    BY <1>2, <1>3, <1>4, HistoryIs
  <2>2. PICK e : /\ IsJoined(Unused, e, w)
                 /\ LikeReal(e, real'[t])
                 /\ (early = 1 /\ tail # t) => real'[t].stray
                 /\ ~(early = 1 /\ tail # t) => real'[t] = e
    BY <2>1, <1>4
  <2>3. early = 0 => ~(early = 1 /\ tail # t)
    OBVIOUS
  <2> QED BY <2>1, <2>2, <2>3, <1>4
<1>6. tail' = t /\ DOMAIN mbbs' = 1 .. t
  BY <1>3 DEF tail
<1>7. PICK e : /\ IsJoined(Unused, e, w) /\ LikeReal(e, real'[t])
               /\ early = 1 => real'[t].stray
               /\ early = 0 => real'[t] = e
  BY <1>5
<1>8. e.bytes = size /\ e.fixes = refs + early /\ e.start = w.start
      /\ e.end = w.end /\ ~e.gap
  <2>1. Unused.bytes = 0 /\ Unused.fixes = 0 /\ Unused.gap = FALSE
    BY DEF Unused
  <2>2. /\ e.bytes = Unused.bytes + w.bytes /\ e.fixes = Unused.fixes + w.fixes
        /\ e.start = IF Unused.bytes = 0 THEN w.start ELSE Unused.start
        /\ e.end = w.end
        /\ e.gap <=> (Unused.gap \/ (Unused.bytes > 0 /\ Unused.end # w.start))
    BY <1>7 DEF IsJoined
  <2> QED BY <2>1, <2>2, <1>1
<1>9. real'[t].bytes = size /\ real'[t].start = w.start /\ real'[t].end = w.end
      /\ real'[t].gap = e.gap
  BY <1>7, <1>8 DEF LikeReal
<1>10. BlockOK(mbbs'[t], real'[t])
  <2>1. ~real'[t].stray => mbbs'[t].num_fixs = real'[t].fixes
    BY <1>1, <1>3, <1>7, <1>8
  <2> QED BY <2>1, <1>1, <1>3, <1>9 DEF BlockOK
<1>11. tail > 0 => BlockOK(mbbs'[tail], real'[tail])
  <2>1. SUFFICES ASSUME tail > 0 PROVE BlockOK(mbbs'[tail], real'[tail])
    OBVIOUS
  <2>2. BlockOK(mbbs[tail], real[tail]) /\ mbbs[tail] \in Block
    BY <2>1, <1>2, BlocksOK
  <2>3. mbbs[tail].size \in Nat /\ mbbs[tail].num_fixs \in Nat
        /\ mbbs[tail].is_begin \in {0, 1}
    BY <2>2 DEF Block
  <2>4. mbbs[tail].is_begin = 1 <=> mbbs[tail].size = 0
    BY <2>1 DEF BlockInv, TailBegun
  <2>5. /\ mbbs'[tail].size = mbbs[tail].size + 0
        /\ mbbs'[tail].num_fixs = mbbs[tail].num_fixs + early
        /\ mbbs[tail].is_begin = 0 =>
             /\ mbbs'[tail].offset = mbbs[tail].offset
             /\ mbbs'[tail].parent_frag = mbbs[tail].parent_frag
    BY <2>1, <1>3 DEF Grown
  <2>6. mbbs'[tail].size = mbbs[tail].size
    BY <2>3, <2>5
  <2>7. real'[tail].bytes = real[tail].bytes
        /\ real'[tail].start = real[tail].start
    BY <2>1, <1>5 DEF LikeReal
  <2>8. mbbs'[tail].size > 0 =>
          real'[tail].start = [frag |-> mbbs'[tail].parent_frag,
                               off |-> mbbs'[tail].offset]
    BY <2>2, <2>3, <2>4, <2>5, <2>6, <2>7 DEF BlockOK
  <2>9. ~real'[tail].stray => mbbs'[tail].num_fixs = real'[tail].fixes
    <3>1. CASE early = 1
      BY <2>1, <3>1, <1>5
    <3>2. CASE early = 0
      <4>1. real'[tail] = real[tail] /\ mbbs'[tail].num_fixs = mbbs[tail].num_fixs
        BY <2>1, <2>3, <2>5, <3>2, <1>5
      <4> QED BY <4>1, <2>2 DEF BlockOK
    <3> QED BY <3>1, <3>2, <1>1
  <2> QED BY <2>2, <2>6, <2>7, <2>8, <2>9 DEF BlockOK
<1>12. \A j \in 1 .. t : j = t \/ (j = tail /\ tail > 0)
                         \/ (j \in 1 .. tail /\ j # tail /\ j # t)
  BY <1>2, <1>3
<1>13. \A j \in DOMAIN mbbs' : BlockOK(mbbs'[j], real'[j])
  <2> SUFFICES ASSUME NEW j \in 1 .. t PROVE BlockOK(mbbs'[j], real'[j])
    BY <1>6
  <2>1. CASE j \in 1 .. tail /\ j # tail /\ j # t
    BY <2>1, <1>2, <1>3, <1>5, BlocksOK
  <2> QED BY <2>1, <1>10, <1>11, <1>12
<1>14. SizesRead' /\ StartsRecorded' /\ FixesRead'
  BY <1>13, BlocksOKAfter
<1>15. TailBegun'
  BY <1>1, <1>3, <1>6 DEF TailBegun
<1>16. HandBlocksContiguous'
  <2>1. SUFFICES ASSUME bbinfo_handwritten_file, NEW j \in 1 .. t
                 PROVE  ~real'[j].gap
    BY <1>1, <1>6 DEF HandBlocksContiguous
  <2>2. CASE j = t
    BY <2>2, <1>8, <1>9
  <2>3. CASE j # t
    <3>1. j \in 1 .. tail
      BY <2>3, <1>12, <1>2
    <3>2. ~real[j].gap
      BY <2>1, <3>1, <1>2 DEF BlockInv, HandBlocksContiguous
    <3>3. real'[j].gap = real[j].gap
      BY <2>3, <3>1, <1>5, <1>12 DEF LikeReal
    <3> QED BY <3>2, <3>3
  <2> QED BY <2>2, <2>3
<1>17. HandEnd'
  <2>1. SUFFICES ASSUME bbinfo_handwritten_file,
                        \E s \in Secs : frag_now'[s] = cur
                 PROVE  real'[t].end = [frag |-> cur, off |-> off + size]
    BY <1>1, <1>6 DEF HandEnd
  <2>2. w.end = [frag |-> cur, off |-> off + size]
    BY <2>1 DEF Assembled
  <2> QED BY <2>2, <1>9
<1>18. BlocksNamed'
  <2>1. \A x \in FragId : last_bb'[x] <= t
    <3>1. \A x \in FragId : last_bb[x] \in Nat /\ last_bb[x] <= tail
      BY DEF BlockInv, BlocksNamed, FragTypes
    <3>2. \A x \in FragId : last_bb'[x] \in {last_bb[x], t}
      BY DEF Assembled
    <3> QED BY <3>1, <3>2, <1>2, <1>3
  <2>2. jumpOf' \in [FragId -> Nat]
        /\ \A x \in branches' : jumpOf'[x] = last_bb'[x]
    BY DEF Assembled
  <2> QED BY <2>1, <2>2, <1>5, <1>6 DEF BlocksNamed
<1> QED BY <1>3, <1>5, <1>14, <1>15, <1>16, <1>17, <1>18 DEF BlockInv

----------------------------------------------------------------------------
(***************************************************************************)
(* An instruction.                                                         *)
(***************************************************************************)

LEMMA InsnSafe ==
  ASSUME ReadSafe, NEW k \in {"plain", "ref", "tlscall", "branch"},
         NEW g1 \in 0 .. MaxGrow, NEW g2 \in 0 .. MaxGrow, Insn(k, g1, g2)
  PROVE  ReadSafe'
<1> DEFINE off    == fr_fix[cur]
           opened == g1 + g2 + (IF k = "branch" THEN 1 ELSE 0)
           c1     == After(g1)
           c2     == After(g1 + g2)
           one    == [fr_fix EXCEPT ![c1] = @ + 1]
           fix    == IF k = "ref" THEN [one EXCEPT ![c2] = @ + 1] ELSE one
           size   == insn_size(fix, cur, off, nfrags + opened)
           refs   == IF k = "ref" THEN 1 ELSE 0
           early  == IF k = "tlscall" THEN 1 ELSE 0
           t      == Len(Ready(cur, off, early))
           w      == [bytes |-> 1 + refs, fixes |-> refs + early,
                      start |-> [frag |-> cur, off |-> off],
                      end   |-> [frag |-> After(opened),
                                 off  |-> fix[After(opened)]]]
<1>1. /\ FragTypes /\ BlockTypes /\ OutTypes
      /\ FragsOpened /\ BlockInv /\ FixupsSerial
  BY SafeParts
<1>2. /\ k = "ref" \/ g2 = 0
      /\ Open(opened) /\ fr_fix' = fix
      /\ branches' = IF k = "branch" THEN branches \cup {c1} ELSE branches
      /\ bbinfo_last_frag' = IF HandBlock(cur, off) THEN cur
                             ELSE bbinfo_last_frag
      /\ bbinfo_last_inst_offset' = IF bbinfo_handwritten_file THEN off
                                    ELSE bbinfo_last_inst_offset
      /\ bbinfo_last_inst_size' = IF bbinfo_handwritten_file THEN size
                                  ELSE bbinfo_last_inst_size
      /\ UNCHANGED <<now_seg, bbinfo_handwritten_file,
                     handwritten_bbinfo_func_name, phase>>
      /\ UNCHANGED funcVars /\ UNCHANGED outVars
  BY Zenon DEF Insn
<1>3. /\ last_bb' = [x \in FragId |->
                       IF x \in LastBB(cur, nfrags + opened) THEN t
                       ELSE last_bb[x]]
      /\ jumpOf' = IF k = "branch" THEN [jumpOf EXCEPT ![c1] = t] ELSE jumpOf
  BY Zenon DEF Insn, Ready, Early
<1>4. mbbs' = Written(Ready(cur, off, early), size, refs)
  BY Zenon DEF Insn, Ready, Early, Written
<1>5. real' = IF early = 1 /\ tail # t THEN Strayed(Seen(t, w), t)
              ELSE Seen(t, w)
  BY Zenon DEF Insn, Ready, Early, Seen
<1>6. /\ g1 \in Nat /\ g2 \in Nat /\ opened \in Nat /\ g1 + g2 \in Nat
      /\ g1 <= opened /\ g1 + g2 <= opened
      /\ refs \in {0, 1} /\ early \in {0, 1}
      /\ k = "branch" => opened = g1 + 1
      /\ opened = 0 => g1 = 0 /\ g1 + g2 = 0
  BY <1>2
<1>7. /\ nfrags \in FragId /\ nfrags \in Nat /\ nfrags + opened <= MaxFrags
      /\ fr_fix \in [FragId -> Nat] /\ jumpOf \in [FragId -> Nat]
      /\ last_bb \in [FragId -> Nat] /\ branches \subseteq FragId
      /\ now_seg \in Secs /\ cur = frag_now[now_seg]
      /\ nfrags + opened \in FragId
  <2>1. /\ nfrags \in FragId /\ nfrags + opened <= MaxFrags
        /\ fr_fix \in [FragId -> Nat] /\ jumpOf \in [FragId -> Nat]
        /\ last_bb \in [FragId -> Nat] /\ branches \subseteq FragId
        /\ now_seg \in Secs /\ cur = frag_now[now_seg]
    BY <1>1, <1>2 DEF FragTypes, Open, BlockInv, BlocksNamed, cur
  <2> HIDE DEF opened
  <2>2. nfrags \in Nat
    BY <2>1, FragIds
  <2>3. nfrags + opened \in FragId
    BY <2>1, <2>2, <1>6 DEF FragId
  <2> QED BY <2>1, <2>2, <2>3
<1> HIDE DEF opened, refs, early
<1>8. /\ cur \in FragId /\ cur \in Nat /\ cur <= nfrags
      /\ After(opened) \in FragId
      /\ opened = 0 => After(opened) = cur
      /\ opened > 0 => After(opened) = nfrags + opened
  BY <1>1, <1>6, <1>7, FragIds, AfterOpen
<1>8a. off \in Nat /\ refs \in Nat /\ early \in Nat
  <2>1. off \in Nat
    BY <1>7, <1>8
  <2> QED BY <2>1, <1>6
<1>9. /\ c1 \in FragId /\ c1 \in Nat /\ c1 <= nfrags + opened
      /\ c1 = cur \/ c1 > nfrags
      /\ g1 = 0 => c1 = cur
      /\ g1 > 0 => c1 = nfrags + g1
  <2>1. nfrags + g1 <= MaxFrags
    BY <1>6, <1>7
  <2>2. c1 \in FragId /\ (g1 = 0 => c1 = cur) /\ (g1 > 0 => c1 = nfrags + g1)
    BY <2>1, <1>1, <1>6, AfterOpen
  <2> HIDE DEF c1
  <2> QED BY <2>2, <1>6, <1>7, <1>8, FragIds
<1>10. /\ c2 \in FragId /\ c2 \in Nat /\ c2 <= nfrags + opened
       /\ c2 = cur \/ c2 > nfrags
       /\ g1 + g2 = 0 => c2 = cur
  <2> DEFINE g == g1 + g2
  <2>1. nfrags + g <= MaxFrags /\ g \in Nat /\ g <= opened
    BY <1>6, <1>7
  <2>2. c2 = After(g)
    OBVIOUS
  <2> HIDE DEF c2, g
  <2>3. c2 \in FragId /\ (g = 0 => c2 = cur) /\ (g > 0 => c2 = nfrags + g)
    BY <2>1, <2>2, <1>1, AfterOpen
  <2>4. c2 \in Nat /\ c2 <= nfrags + opened /\ (c2 = cur \/ c2 > nfrags)
    BY <2>1, <2>3, <1>6, <1>7, <1>8, FragIds
  <2> QED BY <2>3, <2>4 DEF g
<1> HIDE DEF c1, c2
<1>11. /\ fix \in [FragId -> Nat]
       /\ \A y \in FragId : fix[y] = (fr_fix[y] + (IF y = c1 THEN 1 ELSE 0))
                                       + (IF y = c2 THEN refs ELSE 0)
  <2>1. /\ one \in [FragId -> Nat]
        /\ \A y \in FragId : one[y] = fr_fix[y] + (IF y = c1 THEN 1 ELSE 0)
    <3>1. fr_fix[c1] \in Nat /\ fr_fix[c1] + 1 \in Nat
      BY <1>7, <1>9
    <3> QED BY <3>1, <1>7, <1>9
  <2> HIDE DEF one
  <2>2. CASE k = "ref"
    <3>1. one[c2] \in Nat /\ one[c2] + 1 \in Nat
      BY <2>1, <1>10
    <3>2. fix = [one EXCEPT ![c2] = one[c2] + 1] /\ refs = 1
      BY <2>2 DEF refs
    <3> HIDE DEF fix
    <3>3. fix \in [FragId -> Nat]
      BY <2>1, <3>1, <3>2
    <3>4. \A y \in FragId : fix[y] = one[y] + (IF y = c2 THEN refs ELSE 0)
      BY <2>1, <3>1, <3>2, <1>10
    <3> QED BY <2>1, <3>3, <3>4
  <2>3. CASE k # "ref"
    <3>1. fix = one /\ refs = 0
      BY <2>3 DEF refs
    <3> HIDE DEF fix
    <3> QED BY <2>1, <3>1, <1>7
  <2> QED BY <2>2, <2>3
<1> HIDE DEF fix
<1>12. size = 1 + refs
  <2> DEFINE end == nfrags + opened
  <2>1. nfrags <= end
    BY <1>6, <1>7
  <2>2. end \in FragId /\ c1 <= end /\ c2 <= end
    BY <1>7, <1>9, <1>10
  <2>3. size = insn_size(fix, cur, fr_fix[cur], end)
    OBVIOUS
  <2> HIDE DEF end, size
  <2>4. \A y \in FragId : fix[y] = (fr_fix[y] + (IF y = c1 THEN 1 ELSE 0))
                                     + (IF y = c2 THEN refs ELSE 0)
    BY <1>11
  <2>5. c1 \in FragId /\ c2 \in FragId /\ (c1 = cur \/ c1 > nfrags)
        /\ (c2 = cur \/ c2 > nfrags) /\ refs \in {0, 1}
    BY <1>6, <1>9, <1>10
  <2>6. insn_size(fix, cur, fr_fix[cur], end) = 1 + refs
    BY <2>1, <2>2, <2>4, <2>5, <1>1, InsnSize
  <2> QED BY <2>3, <2>6
<1> HIDE DEF size
<1>13. \A y \in FragId : y > nfrags + opened => fr_fix'[y] = fr_fix[y]
  <2> SUFFICES ASSUME NEW y \in FragId, y > nfrags + opened
               PROVE  fr_fix'[y] = fr_fix[y]
    OBVIOUS
  <2>1. y \in Nat /\ y # c1 /\ y # c2 /\ fr_fix[y] \in Nat
    <3>1. y \in Nat
      BY FragIds
    <3>2. fr_fix[y] \in Nat
      BY <1>7
    <3>3. y # c1 /\ y # c2
      <4>1. c1 <= nfrags + opened /\ c2 <= nfrags + opened
            /\ ~(y <= nfrags + opened)
        <5>1. nfrags + opened \in Nat
          BY <1>6, <1>7
        <5> HIDE DEF opened
        <5> QED BY <3>1, <5>1, <1>9, <1>10
      <4> QED BY <4>1
    <3> QED BY <3>1, <3>2, <3>3
  <2>2. fix[y] = (fr_fix[y] + 0) + 0
    BY <2>1, <1>11
  <2> QED BY <2>1, <2>2, <1>2
<1>14. frag_now'[now_seg] = After(opened)
  <2>1. frag_now' = [frag_now EXCEPT ![now_seg] =
                       IF opened = 0 THEN @ ELSE nfrags + opened]
    BY <1>2 DEF Open
  <2>2. frag_now \in [Secs -> FragId]
    BY <1>1 DEF FragTypes
  <2> QED BY <2>1, <2>2, <1>7 DEF After
<1>15. /\ branches' \subseteq FragId /\ branches \subseteq branches'
       /\ opened = 0 => branches' = branches
       /\ \A x \in branches' \ branches :
            /\ x <= nfrags + opened /\ x # frag_now'[now_seg]
            /\ x = cur \/ x > nfrags
  <2>1. CASE k = "branch"
    <3>1. branches' = branches \cup {c1} /\ opened = g1 + 1 /\ opened > 0
      BY <2>1, <1>2, <1>6
    <3>2. After(opened) = nfrags + opened
      BY <3>1, <1>8
    <3>3. c1 # nfrags + opened
      BY <3>1, <1>6, <1>7, <1>8, <1>9
    <3> QED BY <3>1, <3>2, <3>3, <1>7, <1>9, <1>14
  <2>2. CASE k # "branch"
    BY <2>2, <1>2, <1>7
  <2> QED BY <2>1, <2>2
<1>16. /\ last_bb' \in [FragId -> Nat]
       /\ \A x \in FragId : last_bb'[x] \in {last_bb[x], t}
       /\ \A x \in FragId : x = cur \/ x \in (nfrags + 1) .. (nfrags + opened)
                              => last_bb'[x] = t
       /\ \A x \in FragId : (x # cur /\ x <= nfrags) => last_bb'[x] = last_bb[x]
  <2>1. t \in Nat
    <3> DEFINE bs == Ready(cur, off, early)
    <3>1. IsWritten(Written(bs, size, refs), bs, cur, off, size, refs, early)
      BY <1>6, <1>7, <1>8, <1>12 DEF IsWritten
    <3>2. Len(bs) = IF HandBlock(cur, off) THEN tail + 1 ELSE tail
      <4> HIDE DEF bs, off
      <4> QED BY <3>1, <1>1, BlocksGrown
    <3>3. tail \in Nat
      BY <1>1, LenProperties DEF BlockTypes, tail
    <3> HIDE DEF bs
    <3>4. Len(bs) \in Nat
      BY <3>2, <3>3
    <3> QED BY <3>4 DEF bs
  <2> HIDE DEF t
  <2>2. \A x \in FragId :
          last_bb'[x] = IF x \in LastBB(cur, nfrags + opened) THEN t
                        ELSE last_bb[x]
    BY <1>3
  <2>3. \A x \in FragId : x \in LastBB(cur, nfrags + opened) <=>
          (x = cur \/ x \in (nfrags + 1) .. (nfrags + opened))
    BY DEF LastBB
  <2>4. \A x \in FragId :
          x <= nfrags => x \notin (nfrags + 1) .. (nfrags + opened)
    BY <1>7, FragIds
  <2>5. last_bb' \in [FragId -> Nat]
    BY <2>1, <1>3, <1>7
  <2> QED BY <2>2, <2>3, <2>4, <2>5
<1>17. /\ FragTypes' /\ FragsOpened'
       /\ opened > 0 => \A s \in Secs : frag_now'[s] # cur
  <2>1. bbinfo_last_frag' \in {bbinfo_last_frag, cur}
    BY <1>2
  <2>2. fr_fix' \in [FragId -> Nat] /\ now_seg' = now_seg /\ Open(opened)
        /\ opened \in Nat /\ last_bb' \in [FragId -> Nat]
    BY <1>2, <1>6, <1>11, <1>16
  <2> QED BY <2>1, <2>2, <1>1, <1>13, <1>15, FragsStay
<1>18. w \in Wrote /\ w.bytes = 1 + refs /\ w.fixes = refs + early
       /\ w.start = [frag |-> cur, off |-> off]
       /\ w.end = [frag |-> After(opened), off |-> fix[After(opened)]]
  <2> DEFINE x == After(opened)
             y == fix[After(opened)]
             b == 1 + refs
             c == refs + early
  <2>1. off \in Nat /\ x \in FragId /\ y \in Nat /\ b \in Nat /\ c \in Nat
    <3>1. x \in FragId /\ y \in Nat
      BY <1>8, <1>11
    <3> QED BY <3>1, <1>8a
  <2>2. w = [bytes |-> b, fixes |-> c, start |-> [frag |-> cur, off |-> off],
             end |-> [frag |-> x, off |-> y]]
    OBVIOUS
  <2> HIDE DEF w, x, y, b, c, off
  <2>3. [frag |-> cur, off |-> off] \in Place
        /\ [frag |-> x, off |-> y] \in Place
    BY <2>1, <1>8 DEF Place
  <2>4. w \in Wrote /\ w.bytes = b /\ w.fixes = c
        /\ w.start = [frag |-> cur, off |-> off]
        /\ w.end = [frag |-> x, off |-> y]
    BY <2>1, <2>2, <2>3 DEF Wrote
  <2> QED BY <2>4 DEF x, y, b, c
<1> HIDE DEF w, t
<1>19. (\E s \in Secs : frag_now'[s] = cur) =>
         w.end = [frag |-> cur, off |-> off + size]
  <2>1. SUFFICES ASSUME \E s \in Secs : frag_now'[s] = cur
                 PROVE  w.end = [frag |-> cur, off |-> off + size]
    OBVIOUS
  <2>2. opened = 0
    BY <2>1, <1>6, <1>17
  <2>3. After(opened) = cur /\ c1 = cur /\ c2 = cur
    BY <2>2, <1>6, <1>8, <1>9, <1>10
  <2>4. fix[cur] = (fr_fix[cur] + 1) + refs
    BY <2>3, <1>8, <1>11
  <2>5. fix[cur] = off + size
    <3>1. fix[cur] = (off + 1) + refs
      BY <2>4
    <3> HIDE DEF off
    <3> QED BY <3>1, <1>8a, <1>12
  <2> HIDE DEF off
  <2> QED BY <2>3, <2>5, <1>18
<1>20. jumpOf' \in [FragId -> Nat]
       /\ \A x \in branches' : jumpOf'[x] = last_bb'[x]
  <2>1. \A x \in branches : x \in FragId /\ x # cur /\ x <= nfrags
                            /\ jumpOf[x] = last_bb[x]
    BY <1>1, <1>7 DEF FragsOpened, BlockInv, BlocksNamed
  <2>2. \A x \in branches : last_bb'[x] = jumpOf[x]
    <3> TAKE x \in branches
    <3>1. x \in FragId /\ x # cur /\ x <= nfrags /\ jumpOf[x] = last_bb[x]
      BY <2>1
    <3> QED BY <3>1, <1>16
  <2>3. CASE k = "branch"
    <3>1. jumpOf' = [jumpOf EXCEPT ![c1] = t] /\ branches' = branches \cup {c1}
      BY <2>3, <1>2, <1>3
    <3>2. last_bb'[c1] = t /\ last_bb'[c1] \in Nat
      BY <1>6, <1>7, <1>9, <1>16
    <3>3. \A x \in branches : x # c1
      BY <2>1, <1>7, <1>9, FragIds
    <3> QED BY <2>1, <2>2, <3>1, <3>2, <3>3, <1>7, <1>9
  <2>4. CASE k # "branch"
    BY <2>2, <2>4, <1>2, <1>3, <1>7
  <2> QED BY <2>3, <2>4
<1>21. Assembled(off, size, refs, early, t, w)
  <2>1. off \in Nat /\ size \in Nat /\ size > 0 /\ w.bytes = size
    BY <1>8a, <1>12, <1>18
  <2>2. t = Len(Ready(cur, off, early))
    BY DEF t
  <2>3. /\ bbinfo_handwritten_file' = bbinfo_handwritten_file
        /\ bbinfo_last_frag' = IF HandBlock(cur, off) THEN cur
                               ELSE bbinfo_last_frag
        /\ bbinfo_handwritten_file => /\ bbinfo_last_inst_offset' = off
                                      /\ bbinfo_last_inst_size' = size
    BY <1>2
  <2>4. \A x \in FragId : last_bb'[x] \in {last_bb[x], t}
    BY <1>16
  <2> HIDE DEF off
  <2> QED BY <2>1, <2>2, <2>3, <2>4, <1>4, <1>5, <1>6, <1>18, <1>19, <1>20
          DEF Assembled
<1>22. BlockInv' /\ mbbs' \in Seq(Block) /\ real' \in Seq(Real)
  <2> HIDE DEF off
  <2> QED BY <1>1, <1>21, InsnInLast, InsnInNew
<1>23. BlockTypes'
  <2>1. bbinfo_last_frag' \in FragId \cup {0}
    BY <1>1, <1>2, <1>8 DEF BlockTypes
  <2>2. bbinfo_last_inst_offset' \in Nat /\ bbinfo_last_inst_size' \in Nat
    <3>1. off \in Nat /\ size \in Nat
      BY <1>6, <1>7, <1>8, <1>12
    <3>2. bbinfo_last_inst_offset \in Nat /\ bbinfo_last_inst_size \in Nat
      BY <1>1 DEF BlockTypes
    <3> QED BY <3>1, <3>2, <1>2
  <2> QED BY <2>1, <2>2, <1>1, <1>2, <1>22 DEF BlockTypes, funcVars
<1>24. OutTypes' /\ FixupsSerial'
  BY <1>1, <1>2, SameOut DEF OutTypes
<1> QED BY <1>17, <1>22, <1>23, <1>24, SafeAfter

----------------------------------------------------------------------------
(***************************************************************************)
(* Relaxation.                                                             *)
(***************************************************************************)

\* The invariant of the blocks that also relaxation keeps.
RelaxInv ==
  /\ BlocksNamed /\ TailBegun /\ SizesAddUp /\ StartsRecorded
  /\ HandBlocksContiguous /\ FixesOfOwnBlock

LEMMA BBParts ==
  BBSafe <=> /\ FragTypes /\ BlockTypes /\ OutTypes
             /\ FragsOpened /\ RelaxInv /\ FixupsSerial
             /\ Unrelaxed /\ (phase = "read" => HandEnd)
BY DEF BBSafe, BBTypeOK, BBInv, FragTypes, BlockTypes, OutTypes, RelaxInv

LEMMA BBAfter ==
  /\ FragTypes' /\ BlockTypes' /\ OutTypes'
  /\ FragsOpened' /\ RelaxInv' /\ FixupsSerial'
  /\ Unrelaxed' /\ (phase' = "read" => HandEnd')
  => BBSafe'
BY DEF BBSafe, BBTypeOK, BBInv, FragTypes, BlockTypes, OutTypes, RelaxInv

\* The numbers of a block and of its history.
LEMMA Numbers ==
  ASSUME BlockTypes, BlocksNamed
  PROVE  /\ DOMAIN mbbs = 1 .. Len(mbbs) /\ Len(mbbs) \in Nat
         /\ \A b \in DOMAIN mbbs :
              /\ mbbs[b].size \in Nat /\ mbbs[b].num_fixs \in Nat
              /\ real[b].bytes \in Nat /\ real[b].fixes \in Nat
<1>1. mbbs \in Seq(Block) /\ real \in Seq(Real) /\ Len(real) = Len(mbbs)
  BY DEF BlockTypes, BlocksNamed, tail
<1>2. DOMAIN mbbs = 1 .. Len(mbbs) /\ Len(mbbs) \in Nat
  BY <1>1, LenProperties
<1>3. \A b \in DOMAIN mbbs : mbbs[b] \in Block /\ real[b] \in Real
  BY <1>1, <1>2
<1> QED BY <1>2, <1>3 DEF Block, Real

\* As long as nothing is relaxed, the two invariants are the same.
LEMMA IntoReading ==
  ASSUME BBSafe, phase = "read"
  PROVE  ReadSafe /\ far = {} /\ converted = {}
<1>1. /\ FragTypes /\ BlockTypes /\ OutTypes
      /\ FragsOpened /\ RelaxInv /\ FixupsSerial /\ HandEnd
      /\ far = {} /\ converted = {}
  BY BBParts DEF Unrelaxed
<1>2. Cardinality({}) = 0 /\ \A b : Late(b) = {} /\ Leaving(b) = {}
  BY <1>1, FS_EmptySet DEF Late, Leaving
<1>3. \A b \in DOMAIN mbbs : mbbs[b].size \in Nat /\ mbbs[b].num_fixs \in Nat
  BY <1>1, Numbers DEF RelaxInv
<1>4. SizesRead
  <2>1. \A b \in DOMAIN mbbs :
          mbbs[b].size + Cardinality(Late(b)) = real[b].bytes
    BY <1>1 DEF RelaxInv, SizesAddUp
  <2>2. \A b : Cardinality(Late(b)) = 0
    BY <1>2, Zenon
  <2>3. \A b \in DOMAIN mbbs : mbbs[b].size + 0 = real[b].bytes
    BY <2>1, <2>2, Zenon
  <2> QED BY <2>3, <1>3 DEF SizesRead
<1>5. FixesRead
  <2>1. \A b \in DOMAIN mbbs :
          ~real[b].stray =>
            mbbs[b].num_fixs + Cardinality(Leaving(b)) = real[b].fixes
    BY <1>1 DEF RelaxInv, FixesOfOwnBlock
  <2>2. \A b : Cardinality(Leaving(b)) = 0
    BY <1>2, Zenon
  <2>3. \A b \in DOMAIN mbbs :
          ~real[b].stray => mbbs[b].num_fixs + 0 = real[b].fixes
    BY <2>1, <2>2, Zenon
  <2> QED BY <2>3, <1>3 DEF FixesRead
<1> QED BY <1>1, <1>4, <1>5 DEF RelaxInv, BlockInv, ReadSafe

LEMMA OutOfReading ==
  ASSUME ReadSafe', far' = {}, converted' = {}
  PROVE  BBSafe'
<1>1. /\ FragTypes' /\ BlockTypes' /\ OutTypes'
      /\ FragsOpened' /\ BlockInv' /\ FixupsSerial' /\ HandEnd' /\ BlocksNamed'
  BY DEF ReadSafe, BlockInv
<1>2. Cardinality({}) = 0 /\ \A b : Late(b)' = {} /\ Leaving(b)' = {}
  BY FS_EmptySet DEF Late, Leaving
<1>3. \A b \in DOMAIN mbbs' :
        mbbs'[b].size \in Nat /\ mbbs'[b].num_fixs \in Nat
  <2>1. mbbs' \in Seq(Block)
    BY <1>1 DEF BlockTypes
  <2>2. \A b \in DOMAIN mbbs' : mbbs'[b] \in Block
    BY <2>1, LenProperties
  <2> QED BY <2>2 DEF Block
<1>4. SizesAddUp'
  <2>1. \A b \in DOMAIN mbbs' : mbbs'[b].size = real'[b].bytes
    BY <1>1 DEF BlockInv, SizesRead
  <2>2. \A b \in DOMAIN mbbs' : mbbs'[b].size + 0 = real'[b].bytes
    BY <2>1, <1>3
  <2>3. \A b : Cardinality(Late(b)') = 0
    BY <1>2, Zenon
  <2>4. \A b \in DOMAIN mbbs' :
          mbbs'[b].size + Cardinality(Late(b)') = real'[b].bytes
    BY <2>2, <2>3, Zenon
  <2> QED BY <2>4 DEF SizesAddUp
<1>5. FixesOfOwnBlock'
  <2>1. \A b \in DOMAIN mbbs' :
          ~real'[b].stray => mbbs'[b].num_fixs = real'[b].fixes
    BY <1>1 DEF BlockInv, FixesRead
  <2>2. \A b \in DOMAIN mbbs' :
          ~real'[b].stray => mbbs'[b].num_fixs + 0 = real'[b].fixes
    BY <2>1, <1>3
  <2>3. \A b : Cardinality(Leaving(b)') = 0
    BY <1>2, Zenon
  <2>4. \A b \in DOMAIN mbbs' :
          ~real'[b].stray =>
            mbbs'[b].num_fixs + Cardinality(Leaving(b)') = real'[b].fixes
    BY <2>2, <2>3, Zenon
  <2> QED BY <2>4 DEF FixesOfOwnBlock
<1>6. RelaxInv'
  BY <1>1, <1>4, <1>5 DEF BlockInv, RelaxInv
<1>7. Unrelaxed'
  BY DEF Unrelaxed
<1> QED BY <1>1, <1>6, <1>7, BBAfter

LEMMA UnchangedSafe ==
  ASSUME BBSafe, UNCHANGED vars
  PROVE  BBSafe'
<1>1. /\ UNCHANGED <<fr_fix, fr_sec, branches, last_bb, nfrags, frag_now,
                     now_seg>>
      /\ UNCHANGED <<mbbs, real, jumpOf, phase>>
      /\ UNCHANGED <<cur_function_id, cur_function_end_id>>
      /\ UNCHANGED <<bbinfo_handwritten_file, handwritten_bbinfo_func_name,
                     bbinfo_last_frag, bbinfo_last_inst_offset,
                     bbinfo_last_inst_size>>
      /\ UNCHANGED <<fixups, far, converted>>
  BY DEF vars, fragVars, funcVars, handVars, outVars
<1>2. /\ FragTypes /\ BlockTypes /\ OutTypes
      /\ FragsOpened /\ RelaxInv /\ FixupsSerial
      /\ Unrelaxed /\ (phase = "read" => HandEnd)
  BY BBParts
<1>3. FragTypes' /\ FragsOpened'
  BY <1>1, <1>2 DEF FragTypes, FragsOpened
<1>4. BlockTypes' /\ OutTypes'
  BY <1>1, <1>2 DEF BlockTypes, OutTypes
<1>5. \A b : Late(b)' = Late(b) /\ Leaving(b)' = Leaving(b)
  BY <1>1 DEF Late, Leaving
<1>6. SizesAddUp' /\ FixesOfOwnBlock'
  BY <1>1, <1>2, <1>5 DEF RelaxInv, SizesAddUp, FixesOfOwnBlock
<1>7. BlocksNamed' /\ TailBegun' /\ StartsRecorded' /\ HandBlocksContiguous'
  BY <1>1, <1>2 DEF RelaxInv, BlocksNamed, TailBegun, StartsRecorded,
                    HandBlocksContiguous, tail
<1>8. FixupsSerial' /\ Unrelaxed' /\ (phase' = "read" => HandEnd')
  BY <1>1, <1>2 DEF FixupsSerial, Unrelaxed, HandEnd, tail
<1> QED BY <1>3, <1>4, <1>6, <1>7, <1>8, BBAfter DEF RelaxInv

LEMMA EndOfFileSafe ==
  ASSUME BBSafe, NEW out \in SUBSET branches, EndOfFile(out)
  PROVE  BBSafe'
<1>1. /\ phase = "read" /\ phase' = "convert" /\ far' = out
      /\ UNCHANGED <<fr_fix, fr_sec, branches, last_bb, nfrags, frag_now,
                     now_seg>>
      /\ UNCHANGED <<mbbs, real, jumpOf>>
      /\ UNCHANGED <<cur_function_id, cur_function_end_id>>
      /\ UNCHANGED <<bbinfo_handwritten_file, handwritten_bbinfo_func_name,
                     bbinfo_last_frag, bbinfo_last_inst_offset,
                     bbinfo_last_inst_size>>
      /\ UNCHANGED <<fixups, converted>>
  BY DEF EndOfFile, fragVars, funcVars, handVars
<1>2. /\ FragTypes /\ BlockTypes /\ OutTypes
      /\ FragsOpened /\ RelaxInv /\ FixupsSerial
  BY BBParts
<1>3. converted = {}
  BY <1>1, IntoReading
<1>4. FragTypes' /\ FragsOpened'
  BY <1>1, <1>2 DEF FragTypes, FragsOpened
<1>5. BlockTypes' /\ OutTypes'
  BY <1>1, <1>2 DEF BlockTypes, OutTypes, FragTypes
<1>6. \A b : /\ Late(b)' = {} /\ Leaving(b)' = {}
             /\ Late(b) = {} /\ Leaving(b) = {}
  BY <1>1, <1>3 DEF Late, Leaving
<1>7. SizesAddUp' /\ FixesOfOwnBlock'
  BY <1>1, <1>2, <1>6 DEF RelaxInv, SizesAddUp, FixesOfOwnBlock
<1>8. BlocksNamed' /\ TailBegun' /\ StartsRecorded' /\ HandBlocksContiguous'
  BY <1>1, <1>2 DEF RelaxInv, BlocksNamed, TailBegun, StartsRecorded,
                    HandBlocksContiguous, tail
<1>9. FixupsSerial' /\ Unrelaxed'
  BY <1>1, <1>2 DEF FixupsSerial, Unrelaxed
<1> QED BY <1>1, <1>4, <1>5, <1>7, <1>8, <1>9, BBAfter DEF RelaxInv

\* One jump more has its displacement.
LEMMA OneMore ==
  ASSUME NEW S, IsFiniteSet(S), NEW f, f \notin S, NEW T,
         T = S \/ T = S \cup {f}
  PROVE  /\ Cardinality(S) \in Nat
         /\ Cardinality(T) = Cardinality(S) + (IF f \in T THEN 1 ELSE 0)
<1>1. Cardinality(S) \in Nat
  BY FS_CardinalityType
<1>2. Cardinality(S \cup {f}) = Cardinality(S) + 1
  BY FS_AddElement
<1>3. CASE T = S
  BY <1>1, <1>3
<1>4. CASE T = S \cup {f}
  <2>1. f \in T /\ Cardinality(T) = Cardinality(S \cup {f})
    BY <1>4
  <2>2. Cardinality(T) = Cardinality(S) + 1
    BY <2>1, <1>2, Zenon
  <2> QED BY <2>1, <2>2, <1>1
<1> QED BY <1>1, <1>3, <1>4

LEMMA LateGrows ==
  ASSUME OutTypes, jumpOf' = jumpOf, far' = far, NEW f \in FragId,
         f \notin converted, converted' = converted \cup {f}, NEW j
  PROVE  /\ Cardinality(Late(j)) \in Nat /\ Cardinality(Leaving(j)) \in Nat
         /\ Cardinality(Late(j)') =
              Cardinality(Late(j)) + (IF jumpOf[f] = j THEN 1 ELSE 0)
         /\ Cardinality(Leaving(j)') =
              Cardinality(Leaving(j))
                + (IF jumpOf[f] = j /\ f \in far THEN 1 ELSE 0)
<1> DEFINE S == Late(j)
           T == Late(j)'
           U == Leaving(j)
           V == Leaving(j)'
<1>1. IsFiniteSet(FragId)
  BY FS_Interval DEF FragId
<1>2. S \subseteq FragId /\ U \subseteq FragId
  BY DEF OutTypes, Late, Leaving
<1>3. IsFiniteSet(S) /\ IsFiniteSet(U)
  BY <1>1, <1>2, FS_Subset
<1>4. /\ f \notin S /\ f \notin U
      /\ T = (IF jumpOf[f] = j THEN S \cup {f} ELSE S)
      /\ f \in T <=> jumpOf[f] = j
  BY DEF Late, Leaving
<1>5. /\ V = (IF jumpOf[f] = j /\ f \in far THEN U \cup {f} ELSE U)
      /\ f \in V <=> jumpOf[f] = j /\ f \in far
  BY DEF Late, Leaving
<1> HIDE DEF S, T, U, V
<1>6. /\ Cardinality(S) \in Nat
      /\ Cardinality(T) = Cardinality(S) + (IF f \in T THEN 1 ELSE 0)
  BY <1>3, <1>4, OneMore
<1>7. /\ Cardinality(U) \in Nat
      /\ Cardinality(V) = Cardinality(U) + (IF f \in V THEN 1 ELSE 0)
  BY <1>3, <1>4, <1>5, OneMore
<1>8. /\ Cardinality(T) = Cardinality(S) + (IF jumpOf[f] = j THEN 1 ELSE 0)
      /\ Cardinality(V) = Cardinality(U)
                            + (IF jumpOf[f] = j /\ f \in far THEN 1 ELSE 0)
  BY <1>4, <1>5, <1>6, <1>7
<1> QED BY <1>6, <1>7, <1>8 DEF S, T, U, V

\* What a displacement changes: the jump's block counts m fixes, and its
\* history n; both are found by the same number, 0 when there is none.
DisplacedIn(f, b, m, n) ==
  /\ f \in FragId /\ f \notin converted /\ converted' = converted \cup {f}
  /\ b = jumpOf[f] /\ b \in Nat /\ b <= tail
  /\ m \in {0, 1} /\ n = m + (IF f \in far THEN 1 ELSE 0)
  /\ mbbs' = IF b = 0 THEN mbbs ELSE [mbbs EXCEPT ![b].num_fixs = @ + m]
  /\ real' = Relaxed(b, n)
  /\ UNCHANGED <<last_bb, branches, jumpOf, far, bbinfo_handwritten_file>>

LEMMA BlocksRelaxed ==
  ASSUME FragTypes, BlockTypes, OutTypes, RelaxInv,
         NEW f, NEW b, NEW m, NEW n, DisplacedIn(f, b, m, n)
  PROVE  RelaxInv' /\ mbbs' \in Seq(Block) /\ real' \in Seq(Real)
<1> DEFINE e == [mbbs[b] EXCEPT !.num_fixs = @ + m]
           r == [real[b] EXCEPT !.bytes = real[b].bytes + 1,
                                !.fixes = real[b].fixes + n]
<1>0. /\ b \in Nat /\ b <= tail /\ m \in Nat /\ n \in Nat
      /\ n = m + (IF f \in far THEN 1 ELSE 0) /\ b = jumpOf[f]
  BY DEF DisplacedIn
<1>1. /\ mbbs \in Seq(Block) /\ real \in Seq(Real) /\ Len(real) = Len(mbbs)
      /\ Len(mbbs) \in Nat /\ tail = Len(mbbs)
      /\ DOMAIN mbbs = 1 .. Len(mbbs)
  BY DEF BlockTypes, RelaxInv, BlocksNamed, tail
<1>2. ASSUME b \in 1 .. Len(mbbs)
      PROVE  /\ e \in Block /\ r \in Real
             /\ e.num_fixs = mbbs[b].num_fixs + m
             /\ r.fixes = real[b].fixes + n /\ r.bytes = real[b].bytes + 1
             /\ e.size = mbbs[b].size /\ e.is_begin = mbbs[b].is_begin
             /\ e.offset = mbbs[b].offset
             /\ e.parent_frag = mbbs[b].parent_frag
             /\ r.start = real[b].start
             /\ r.end = real[b].end /\ r.gap = real[b].gap
             /\ r.stray = real[b].stray
  <2>1. mbbs[b] \in Block /\ real[b] \in Real
    BY <1>1, <1>2
  <2>2. e = [mbbs[b] EXCEPT !.num_fixs = @ + m]
        /\ r = [real[b] EXCEPT !.bytes = real[b].bytes + 1,
                               !.fixes = real[b].fixes + n]
    OBVIOUS
  <2> HIDE DEF e, r
  <2>3. /\ e \in Block /\ e.num_fixs = mbbs[b].num_fixs + m
        /\ e.size = mbbs[b].size /\ e.is_begin = mbbs[b].is_begin
        /\ e.offset = mbbs[b].offset /\ e.parent_frag = mbbs[b].parent_frag
    BY <2>1, <2>2, <1>0, CountFix
  <2>4. /\ r \in Real /\ r.fixes = real[b].fixes + n
        /\ r.bytes = real[b].bytes + 1 /\ r.start = real[b].start
        /\ r.end = real[b].end /\ r.gap = real[b].gap
        /\ r.stray = real[b].stray
    <3> DEFINE q == real[b]
               x == q.bytes + 1
               y == q.fixes + n
    <3>1. /\ q \in Real /\ n \in Nat
          /\ r = [q EXCEPT !.bytes = x, !.fixes = y]
      BY <2>1, <2>2, <1>0
    <3> HIDE DEF q
    <3>2. x \in Nat /\ y \in Nat
      BY <3>1 DEF Real
    <3> HIDE DEF x, y
    <3>3. /\ r \in Real /\ r.fixes = y /\ r.bytes = x
          /\ r.start = q.start /\ r.end = q.end /\ r.gap = q.gap
          /\ r.stray = q.stray
      BY <3>1, <3>2 DEF Real
    <3> QED BY <3>3 DEF q, x, y
  <2> QED BY <2>3, <2>4
<1>3. b = 0 \/ b \in 1 .. Len(mbbs)
  BY <1>0, <1>1
<1>4. /\ mbbs' \in Seq(Block) /\ Len(mbbs') = Len(mbbs)
      /\ \A j \in 1 .. Len(mbbs) : mbbs'[j] = IF j = b THEN e ELSE mbbs[j]
  <2>1. CASE b = 0
    BY <2>1, <1>1 DEF DisplacedIn
  <2>2. CASE b \in 1 .. Len(mbbs)
    <3>1. mbbs' = [mbbs EXCEPT ![b] = e]
      BY <2>2, <1>1 DEF DisplacedIn
    <3> HIDE DEF e
    <3> QED BY <3>1, <2>2, <1>1, <1>2, Replace
  <2> QED BY <2>1, <2>2, <1>3
<1>5. /\ real' \in Seq(Real) /\ Len(real') = Len(mbbs)
      /\ \A j \in 1 .. Len(mbbs) : real'[j] = IF j = b THEN r ELSE real[j]
  <2>1. CASE b = 0
    BY <2>1, <1>1 DEF DisplacedIn, Relaxed
  <2>2. CASE b \in 1 .. Len(mbbs)
    <3>1. real' = Relaxed(b, n) /\ b # 0
      BY <2>2, <1>1 DEF DisplacedIn
    <3>2. real' = [real EXCEPT ![b] = r]
      <4> DEFINE x == real[b].bytes + 1
                 y == real[b].fixes + n
      <4>1. real' = [real EXCEPT ![b].bytes = x, ![b].fixes = y]
        BY <3>1 DEF Relaxed
      <4>2. r = [real[b] EXCEPT !.bytes = x, !.fixes = y]
        OBVIOUS
      <4>3. DOMAIN real = 1 .. Len(mbbs)
        BY <1>1
      <4> HIDE DEF x, y, r
      <4> QED BY <4>1, <4>2, <4>3, <2>2
    <3> HIDE DEF r
    <3> QED BY <3>2, <2>2, <1>1, <1>2, Replace
  <2> QED BY <2>1, <2>2, <1>3
<1> HIDE DEF e, r
<1>6. tail' = tail /\ DOMAIN mbbs' = 1 .. Len(mbbs)
  BY <1>1, <1>4 DEF tail
<1>7. \A j \in 1 .. Len(mbbs) :
        /\ mbbs'[j].size = mbbs[j].size /\ mbbs'[j].is_begin = mbbs[j].is_begin
        /\ mbbs'[j].offset = mbbs[j].offset
        /\ mbbs'[j].parent_frag = mbbs[j].parent_frag
        /\ real'[j].start = real[j].start
        /\ real'[j].gap = real[j].gap
        /\ real'[j].stray = real[j].stray
  BY <1>2, <1>4, <1>5
<1>8. \A j \in 1 .. Len(mbbs) :
        /\ j = b => /\ mbbs'[j].num_fixs = mbbs[j].num_fixs + m
                    /\ real'[j].fixes = real[j].fixes + n
                    /\ real'[j].bytes = real[j].bytes + 1
        /\ j # b => /\ mbbs'[j].num_fixs = mbbs[j].num_fixs
                    /\ real'[j].fixes = real[j].fixes
                    /\ real'[j].bytes = real[j].bytes
  BY <1>2, <1>4, <1>5
<1>9. BlocksNamed'
  BY <1>1, <1>5, <1>6 DEF RelaxInv, BlocksNamed, DisplacedIn
<1>10. tail > 0 => tail \in 1 .. Len(mbbs)
  BY <1>1
<1>11. TailBegun'
  BY <1>6, <1>7, <1>10 DEF RelaxInv, TailBegun
<1>12. StartsRecorded' /\ HandBlocksContiguous'
  <2>1. StartsRecorded'
    BY <1>1, <1>6, <1>7 DEF RelaxInv, StartsRecorded
  <2>2. bbinfo_handwritten_file' = bbinfo_handwritten_file
    BY DEF DisplacedIn
  <2>3. HandBlocksContiguous'
    BY <2>2, <1>1, <1>6, <1>7 DEF RelaxInv, HandBlocksContiguous
  <2> QED BY <2>1, <2>3
<1>13. ASSUME NEW j \in 1 .. Len(mbbs)
       PROVE  /\ mbbs'[j].size + Cardinality(Late(j)') = real'[j].bytes
              /\ ~real'[j].stray =>
                   mbbs'[j].num_fixs + Cardinality(Leaving(j)')
                     = real'[j].fixes
  <2> DEFINE late  == Cardinality(Late(j))
             left  == Cardinality(Leaving(j))
             late1 == Cardinality(Late(j)')
             left1 == Cardinality(Leaving(j)')
  <2>1. /\ late \in Nat /\ left \in Nat
        /\ late1 = late + (IF jumpOf[f] = j THEN 1 ELSE 0)
        /\ left1 = left + (IF jumpOf[f] = j /\ f \in far THEN 1 ELSE 0)
    BY LateGrows DEF DisplacedIn
  <2>2. /\ mbbs[j].size \in Nat /\ mbbs[j].num_fixs \in Nat
        /\ real[j].bytes \in Nat /\ real[j].fixes \in Nat
    BY <1>1, Numbers DEF RelaxInv
  <2>3. /\ mbbs[j].size + late = real[j].bytes
        /\ ~real[j].stray => mbbs[j].num_fixs + left = real[j].fixes
    BY <1>1 DEF RelaxInv, SizesAddUp, FixesOfOwnBlock
  <2> HIDE DEF late, left, late1, left1
  <2>4. CASE j = b
    <3>1. /\ late1 = late + 1
          /\ left1 = left + (IF f \in far THEN 1 ELSE 0)
      BY <2>1, <2>4, <1>0
    <3> DEFINE x == IF f \in far THEN 1 ELSE 0
               s0 == mbbs[j].size
               n0 == mbbs[j].num_fixs
               b0 == real[j].bytes
               f0 == real[j].fixes
    <3>a. x \in Nat /\ n = m + x /\ m \in Nat /\ left1 = left + x
      BY <3>1, <1>0
    <3>b. /\ mbbs'[j].size = s0 /\ mbbs'[j].num_fixs = n0 + m
          /\ real'[j].fixes = f0 + n /\ real'[j].bytes = b0 + 1
      BY <2>4, <1>7, <1>8
    <3>c. /\ s0 \in Nat /\ n0 \in Nat /\ b0 \in Nat /\ f0 \in Nat
          /\ s0 + late = b0 /\ late \in Nat /\ left \in Nat
      BY <2>1, <2>2, <2>3
    <3>d. (s0 + late) + 1 = s0 + late1
      <4> HIDE DEF s0, b0
      <4> QED BY <3>1, <3>c
    <3>e. n0 + left = f0 => (n0 + m) + left1 = f0 + n
      <4> HIDE DEF x, n0, f0
      <4> QED BY <3>a, <3>c
    <3>2. mbbs'[j].size + late1 = real'[j].bytes
      BY <3>b, <3>c, <3>d
    <3>3. mbbs[j].num_fixs + left = real[j].fixes =>
            mbbs'[j].num_fixs + left1 = real'[j].fixes
      BY <3>b, <3>e
    <3> HIDE DEF x, s0, n0, b0, f0
    <3> QED BY <2>3, <3>2, <3>3, <1>7 DEF late1, left1
  <2>5. CASE j # b
    <3>1. late1 = late /\ left1 = left
      BY <2>1, <2>5, <1>0
    <3> QED BY <2>3, <2>5, <3>1, <1>7, <1>8 DEF late1, left1
  <2> QED BY <2>4, <2>5
<1>14. SizesAddUp' /\ FixesOfOwnBlock'
  BY <1>6, <1>13 DEF SizesAddUp, FixesOfOwnBlock
<1> QED BY <1>4, <1>5, <1>9, <1>11, <1>12, <1>14 DEF RelaxInv

\* A jump that is not counted changes no block.
LEMMA NoFixMore ==
  ASSUME BlockTypes, NEW b \in Nat, b <= tail
  PROVE  mbbs = IF b = 0 THEN mbbs ELSE [mbbs EXCEPT ![b].num_fixs = @ + 0]
<1>1. CASE b # 0
  <2>1. mbbs \in Seq(Block) /\ DOMAIN mbbs = 1 .. Len(mbbs)
        /\ b \in 1 .. Len(mbbs)
    BY <1>1, LenProperties DEF BlockTypes, tail
  <2>2. mbbs[b] \in Block
    BY <2>1
  <2>3. [mbbs[b] EXCEPT !.num_fixs = @ + 0] = mbbs[b]
    BY <2>2 DEF Block
  <2>4. [mbbs EXCEPT ![b] = mbbs[b]] = mbbs
    BY <2>1
  <2>5. [mbbs EXCEPT ![b].num_fixs = @ + 0]
          = [mbbs EXCEPT ![b] = [mbbs[b] EXCEPT !.num_fixs = @ + 0]]
    OBVIOUS
  <2> QED BY <1>1, <2>3, <2>4, <2>5
<1> QED BY <1>1

\* Both ways a jump gets its displacement.
LEMMA DisplaceSafe ==
  ASSUME BBSafe, NEW f \in FragId, Estimate(f) \/ Convert(f)
  PROVE  BBSafe'
<1>1. /\ FragTypes /\ BlockTypes /\ OutTypes
      /\ FragsOpened /\ RelaxInv /\ FixupsSerial /\ far \subseteq branches
  BY BBParts DEF Unrelaxed
<1>2. /\ f \notin converted /\ converted' = converted \cup {f}
      /\ phase = "convert" /\ phase' = phase
      /\ fr_fix' = [fr_fix EXCEPT ![f] = @ + 1]
      /\ UNCHANGED <<fr_sec, branches, last_bb, nfrags, frag_now, now_seg>>
      /\ UNCHANGED <<jumpOf, far>>
      /\ UNCHANGED funcVars /\ UNCHANGED handVars
  BY DEF Estimate, Convert, Displace
<1>3. f \in branches
  BY <1>1 DEF Estimate, Convert, Displace
<1>4. /\ last_bb[f] \in Nat /\ last_bb[f] <= tail /\ jumpOf[f] = last_bb[f]
      /\ f <= nfrags /\ fr_sec[f] \in Secs /\ f \in Nat
  BY <1>1, <1>3, FragIds DEF FragTypes, RelaxInv, BlocksNamed, FragsOpened
<1>5. FragTypes' /\ FragsOpened'
  <2>1. fr_fix' \in [FragId -> Nat]
    <3>1. fr_fix \in [FragId -> Nat]
      BY <1>1 DEF FragTypes
    <3>2. fr_fix[f] \in Nat
      BY <3>1
    <3>3. fr_fix[f] + 1 \in Nat
      BY <3>2
    <3> QED BY <3>1, <3>3, <1>2
  <2>2. \A x \in FragId : x > nfrags => fr_fix'[x] = 0
    <3>1. \A x \in FragId : x > nfrags => x # f /\ fr_fix[x] = 0
      <4>1. nfrags \in Nat
        BY <1>1, FragIds DEF FragTypes
      <4> QED BY <4>1, <1>1, <1>4, FragIds DEF FragsOpened
    <3> QED BY <3>1, <1>1, <1>2 DEF FragTypes
  <2>3. bbinfo_last_frag' = bbinfo_last_frag
    BY <1>2 DEF handVars
  <2> QED BY <2>1, <2>2, <2>3, <1>1, <1>2 DEF FragTypes, FragsOpened
<1>6. RelaxInv' /\ mbbs' \in Seq(Block) /\ real' \in Seq(Real)
  <2> DEFINE b == jumpOf[f]
  <2>1. /\ f \in FragId /\ f \notin converted /\ converted' = converted \cup {f}
        /\ b = jumpOf[f] /\ b \in Nat /\ b <= tail
        /\ UNCHANGED <<last_bb, branches, jumpOf, far, bbinfo_handwritten_file>>
    BY <1>2, <1>4 DEF handVars
  <2>2. CASE Estimate(f)
    <3>1. f \in far /\ mbbs' = mbbs /\ real' = Relaxed(b, 1)
      BY <2>2 DEF Estimate, Displace
    <3>2. mbbs' = IF b = 0 THEN mbbs ELSE [mbbs EXCEPT ![b].num_fixs = @ + 0]
      BY <3>1, <2>1, <1>1, NoFixMore
    <3>3. DisplacedIn(f, b, 0, 1)
      <4> HIDE DEF b
      <4>1. 0 \in {0, 1} /\ 1 = 0 + (IF f \in far THEN 1 ELSE 0)
        BY <3>1
      <4> QED BY <2>1, <3>1, <3>2, <4>1 DEF DisplacedIn
    <3> QED BY <3>3, <1>1, BlocksRelaxed
  <2>3. CASE Convert(f)
    <3>1. f \notin far
      BY <2>3, <1>2 DEF Convert
    <3>2. CASE fr_sec[f] \in Collected
      <4>1. /\ mbbs' = IF b = 0 THEN mbbs
                       ELSE [mbbs EXCEPT ![b].num_fixs = @ + 1]
            /\ real' = Relaxed(b, 1)
        BY <2>3, <3>2, <1>4 DEF Convert
      <4>2. DisplacedIn(f, b, 1, 1)
        <5> HIDE DEF b
        <5>1. 1 \in {0, 1} /\ 1 = 1 + (IF f \in far THEN 1 ELSE 0)
          BY <3>1
        <5> QED BY <2>1, <4>1, <5>1 DEF DisplacedIn
      <4> QED BY <4>2, <1>1, BlocksRelaxed
    <3>3. CASE fr_sec[f] \notin Collected
      <4>1. mbbs' = mbbs /\ real' = Relaxed(b, 0)
        BY <2>3, <3>3 DEF Convert
      <4>2. mbbs' = IF b = 0 THEN mbbs ELSE [mbbs EXCEPT ![b].num_fixs = @ + 0]
        BY <4>1, <2>1, <1>1, NoFixMore
      <4>3. DisplacedIn(f, b, 0, 0)
        <5> HIDE DEF b
        <5>1. 0 \in {0, 1} /\ 0 = 0 + (IF f \in far THEN 1 ELSE 0)
          BY <3>1
        <5> QED BY <2>1, <4>1, <4>2, <5>1 DEF DisplacedIn
      <4> QED BY <4>3, <1>1, BlocksRelaxed
    <3> QED BY <3>2, <3>3
  <2> QED BY <2>2, <2>3
<1>7. BlockTypes'
  BY <1>1, <1>2, <1>6 DEF BlockTypes, funcVars, handVars
<1>8. fixups' \in Seq(Fixup) /\ Serial(fixups')
  <2>1. fixups \in Seq(Fixup) /\ Serial(fixups)
    BY <1>1 DEF OutTypes, Fixup, FixupsSerial, Serial
  <2>2. CASE Convert(f) /\ fr_sec[f] \in Collected
    <3>1. fixups' = bbinfo_init_insert_fixup(fixups, fr_sec[f], f)
      BY <2>2 DEF Convert
    <3> QED BY <3>1, <2>1, <1>4, InsertSerial
  <2>3. CASE Estimate(f) \/ fr_sec[f] \notin Collected
    <3>1. fixups' = fixups
      BY <2>3 DEF Convert, Estimate
    <3> QED BY <2>1, <3>1
  <2> QED BY <2>2, <2>3
<1>9. OutTypes'
  BY <1>1, <1>2, <1>8 DEF OutTypes, Fixup
<1>10. FixupsSerial'
  BY <1>8 DEF FixupsSerial, Serial
<1>11. Unrelaxed' /\ phase' # "read"
  BY <1>1, <1>2 DEF Unrelaxed
<1> QED BY <1>5, <1>6, <1>7, <1>9, <1>10, <1>11, BBAfter

----------------------------------------------------------------------------
(***************************************************************************)
(* The theorems.                                                           *)
(***************************************************************************)

LEMMA InitBBSafe == Init => BBSafe
<1> SUFFICES ASSUME Init PROVE BBSafe
  OBVIOUS
<1>1. /\ FragTypes /\ BlockTypes /\ OutTypes
      /\ FragsOpened /\ BlockInv /\ FixupsSerial
  BY InitReadSafe, SafeParts
<1>2. far = {} /\ converted = {} /\ DOMAIN mbbs = {}
  BY DEF Init
<1>3. SizesAddUp /\ FixesOfOwnBlock /\ Unrelaxed
  BY <1>2 DEF SizesAddUp, FixesOfOwnBlock, Unrelaxed
<1> QED BY <1>1, <1>3, BBParts DEF BlockInv, RelaxInv

\* A step that reads a statement.
LEMMA ReadingSafe ==
  ASSUME BBSafe, Read, UNCHANGED outVars, ReadSafe => ReadSafe'
  PROVE  BBSafe'
<1>1. ReadSafe /\ far = {} /\ converted = {}
  BY IntoReading DEF Read
<1> QED BY <1>1, OutOfReading DEF outVars

LEMMA NextBBSafe ==
  ASSUME BBSafe, [Next]_vars
  PROVE  BBSafe'
<1>1. CASE UNCHANGED vars
  BY <1>1, UnchangedSafe
<1>2. CASE Next
  <2>1. 1 \in Nat /\ \A g \in 0 .. MaxGrow : g \in Nat
    OBVIOUS
  <2>2. ASSUME NEW g \in 0 .. MaxGrow, Data(g) PROVE BBSafe'
    <3>1. Read /\ UNCHANGED outVars
      BY <2>2 DEF Data
    <3> QED BY <2>1, <2>2, <3>1, DataSafe, ReadingSafe
  <2>3. CASE Align
    <3>1. Read /\ UNCHANGED outVars
      BY <2>3 DEF Align
    <3> QED BY <2>1, <2>3, <3>1, DataSafe, ReadingSafe
  <2>4. ASSUME NEW s \in Secs, SwitchSection(s) PROVE BBSafe'
    <3>1. Read /\ UNCHANGED outVars
      BY <2>4 DEF SwitchSection
    <3> QED BY <2>4, <3>1, SwitchSafe, ReadingSafe
  <2>5. ASSUME NEW f \in Funcs, TypeFunction(f) \/ Size(f) PROVE BBSafe'
    <3>1. Read /\ UNCHANGED outVars
      BY <2>5 DEF TypeFunction, Size
    <3> QED BY <2>5, <3>1, TypeFunctionSafe, SizeSafe, ReadingSafe
  <2>6. CASE FuncB \/ FuncE
    <3>1. Read /\ UNCHANGED outVars
      BY <2>6 DEF FuncB, FuncE
    <3> QED BY <2>6, <3>1, FuncBSafe, FuncESafe, ReadingSafe
  <2>7. ASSUME NEW fall \in {0, 1}, BB(fall) \/ BE(fall) PROVE BBSafe'
    <3>1. Read /\ UNCHANGED outVars
      BY <2>7 DEF BB, BE
    <3> QED BY <2>7, <3>1, BBDirectiveSafe, BESafe, ReadingSafe
  <2>8. ASSUME NEW k \in {"plain", "ref", "tlscall", "branch"},
               NEW g1 \in 0 .. MaxGrow, NEW g2 \in 0 .. MaxGrow,
               Insn(k, g1, g2)
        PROVE  BBSafe'
    <3>1. Read /\ UNCHANGED outVars
      BY <2>8 DEF Insn
    <3> QED BY <2>8, <3>1, InsnSafe, ReadingSafe
  <2>9. ASSUME NEW out \in SUBSET branches, EndOfFile(out) PROVE BBSafe'
    BY <2>9, EndOfFileSafe
  <2>10. ASSUME NEW f \in FragId, Estimate(f) \/ Convert(f) PROVE BBSafe'
    BY <2>10, DisplaceSafe
  <2>11. CASE Done
    BY <2>11, UnchangedSafe DEF Done
  <2> QED BY <1>2, <2>2, <2>3, <2>4, <2>5, <2>6, <2>7, <2>8, <2>9, <2>10,
             <2>11 DEF Next
<1> QED BY <1>1, <1>2

\* The types and the inductive invariant hold for every file, whatever its
\* sections, its statements and the frags it needs.
THEOREM BlocksAreSafe == Spec => []BBSafe
<1>1. Init => BBSafe
  BY InitBBSafe
<1>2. BBSafe /\ [Next]_vars => BBSafe'
  BY NextBBSafe
<1> QED BY <1>1, <1>2, PTL DEF Spec

\* The types of the state of bbInfoHandle.c.
THEOREM BBTypes == Spec => []BBTypeOK
<1>1. BBSafe => BBTypeOK
  BY DEF BBSafe
<1> QED BY <1>1, BlocksAreSafe, PTL

\* What output_insn adds to a block's size are the bytes of its instructions,
\* however many frags each needed; in the end the size is short of exactly the
\* displacements that relaxation gave the block's jumps.
THEOREM SizesAreExact == Spec => []SizesAddUp
<1>1. BBSafe => SizesAddUp
  BY DEF BBSafe, BBInv
<1> QED BY <1>1, BlocksAreSafe, PTL

\* A block with instructions has the frag and the offset of its first one.
THEOREM StartsAreExact == Spec => []StartsRecorded
<1>1. BBSafe => StartsRecorded
  BY DEF BBSafe, BBInv
<1> QED BY <1>1, BlocksAreSafe, PTL

\* The comparison with bbinfo_last_frag, _offset and _size keeps everything
\* but instructions out of the blocks of a hand-written file.
THEOREM HandBlocksHaveNoGaps == Spec => []HandBlocksContiguous
<1>1. BBSafe => HandBlocksContiguous
  BY DEF BBSafe, BBInv
<1> QED BY <1>1, BlocksAreSafe, PTL

\* num_fixs counts the fixes of the block's own instructions, those that
\* md_convert_frag finds by last_bb too, but for early TLS calls, and is short
\* of exactly the jumps md_estimate_size_before_relax fixes.
THEOREM FixesAreOwn == Spec => []FixesOfOwnBlock
<1>1. BBSafe => FixesOfOwnBlock
  BY DEF BBSafe, BBInv
<1> QED BY <1>1, BlocksAreSafe, PTL

\* bbinfo_init_insert_fixup keeps the list serial, section by section.
THEOREM FixupsAreSerial == Spec => []FixupsSerial
<1>1. BBSafe => FixupsSerial
  BY DEF BBSafe, BBInv
<1> QED BY <1>1, BlocksAreSafe, PTL
=============================================================================
