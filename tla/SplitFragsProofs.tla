-------------------------- MODULE SplitFragsProofs --------------------------
(***************************************************************************)
(* Proofs about the pointer loop of split_text_frags, for chains of every  *)
(* length and with every mark on their frags.  First the inductive         *)
(* invariant, about fr_next alone; then what it says of the sequences that *)
(* following fr_next gives; last, that the loop implements SplitSpec.      *)
(***************************************************************************)
EXTENDS SplitFrags, SetInduction, SequenceTheorems, TLAPS

USE SizesOK, NullOK

----------------------------------------------------------------------------
(***************************************************************************)
(* Chains.                                                                 *)
(***************************************************************************)

\* The frags of a chain have places between 1 and TAIL.
LEMMA Places ==
  \A f \in Frags : Place(f) \in 1 .. TAIL
BY DEF Place, Frags, TAIL

\* first and final are one frag of the chain S, or two in a row, behind prev,
\* or at the root when prev is null; next2 leads past them.
IsCut(next, next2, root, last, S, first, final, prev, after) ==
  /\ S \subseteq Frags /\ Linked(next, root, last, S)
  /\ first \in S /\ final \in S /\ after \in S /\ final # last
  /\ next[final] = after /\ (first = final \/ next[first] = final)
  /\ IF prev = NULL THEN root = first
     ELSE prev \in S /\ next[prev] = first
  /\ \A f \in S \ {first, final} :
       next2[f] = IF f = prev THEN after ELSE next[f]

\* Taking them out leaves a chain.
LEMMA CutOut ==
  ASSUME NEW S, NEW next, NEW next2, NEW root, NEW last, NEW first, NEW final,
         NEW prev, NEW after,
         IsCut(next, next2, root, last, S, first, final, prev, after)
  PROVE  Linked(next2, IF prev = NULL THEN after ELSE root, last,
                S \ {first, final})
<1> DEFINE T == S \ {first, final}
           r == IF prev = NULL THEN after ELSE root
<1> USE DEF IsCut
<1>1. \A f \in S : Place(f) \in Nat
  BY Places DEF Frags, TAIL
<1>2. first # last /\ Place(first) <= Place(final)
  BY <1>1 DEF Linked
<1>3. after \in T /\ last \in T /\ Place(final) < Place(after)
  BY <1>1, <1>2 DEF Linked
<1>4. prev # NULL => prev \in T /\ prev # last
  BY <1>1, <1>2 DEF Linked
<1>5. next2[last] = NULL
  BY <1>3, <1>4 DEF Linked
<1>6. r \in T
  BY <1>1, <1>2, <1>3, <1>4 DEF Linked
<1>7. ASSUME NEW f \in T \ {last}
      PROVE  next2[f] \in T \ {r} /\ Place(f) < Place(next2[f])
  <2>1. CASE f = prev
    BY <2>1, <1>1, <1>2, <1>3, <1>4 DEF Linked
  <2>2. CASE f # prev
    BY <2>2, <1>1, <1>2, <1>3, <1>4 DEF Linked
  <2> QED BY <2>1, <2>2
<1>8. ASSUME NEW f \in T \ {r}
      PROVE  \E p \in T \ {last} : next2[p] = f
  <2>1. CASE f = after
    BY <2>1, <1>3, <1>4
  <2>2. CASE f # after
    <3>1. f # root
      BY <2>2
    <3>2. PICK p \in S \ {last} : next[p] = f
      BY <3>1 DEF Linked
    <3>3. p \notin {first, final, prev}
      BY <3>2, <2>2
    <3> QED BY <3>2, <3>3
  <2> QED BY <2>1, <2>2
<1>9. ASSUME NEW f \in T \ {last}, NEW g \in T \ {last}, next2[f] = next2[g]
      PROVE  f = g
  BY <1>9, <1>2, <1>3 DEF Linked
<1> QED BY <1>3, <1>5, <1>6, <1>7, <1>8, <1>9 DEF Linked

\* Appending one frag, or two in a row, behind the last of a chain.
LEMMA AppendTo ==
  ASSUME NEW S, S \subseteq Frags, NEW next, NEW next2, NEW root, NEW last,
         Linked(next, root, last, S),
         NEW first \in Frags \ S, NEW final \in Frags \ S,
         \A f \in S \ {last} : next2[f] = next[f],
         next2[last] = first, next2[final] = NULL,
         first = final \/ (next2[first] = final /\ Place(first) < Place(final)),
         \A f \in S : Place(f) < Place(first)
  PROVE  Linked(next2, root, final, S \cup {first, final})
<1> DEFINE T == S \cup {first, final}
<1>1. \A f \in T : Place(f) \in Nat
  BY Places DEF Frags, TAIL
<1>2. NULL \notin T /\ root \in S /\ last \in S /\ final \notin S
      /\ first \notin S
  BY DEF Linked
<1>3. ASSUME NEW f \in T \ {final}
      PROVE  next2[f] \in T \ {root} /\ Place(f) < Place(next2[f])
  BY <1>2 DEF Linked
<1>4. ASSUME NEW f \in T \ {root}
      PROVE  \E p \in T \ {final} : next2[p] = f
  <2>1. CASE f \in S
    <3>1. PICK p \in S \ {last} : next[p] = f
      BY <2>1 DEF Linked
    <3> QED BY <3>1, <1>2
  <2>2. CASE f = first
    BY <2>2, <1>2
  <2>3. CASE f = final
    BY <2>3, <1>2
  <2> QED BY <2>1, <2>2, <2>3
<1>5. ASSUME NEW f \in T \ {final}, NEW g \in T \ {final}, next2[f] = next2[g]
      PROVE  f = g
  BY <1>2, <1>5 DEF Linked
<1> QED BY <1>2, <1>3, <1>4, <1>5 DEF Linked

----------------------------------------------------------------------------
(***************************************************************************)
(* The loop.                                                               *)
(***************************************************************************)

LEMMA InitLoopInv == Init => LoopInv
<1> SUFFICES ASSUME Init PROVE LoopInv
  OBVIOUS
<1>1. /\ curr_frag = 1 /\ text_root = 1 /\ xom_root = N + 1
      /\ xom_last = N + XLen /\ prev_frag = NULL /\ pc = "loop"
      /\ text_last = N /\ xom_syms = {}
  BY DEF Init
<1>2. Gone = {} /\ Left = 1 .. N /\ Xom = (N + 1) .. (N + XLen)
  BY <1>1 DEF Gone, Left, Xom, TAIL
<1>3. fr_next = [f \in Frags |-> IF f \in {N, N + XLen, TAIL} THEN NULL
                                 ELSE f + 1]
  BY DEF Init
<1>4. LoopTypeOK
  <2>1. kind \in [Frags -> Kinds] /\ \A f \in N .. TAIL : kind[f] = "empty"
    BY DEF Init, Frags, TAIL
  <2>2. align_code \subseteq 1 .. N - 1
    BY DEF Init
  <2>3. fr_next \in [Frags -> Frags \cup {NULL}]
    BY <1>3 DEF Frags, TAIL
  <2> QED BY <1>1, <2>1, <2>2, <2>3 DEF LoopTypeOK
<1>5. AtCurrent /\ AtEnd
  BY <1>1, <1>3 DEF AtCurrent, AtEnd, Frags, TAIL
<1>6. Linked(fr_next, 1, N, 1 .. N)
  <2>1. \A f \in (1 .. N) \ {N} : fr_next[f] = f + 1
    BY <1>3 DEF Frags, TAIL
  <2>2. \A f \in 1 .. N : Place(f) = XLen + f
    BY DEF Place
  <2>3. \A f \in (1 .. N) \ {1} : f - 1 \in (1 .. N) \ {N}
                                /\ fr_next[f - 1] = f
    BY <2>1
  <2>4. fr_next[N] = NULL
    BY <1>3 DEF Frags, TAIL
  <2> QED BY <2>1, <2>2, <2>3, <2>4 DEF Linked
<1>7. Linked(fr_next, N + 1, N + XLen, (N + 1) .. (N + XLen))
  <2> DEFINE S == (N + 1) .. (N + XLen)
  <2>1. \A f \in S \ {N + XLen} : fr_next[f] = f + 1
    BY <1>3 DEF Frags, TAIL
  <2>2. \A f \in S : Place(f) = f - N
    BY DEF Place, TAIL
  <2>3. \A f \in S \ {N + 1} : f - 1 \in S \ {N + XLen} /\ fr_next[f - 1] = f
    BY <2>1
  <2>4. fr_next[N + XLen] = NULL
    BY <1>3 DEF Frags, TAIL
  <2> QED BY <2>1, <2>2, <2>3, <2>4 DEF Linked
<1> QED BY <1>1, <1>2, <1>4, <1>5, <1>6, <1>7 DEF LoopInv

LEMMA TailIn == TAIL \in Nat /\ N \in N .. TAIL
BY DEF TAIL

\* What the sets of frags have in common.
LEMMA SetsOfFrags ==
  ASSUME LoopInv
  PROVE  /\ Left \subseteq Frags /\ Xom \subseteq Frags
         /\ NULL \notin Left /\ NULL \notin Xom
         /\ Left \cap Xom = {}
         /\ curr_frag .. N \subseteq Left
         /\ fr_next[N] = NULL
         /\ xom_last \in Xom /\ xom_last # NULL
BY DEF LoopInv, LoopTypeOK, Linked, Left, Xom, Gone, Frags, TAIL

\* A pass that unlinks the frags from curr_frag to final, one or two.
LEMMA MovedOn ==
  ASSUME LoopInv, pc = "loop", NEW final \in {curr_frag, curr_frag + 1},
         final < N, kind[final] = "data",
         final # curr_frag => kind[curr_frag] = "align",
         Unlink(curr_frag, final, fr_next[final]),
         curr_frag' = fr_next[final], text_last' = N,
         UNCHANGED <<attrs, prev_frag, pc>>
  PROVE  LoopInv'
<1> DEFINE c == curr_frag
           G == {c, final}
<1>0. c \in 1 .. N /\ final \in 1 .. N /\ N \in Nat
  BY DEF LoopInv, LoopTypeOK
<1>1. fr_next[final] = final + 1 /\ (final # c => fr_next[c] = final)
  BY <1>0 DEF LoopInv, AtCurrent
<1>2. curr_frag' = final + 1 /\ kind' = kind /\ align_code' = align_code
      /\ pc' = pc /\ prev_frag' = prev_frag
  BY <1>1 DEF attrs
<1>3. Movable(c) /\ Movable(final)
  BY <1>0 DEF Movable
<1>4. \A f : Movable(f)' = Movable(f)
  BY <1>2 DEF Movable
<1>5. Gone' = Gone \cup G /\ Gone \cap G = {}
  BY <1>0, <1>2, <1>3, <1>4 DEF Gone
<1>6. Left' = Left \ G
  BY <1>5 DEF Left
<1>7. xom_last \in Xom /\ xom_last # NULL /\ xom_last # TAIL
      /\ xom_last \in Frags
  BY SetsOfFrags DEF LoopInv, AtEnd
<1>8. xom_last' = final /\ final # TAIL
  BY <1>0 DEF Unlink, TAIL
<1>9. Xom' = Xom \cup G
  BY <1>5, <1>7, <1>8 DEF Xom
<1>10. fr_next' = [Cut(final, final + 1) EXCEPT ![xom_last] = c]
       /\ xom_root' = xom_root
       /\ text_root' = IF prev_frag = NULL THEN final + 1 ELSE text_root
  BY <1>1, <1>7 DEF Unlink
<1>11. G \subseteq Left /\ final + 1 \in Left /\ final + 1 \in Frags
  BY <1>0, SetsOfFrags DEF Frags, TAIL
<1>12. prev_frag = NULL \/ (prev_frag \in Left /\ prev_frag < c)
  BY DEF LoopInv, AtCurrent
<1>13. \A f \in Frags :
         fr_next'[f] = IF f = xom_last THEN c
                       ELSE IF f = prev_frag THEN final + 1
                       ELSE IF f = final THEN NULL ELSE fr_next[f]
  BY <1>10 DEF Cut
<1>14. fr_next' \in [Frags -> Frags \cup {NULL}]
  <2>1. fr_next \in [Frags -> Frags \cup {NULL}]
    BY DEF LoopInv, LoopTypeOK
  <2>2. c \in Frags
    BY <1>0 DEF Frags, TAIL
  <2> QED BY <2>1, <2>2, <1>10, <1>11 DEF Cut
<1>15. xom_last \notin Left
  BY <1>7, SetsOfFrags
<1>16. LoopTypeOK'
  BY <1>0, <1>2, <1>14 DEF LoopInv, LoopTypeOK
<1>17. Linked(fr_next', text_root', N, Left')
  <2>1. \A f \in Left \ G :
          fr_next'[f] = IF f = prev_frag THEN final + 1 ELSE fr_next[f]
    BY <1>13, <1>15, SetsOfFrags
  <2>2. IF prev_frag = NULL THEN text_root = c
        ELSE prev_frag \in Left /\ fr_next[prev_frag] = c
    BY DEF LoopInv, AtCurrent
  <2>3. Linked(fr_next, text_root, N, Left) /\ Left \subseteq Frags
    BY SetsOfFrags DEF LoopInv
  <2>4. c \in Left /\ final \in Left /\ final # N
        /\ (c = final \/ fr_next[c] = final)
    BY <1>0, <1>1, <1>11
  <2>5. Linked(fr_next', IF prev_frag = NULL THEN final + 1 ELSE text_root, N,
               Left \ {c, final})
    <3>1. IsCut(fr_next, fr_next', text_root, N, Left, c, final, prev_frag,
                final + 1)
      BY <1>1, <1>11, <2>1, <2>2, <2>3, <2>4 DEF IsCut
    <3> QED BY <3>1, CutOut, Zenon
  <2> QED BY <2>5, <1>6, <1>10
<1>18. Linked(fr_next', xom_root', xom_last', Xom')
  <2>1. \A f \in Xom \ {xom_last} : fr_next'[f] = fr_next[f]
    BY <1>11, <1>12, <1>13, SetsOfFrags
  <2>2. fr_next'[xom_last] = c /\ fr_next'[final] = NULL
    BY <1>7, <1>11, <1>12, <1>13, <1>15, <1>0, SetsOfFrags
  <2>3. c = final \/ (fr_next'[c] = final /\ Place(c) < Place(final))
    <3>1. SUFFICES ASSUME c # final PROVE fr_next'[c] = final
                                          /\ Place(c) < Place(final)
      OBVIOUS
    <3>2. fr_next'[c] = fr_next[c]
      BY <3>1, <1>11, <1>12, <1>13, <1>15, <1>0, SetsOfFrags
    <3>3. Place(c) < Place(final)
      BY <3>1, <1>0 DEF Place
    <3> QED BY <3>1, <3>2, <3>3, <1>1
  <2>4. \A f \in Xom : Place(f) < Place(c)
    BY <1>0, <1>7 DEF Xom, Gone, Place, TAIL
  <2>5. c \in Frags \ Xom /\ final \in Frags \ Xom
    BY <1>11, SetsOfFrags
  <2>6. Linked(fr_next, xom_root, xom_last, Xom) /\ Xom \subseteq Frags
    BY SetsOfFrags DEF LoopInv
  <2>7. Linked(fr_next', xom_root, final, Xom \cup {c, final})
    BY <2>1, <2>2, <2>3, <2>4, <2>5, <2>6, AppendTo
  <2> QED BY <2>7, <1>8, <1>9, <1>10
<1>19. AtCurrent'
  <2>1. \A f \in final + 1 .. N - 1 : fr_next'[f] = f + 1
    <3> TAKE f \in final + 1 .. N - 1
    <3>1. f \in Left /\ f \in Frags /\ fr_next[f] = f + 1
      BY <1>0, SetsOfFrags DEF LoopInv, AtCurrent
    <3> QED BY <3>1, <1>0, <1>12, <1>13, <1>15
  <2>2. CASE prev_frag = NULL
    BY <2>1, <2>2, <1>2, <1>10 DEF AtCurrent
  <2>3. CASE prev_frag # NULL
    <3>1. prev_frag \in Left' /\ prev_frag < final + 1
      BY <2>3, <1>0, <1>6, <1>12 DEF Left
    <3>2. fr_next'[prev_frag] = final + 1
      BY <2>3, <1>12, <1>13, <1>15, SetsOfFrags
    <3> QED BY <2>1, <2>3, <3>1, <3>2, <1>2 DEF AtCurrent
  <2> QED BY <2>2, <2>3
<1>20. AtEnd'
  <2>1. TAIL \notin Left /\ TAIL \in Frags /\ TAIL # xom_last
    BY <1>7 DEF Left, TAIL, Frags
  <2>2. fr_next'[TAIL] = NULL
    BY <2>1, <1>11, <1>12, <1>13 DEF LoopInv, AtEnd
  <2> QED BY <2>2, <1>2, <1>8 DEF AtEnd
<1>21. xom_syms' = {f \in Gone' : kind'[f] = "data"}
  <2>1. xom_syms' = xom_syms \cup {final}
    BY DEF Unlink, SymbolOf
  <2> QED BY <2>1, <1>2, <1>5 DEF LoopInv
<1> QED BY <1>16, <1>17, <1>18, <1>19, <1>20, <1>21 DEF LoopInv

\* A pass that leaves curr_frag in .text.
LEMMA KeptOn ==
  ASSUME LoopInv, Keep
  PROVE  LoopInv'
<1>1. curr_frag \in 1 .. N - 1 /\ fr_next[curr_frag] = curr_frag + 1
      /\ curr_frag + 1 \in 1 .. N
  BY SetsOfFrags DEF LoopInv, LoopTypeOK, AtCurrent, Keep, Looking, next_frag
<1>2. /\ curr_frag' = curr_frag + 1 /\ prev_frag' = curr_frag
      /\ kind' = kind /\ align_code' = align_code
      /\ fr_next' = fr_next /\ text_root' = text_root
      /\ text_last' = text_last /\ xom_root' = xom_root
      /\ xom_last' = xom_last /\ xom_syms' = xom_syms
      /\ pc' = pc /\ pc = "loop"
  BY <1>1 DEF Keep, Looking, next_frag, attrs, chains
<1>3. ~Movable(curr_frag)
  BY <1>1 DEF Keep, IsData, next_frag, Movable
<1>4. Gone' = Gone
  <2>1. \A f : Movable(f)' = Movable(f)
    BY <1>2 DEF Movable
  <2> QED BY <2>1, <1>1, <1>2, <1>3 DEF Gone
<1>5. Left' = Left /\ Xom' = Xom
  BY <1>2, <1>4 DEF Left, Xom
<1>6. LoopTypeOK'
  BY <1>1, <1>2 DEF LoopInv, LoopTypeOK
<1>7. AtCurrent'
  <2>1. curr_frag \in Left
    BY <1>1, SetsOfFrags
  <2>2. curr_frag # NULL
    BY <2>1, SetsOfFrags
  <2>3. \A f \in curr_frag + 1 .. N - 1 : fr_next[f] = f + 1
    BY <1>1 DEF LoopInv, AtCurrent
  <2> QED BY <2>1, <2>2, <2>3, <1>1, <1>2, <1>5 DEF LoopInv, AtCurrent
<1> QED BY <1>2, <1>4, <1>5, <1>6, <1>7 DEF LoopInv, AtEnd

\* An alignment frag and the data behind it: the assertion holds, because the
\* last frag of .text is the empty one that ended it before.
LEMMA AlignDataOn ==
  ASSUME LoopInv, SplitAlignData
  PROVE  LoopInv'
<1>1. curr_frag \in 1 .. N - 1 /\ next_frag = curr_frag + 1
      /\ pc = "loop"
  BY SetsOfFrags DEF LoopInv, LoopTypeOK, AtCurrent, SplitAlignData, Looking,
                     next_frag
<1>2. kind[next_frag] = "data" /\ next_frag # N
  BY <1>1, TailIn DEF LoopInv, LoopTypeOK, SplitAlignData, IsData
<1>3. text_last = N
  BY DEF LoopInv, AtCurrent
<1>4. /\ Unlink(curr_frag, curr_frag + 1, fr_next[curr_frag + 1])
      /\ curr_frag' = fr_next[curr_frag + 1]
      /\ kind[curr_frag] = "align"
      /\ UNCHANGED <<attrs, prev_frag, pc, text_last>>
  BY <1>1, <1>2, <1>3 DEF SplitAlignData
<1> QED BY <1>1, <1>2, <1>3, <1>4, MovedOn

LEMMA DataFragOn ==
  ASSUME LoopInv, SplitDataFrag
  PROVE  LoopInv'
<1>1. curr_frag \in 1 .. N - 1 /\ next_frag = curr_frag + 1
      /\ pc = "loop"
  BY SetsOfFrags DEF LoopInv, LoopTypeOK, AtCurrent, SplitDataFrag, Looking,
                     next_frag
<1>2. text_last = N /\ text_last' = N
  BY <1>1 DEF LoopInv, AtCurrent, SplitDataFrag
<1>3. /\ Unlink(curr_frag, curr_frag, fr_next[curr_frag])
      /\ curr_frag' = fr_next[curr_frag]
      /\ kind[curr_frag] = "data"
      /\ UNCHANGED <<attrs, prev_frag, pc>>
  BY DEF SplitDataFrag, next_frag, IsData
<1> QED BY <1>1, <1>2, <1>3, MovedOn

\* The end of .xom_data.
LEMMA ClosedOff ==
  ASSUME LoopInv, Close
  PROVE  LoopInv'
<1>1. /\ curr_frag' = curr_frag /\ prev_frag' = prev_frag
      /\ kind' = kind /\ align_code' = align_code
      /\ text_root' = text_root /\ text_last' = text_last
      /\ xom_root' = xom_root /\ xom_syms' = xom_syms
      /\ pc' = "done" /\ pc = "close"
  BY DEF Close, attrs
<1>2. Gone' = Gone /\ Left' = Left
  <2>1. \A f : Movable(f)' = Movable(f)
    BY <1>1 DEF Movable
  <2> QED BY <2>1, <1>1 DEF Gone, Left
<1>3. xom_last # TAIL /\ xom_last \in Xom /\ xom_last \notin Left
  BY <1>1, SetsOfFrags DEF LoopInv, AtEnd
<1>4. CASE xom_last \notin align_code
  <2>1. fr_next' = fr_next /\ xom_last' = xom_last
    BY <1>4 DEF Close
  <2>2. Xom' = Xom
    BY <2>1, <1>2 DEF Xom
  <2> QED BY <1>1, <1>2, <1>3, <1>4, <2>1, <2>2
         DEF LoopInv, LoopTypeOK, AtCurrent, AtEnd
<1>5. CASE xom_last \in align_code
  <2>1. fr_next' = [fr_next EXCEPT ![xom_last] = TAIL] /\ xom_last' = TAIL
    BY <1>5 DEF Close
  <2>2. fr_next \in [Frags -> Frags \cup {NULL}] /\ TAIL \in Frags
        /\ xom_last \in Frags
    BY <1>3, SetsOfFrags DEF LoopInv, LoopTypeOK, Frags, TAIL
  <2>3. Xom' = Xom \cup {TAIL, TAIL} /\ TAIL \notin Xom /\ TAIL \notin Left
    BY <1>2, <1>3, <2>1 DEF Xom, Gone, Left, TAIL
  <2>4. Linked(fr_next', xom_root', xom_last', Xom')
    <3>1. Linked(fr_next, xom_root, xom_last, Xom) /\ Xom \subseteq Frags
      BY SetsOfFrags DEF LoopInv
    <3>2. \A f \in Xom \ {xom_last} : fr_next'[f] = fr_next[f]
      BY <2>1, <2>2, SetsOfFrags
    <3>3. fr_next'[xom_last] = TAIL /\ fr_next'[TAIL] = NULL
      BY <1>3, <2>1, <2>2 DEF LoopInv, AtEnd
    <3>4. \A f \in Xom : Place(f) < Place(TAIL)
      BY <2>3, SetsOfFrags DEF Place, Frags, TAIL
    <3>5. Linked(fr_next', xom_root, TAIL, Xom \cup {TAIL, TAIL})
      BY <2>2, <2>3, <3>1, <3>2, <3>3, <3>4, AppendTo
    <3> QED BY <3>5, <2>1, <2>3, <1>1
  <2>5. Linked(fr_next', text_root', N, Left')
    <3>1. \A f \in Left : fr_next'[f] = fr_next[f]
      BY <1>3, <2>1, <2>2, SetsOfFrags
    <3>2. Linked(fr_next, text_root, N, Left)
      BY DEF LoopInv
    <3> QED BY <1>1, <1>2, <3>1, <3>2 DEF Linked
  <2>6. LoopTypeOK'
    BY <1>1, <2>1, <2>2 DEF LoopInv, LoopTypeOK
  <2>7. AtCurrent'
    <3>1. curr_frag = N /\ text_last = N
      BY <1>1 DEF LoopInv, LoopTypeOK, AtCurrent
    <3>2. prev_frag # NULL => prev_frag \in Left /\ prev_frag < curr_frag
                              /\ fr_next[prev_frag] = curr_frag
      BY DEF LoopInv, AtCurrent
    <3>3. prev_frag # NULL => fr_next'[prev_frag] = curr_frag
      BY <3>2, <1>3, <2>1, <2>2, SetsOfFrags
    <3> QED BY <1>1, <1>2, <3>1, <3>2, <3>3 DEF LoopInv, AtCurrent
  <2>8. AtEnd'
    <3>1. TAIL \notin align_code
      BY DEF LoopInv, LoopTypeOK, TAIL
    <3>2. fr_next'[TAIL] = NULL
      BY <1>3, <2>1, <2>2 DEF LoopInv, AtEnd
    <3> QED BY <1>1, <2>1, <3>1, <3>2 DEF AtEnd
  <2> QED BY <1>1, <1>2, <2>4, <2>5, <2>6, <2>7, <2>8 DEF LoopInv
<1> QED BY <1>4, <1>5

LEMMA NextLoopInv == LoopInv /\ [Next]_vars => LoopInv'
<1> SUFFICES ASSUME LoopInv, [Next]_vars PROVE LoopInv'
  OBVIOUS
<1>1. ASSUME UNCHANGED <<attrs, chains, prev_frag, curr_frag, xom_syms>>,
             pc' = pc \/ (pc' = "close" /\ curr_frag = N /\ xom_last # TAIL)
      PROVE  LoopInv'
  <2>1. /\ curr_frag' = curr_frag /\ prev_frag' = prev_frag
        /\ kind' = kind /\ align_code' = align_code
        /\ text_root' = text_root /\ text_last' = text_last
        /\ xom_root' = xom_root /\ xom_last' = xom_last
        /\ xom_syms' = xom_syms /\ fr_next' = fr_next
    BY <1>1 DEF attrs, chains
  <2>2. Gone' = Gone
    <3>1. \A f : Movable(f)' = Movable(f)
      BY <2>1 DEF Movable
    <3> QED BY <3>1, <2>1 DEF Gone
  <2>3. Left' = Left /\ Xom' = Xom
    BY <2>1, <2>2 DEF Left, Xom
  <2> QED BY <1>1, <2>1, <2>2, <2>3
         DEF LoopInv, LoopTypeOK, AtCurrent, AtEnd
<1>2. CASE LoopEnds
  <2>1. pc = "loop" /\ pc' = "close"
    BY <1>2 DEF LoopEnds
  <2>2. curr_frag = N
    <3>1. curr_frag \in 1 .. N /\ curr_frag \in Frags
      BY DEF LoopInv, LoopTypeOK, Frags, TAIL
    <3>2. SUFFICES ASSUME curr_frag \in 1 .. N - 1 PROVE FALSE
      BY <3>1
    <3>3. fr_next[curr_frag] = curr_frag + 1 /\ curr_frag + 1 \in Frags
      BY <3>2 DEF LoopInv, AtCurrent, Frags, TAIL
    <3> QED BY <3>1, <3>3, <1>2 DEF LoopEnds, next_frag
  <2>3. xom_last # TAIL
    BY <2>1 DEF LoopInv, AtEnd
  <2> QED BY <1>1, <1>2, <2>1, <2>2, <2>3 DEF LoopEnds
<1>3. CASE Stopped
  BY <1>1, <1>3 DEF Stopped, vars
<1>4. CASE UNCHANGED vars
  BY <1>1, <1>4 DEF vars
<1> QED BY <1>2, <1>3, <1>4, KeptOn, AlignDataOn, DataFragOn, ClosedOff
       DEF Next

----------------------------------------------------------------------------
(***************************************************************************)
(* From pointers to sequences.                                             *)
(***************************************************************************)

\* The equation that defines the first n places of a walk.
IsWalk(w, next, root, n) ==
  w = [k \in 1 .. n |->
         IF k = 1 THEN root
         ELSE IF w[k - 1] = NULL THEN NULL ELSE next[w[k - 1]]]

\* It has a solution.
LEMMA WalkExists ==
  ASSUME NEW next, NEW root, NEW n \in Nat, n > 0
  PROVE  \E w : IsWalk(w, next, root, n)
<1> DEFINE Step(w, k) == IF k = 1 THEN root
                         ELSE IF w[k - 1] = NULL THEN NULL ELSE next[w[k - 1]]
           Good == {j \in Nat : \E w : IsWalk(w, next, root, j)}
<1>1. 1 \in Good
  <2> DEFINE w == [k \in 1 .. 1 |-> root]
  <2>1. IsWalk(w, next, root, 1)
    BY DEF IsWalk
  <2> HIDE DEF w
  <2> QED BY <2>1
<1>2. ASSUME NEW j \in 1 .. n - 1, j \in Good PROVE j + 1 \in Good
  <2>1. PICK w : IsWalk(w, next, root, j)
    BY <1>2
  <2> DEFINE v == [k \in 1 .. j + 1 |-> IF k = j + 1 THEN Step(w, k) ELSE w[k]]
  <2>2. \A k \in 1 .. j + 1 : Step(v, k) = Step(w, k)
    OBVIOUS
  <2>3. \A k \in 1 .. j : w[k] = Step(w, k)
    BY <2>1 DEF IsWalk
  <2>4. v = [k \in 1 .. j + 1 |-> Step(w, k)]
    <3> HIDE DEF Step
    <3> QED BY <2>3
  <2>5. v = [k \in 1 .. j + 1 |-> Step(v, k)]
    <3> HIDE DEF Step, v
    <3> QED BY <2>2, <2>4
  <2>6. IsWalk(v, next, root, j + 1)
    <3> HIDE DEF v
    <3> QED BY <2>5, Zenon DEF IsWalk
  <2>7. \E u : IsWalk(u, next, root, j + 1)
    <3> HIDE DEF v
    <3> QED BY <2>6
  <2> QED BY <2>7
<1>3. 1 .. n \subseteq Good
  <2> HIDE DEF Good
  <2> QED BY <1>1, <1>2, Induct
<1>4. n \in Good
  <2> HIDE DEF Good
  <2> QED BY <1>3
<1> QED BY <1>4

LEMMA WalkIs ==
  ASSUME NEW next, NEW root
  PROVE  /\ Walk(next, root)[1] = root
         /\ \A k \in 1 .. TAIL :
              Walk(next, root)[k + 1] =
                IF Walk(next, root)[k] = NULL THEN NULL
                ELSE next[Walk(next, root)[k]]
<1> DEFINE w == Walk(next, root)
<1>1. TAIL + 1 \in Nat /\ TAIL + 1 > 0 /\ TAIL \in Nat
  BY DEF TAIL
<1>2. \E v : IsWalk(v, next, root, TAIL + 1)
  BY <1>1, WalkExists, Zenon
<1>3. w = CHOOSE v : IsWalk(v, next, root, TAIL + 1)
  BY Zenon DEF Walk, IsWalk
<1>4. IsWalk(w, next, root, TAIL + 1)
  <2> HIDE DEF w
  <2> QED BY <1>2, <1>3, Zenon
<1> HIDE DEF w
<1>5. \A k \in 1 .. TAIL + 1 :
        w[k] = IF k = 1 THEN root
               ELSE IF w[k - 1] = NULL THEN NULL ELSE next[w[k - 1]]
  BY <1>4 DEF IsWalk
<1>6. w[1] = root
  BY <1>1, <1>5
<1>7. ASSUME NEW k \in 1 .. TAIL
      PROVE  w[k + 1] = IF w[k] = NULL THEN NULL ELSE next[w[k]]
  <2>1. k + 1 \in 1 .. TAIL + 1 /\ k + 1 # 1 /\ (k + 1) - 1 = k
    BY <1>1
  <2> QED BY <1>5, <2>1
<1> QED BY <1>6, <1>7 DEF w

\* Following next through a chain meets each of its frags once, in order, and
\* ends at its last.
Sorted(c, n, S) ==
  /\ n \in Nat /\ c \in [1 .. n -> S]
  /\ \A f \in S : \E k \in 1 .. n : c[k] = f
  /\ \A i, j \in 1 .. n : i < j => Place(c[i]) < Place(c[j])

LEMMA ChainSorted ==
  ASSUME NEW S, S \subseteq Frags, NEW next, NEW root, NEW last,
         Linked(next, root, last, S)
  PROVE  \E n \in 1 .. TAIL : /\ Sorted(Chain(next, root), n, S)
                             /\ Chain(next, root)[n] = last
<1> DEFINE w == Walk(next, root)
<1>0. TAIL \in Nat /\ NULL \notin S
  BY DEF TAIL
<1>1. w[1] = root /\ \A k \in 1 .. TAIL :
                       w[k + 1] = IF w[k] = NULL THEN NULL ELSE next[w[k]]
  BY WalkIs
<1>2. Chain(next, root) = [k \in {j \in 1 .. TAIL + 1 : w[j] # NULL} |-> w[k]]
  BY DEF Chain, Restrict
<1> HIDE DEF w
<1>3. \A f \in S : Place(f) \in 1 .. TAIL
  BY Places
<1>4. /\ root \in S /\ last \in S /\ next[last] = NULL
      /\ \A f \in S \ {last} : next[f] \in S /\ Place(f) < Place(next[f])
  BY DEF Linked
\* A walk stays in the chain or is over, and gets further with every step.
<1>5. \A k \in 1 .. TAIL + 1 :
        w[k] = NULL \/ (w[k] \in S /\ Place(w[k]) >= k)
  <2> DEFINE Good == {k \in 1 .. TAIL + 1 :
                        w[k] = NULL \/ (w[k] \in S /\ Place(w[k]) >= k)}
  <2>1. 1 \in Good
    BY <1>0, <1>1, <1>3, <1>4
  <2>2. ASSUME NEW k \in 1 .. (TAIL + 1) - 1, k \in Good
        PROVE  k + 1 \in Good
    <3>1. k \in 1 .. TAIL /\ k + 1 \in 1 .. TAIL + 1
      BY <1>0
    <3>2. CASE w[k] \in {NULL, last}
      BY <3>1, <3>2, <1>0, <1>1, <1>4
    <3>3. CASE w[k] \notin {NULL, last}
      <4>1. w[k] \in S \ {last} /\ Place(w[k]) >= k /\ w[k + 1] = next[w[k]]
        BY <2>2, <3>1, <3>3, <1>1
      <4>2. w[k + 1] \in S /\ Place(w[k]) < Place(w[k + 1])
        BY <4>1, <1>4
      <4> QED BY <3>1, <4>1, <4>2, <1>3
    <3> QED BY <3>2, <3>3
  <2>3. 1 .. TAIL + 1 \subseteq Good
    <3>1. TAIL + 1 \in Nat /\ 1 \in Nat
      BY <1>0
    <3> HIDE DEF Good
    <3> QED BY <3>1, <2>1, <2>2, Induct
  <2> QED BY <2>3
<1>6. w[TAIL + 1] = NULL
  BY <1>0, <1>3, <1>5
<1>7. PICK m \in 1 .. TAIL + 1 :
        w[m] = NULL /\ \A k \in 1 .. m - 1 : w[k] # NULL
  <2> DEFINE Ends == {k \in 1 .. TAIL + 1 : w[k] = NULL}
  <2>1. Ends \in SUBSET Nat /\ Ends # {}
    BY <1>0, <1>6
  <2>2. PICK m \in Ends : \A k \in Ends : m <= k
    <3> HIDE DEF Ends
    <3> QED BY <2>1, Least
  <2> QED BY <1>0, <2>2
<1>8. \A k \in m .. TAIL + 1 : w[k] = NULL
  <2> DEFINE Good == {k \in m .. TAIL + 1 : w[k] = NULL}
  <2>1. m \in Good /\ m \in Nat /\ TAIL + 1 \in Nat
    BY <1>0, <1>7
  <2>2. ASSUME NEW k \in m .. (TAIL + 1) - 1, k \in Good
        PROVE  k + 1 \in Good
    BY <1>0, <1>1, <2>2
  <2>3. m .. TAIL + 1 \subseteq Good
    <3> HIDE DEF Good
    <3> QED BY <2>1, <2>2, Induct
  <2> QED BY <2>3
<1> DEFINE n == m - 1
<1>9. n \in 1 .. TAIL
  BY <1>0, <1>1, <1>4, <1>7
<1>10. {j \in 1 .. TAIL + 1 : w[j] # NULL} = 1 .. n
  BY <1>0, <1>7, <1>8
<1>11. Chain(next, root) = [k \in 1 .. n |-> w[k]]
  BY <1>2, <1>10
<1>12. \A k \in 1 .. n : w[k] \in S
  BY <1>0, <1>5, <1>7
<1>13. w[n] = last
  <2>1. w[n] \in S /\ w[n + 1] = NULL /\ w[n + 1] = next[w[n]]
    BY <1>0, <1>1, <1>7, <1>9, <1>12
  <2> QED BY <2>1, <1>0, <1>4
<1>14. \A k \in 1 .. n - 1 : w[k + 1] = next[w[k]] /\ w[k] # last
                            /\ Place(w[k]) < Place(w[k + 1])
  <2> TAKE k \in 1 .. n - 1
  <2>1. k \in 1 .. TAIL /\ k \in 1 .. n /\ k + 1 \in 1 .. n
    BY <1>0, <1>9
  <2>2. w[k] \in S /\ w[k + 1] \in S /\ w[k + 1] = next[w[k]]
    BY <2>1, <1>0, <1>1, <1>12
  <2> QED BY <2>2, <1>0, <1>4
<1>15. \A i, j \in 1 .. n : i < j => Place(w[i]) < Place(w[j])
  <2> DEFINE Good == {j \in 1 .. n : \A i \in 1 .. j - 1 : Place(w[i]) < Place(w[j])}
  <2>1. 1 \in Good /\ 1 \in Nat /\ n \in Nat
    BY <1>0, <1>9
  <2>2. ASSUME NEW j \in 1 .. n - 1, j \in Good
        PROVE  j + 1 \in Good
    <3>1. j + 1 \in 1 .. n
      BY <1>9
    <3>2. ASSUME NEW i \in 1 .. (j + 1) - 1 PROVE Place(w[i]) < Place(w[j + 1])
      <4>1. i \in 1 .. n /\ j \in 1 .. n
        BY <1>9
      <4>2. Place(w[i]) \in Nat /\ Place(w[j]) \in Nat /\ Place(w[j + 1]) \in Nat
        BY <3>1, <4>1, <1>0, <1>3, <1>12
      <4>3. Place(w[j]) < Place(w[j + 1])
        BY <1>14
      <4>4. i = j \/ Place(w[i]) < Place(w[j])
        BY <2>2
      <4> QED BY <4>2, <4>3, <4>4
    <3> QED BY <3>1, <3>2
  <2>3. 1 .. n \subseteq Good
    <3> HIDE DEF Good, n
    <3> QED BY <2>1, <2>2, Induct
  <2> QED BY <2>3, <1>9
\* No frag is passed over: the first such would follow one that is met.
<1>16. \A f \in S : \E k \in 1 .. n : w[k] = f
  <2> DEFINE Missed == {f \in S : \A k \in 1 .. n : w[k] # f}
             P == {Place(f) : f \in Missed}
  <2>1. SUFFICES ASSUME Missed # {} PROVE FALSE
    OBVIOUS
  <2>2. P \in SUBSET Nat /\ P # {}
    BY <2>1, <1>0, <1>3
  <2>3. PICK p \in P : \A q \in P : p <= q
    <3> HIDE DEF P
    <3> QED BY <2>2, Least
  <2>4. PICK f \in Missed : \A g \in Missed : Place(f) <= Place(g)
    BY <2>3
  <2>5. f \in S \ {root}
    BY <1>1, <1>9
  <2>6. PICK g \in S \ {last} : next[g] = f
    BY <2>5 DEF Linked
  <2>7. Place(g) < Place(f)
    BY <2>6, <1>4
  <2>8. g \notin Missed
    BY <2>4, <2>5, <2>6, <2>7, <1>0, <1>3
  <2>9. PICK k \in 1 .. n : w[k] = g
    BY <2>6, <2>8
  <2>10. k \in 1 .. n - 1 /\ k + 1 \in 1 .. n
    BY <2>6, <2>9, <1>9, <1>13
  <2>11. w[k + 1] = f
    BY <2>6, <2>9, <2>10, <1>14
  <2> QED BY <2>4, <2>10, <2>11
<1> DEFINE c == Chain(next, root)
<1>17. /\ c \in [1 .. n -> S]
       /\ \A k \in 1 .. n : c[k] = w[k]
  BY <1>11, <1>12
<1> HIDE DEF c, n
<1>18. n \in Nat /\ n \in 1 .. n
  BY <1>0, <1>9
<1>19. Sorted(c, n, S)
  BY <1>15, <1>16, <1>17, <1>18 DEF Sorted
<1>20. c[n] = last
  BY <1>13, <1>17, <1>18
<1> QED BY <1>9, <1>19, <1>20 DEF c

\* What the properties say of a sequence, from its being sorted.
LEMMA SortedIs ==
  ASSUME NEW S, S \subseteq Frags, NEW n, NEW c, Sorted(c, n, S)
  PROVE  IsInjective(c) /\ Range(c) = S /\ End(c) = c[n]
<1>1. DOMAIN c = 1 .. n /\ n \in Nat /\ c \in [1 .. n -> S]
  BY DEF Sorted
<1>2. Range(c) = S
  BY <1>1 DEF Sorted, Range
<1>3. IsInjective(c)
  <2>1. \A k \in 1 .. n : Place(c[k]) \in Nat
    BY <1>1, Places DEF Sorted, TAIL
  <2>2. ASSUME NEW i \in 1 .. n, NEW j \in 1 .. n, c[i] = c[j] PROVE i = j
    BY <2>1, <2>2, <1>1 DEF Sorted
  <2> QED BY <2>2, <1>1 DEF IsInjective
<1>4. Len(c) = n
  BY <1>1
<1> QED BY <1>2, <1>3, <1>4 DEF End

\* The two chains, whatever pass the loop has come to.
LEMMA BothChains ==
  ASSUME LoopInv
  PROVE  /\ IsInjective(Chain(fr_next, text_root))
         /\ Range(Chain(fr_next, text_root)) = Left
         /\ End(Chain(fr_next, text_root)) = N
         /\ IsInjective(Chain(fr_next, xom_root))
         /\ Range(Chain(fr_next, xom_root)) = Xom
         /\ End(Chain(fr_next, xom_root)) = xom_last
<1>1. /\ Linked(fr_next, text_root, N, Left) /\ Left \subseteq Frags
      /\ Linked(fr_next, xom_root, xom_last, Xom) /\ Xom \subseteq Frags
  BY SetsOfFrags DEF LoopInv
<1>2. PICK n \in 1 .. TAIL : /\ Sorted(Chain(fr_next, text_root), n, Left)
                            /\ Chain(fr_next, text_root)[n] = N
  BY <1>1, ChainSorted
<1>3. PICK m \in 1 .. TAIL : /\ Sorted(Chain(fr_next, xom_root), m, Xom)
                            /\ Chain(fr_next, xom_root)[m] = xom_last
  BY <1>1, ChainSorted
<1>4. /\ IsInjective(Chain(fr_next, text_root))
      /\ Range(Chain(fr_next, text_root)) = Left
      /\ End(Chain(fr_next, text_root)) = N
  BY <1>1, <1>2, SortedIs
<1>5. /\ IsInjective(Chain(fr_next, xom_root))
      /\ Range(Chain(fr_next, xom_root)) = Xom
      /\ End(Chain(fr_next, xom_root)) = xom_last
  BY <1>1, <1>3, SortedIs
<1> QED BY <1>4, <1>5

----------------------------------------------------------------------------
(***************************************************************************)
(* The theorems.                                                           *)
(***************************************************************************)

\* After every pass of the loop .text is the frags it had without the movable
\* ones behind the current frag, .xom_data has those at its end in the same
\* order, and the pointers of the loop are where the code believes them.
THEOREM LoopKeepsChains == Spec => []LoopInv
BY InitLoopInv, NextLoopInv, PTL DEF Spec

\* Unlinking and appending by hand loses no frag, puts none on both chains and
\* makes no cycle, for every chain of .text and all marks on it.
THEOREM FragsAreKept == Spec => []NoFragLost
<1>1. LoopInv => NoFragLost
  <2> SUFFICES ASSUME LoopInv PROVE NoFragLost
    OBVIOUS
  <2>1. Left \cap Xom = {} /\ Left \cup Xom \in {Frags, Frags \ {TAIL}}
    <3>1. Left \cap Xom = {}
      BY SetsOfFrags
    <3>2. CASE xom_last = TAIL
      BY <3>2 DEF Left, Xom, Gone, Frags, TAIL
    <3>3. CASE xom_last # TAIL
      BY <3>3 DEF Left, Xom, Gone, Frags, TAIL
    <3> QED BY <3>1, <3>2, <3>3
  <2> QED BY <2>1, BothChains DEF NoFragLost
<1> QED BY <1>1, LoopKeepsChains, PTL

\* frch_last of both sections is the end of the chain that frch_root starts.
THEOREM EndsAreKept == Spec => []EndsAgree
<1>1. LoopInv => EndsAgree
  BY BothChains DEF EndsAgree, LoopInv, AtCurrent
<1> QED BY <1>1, LoopKeepsChains, PTL

\* prev_frag is the frag in front of curr_frag whenever a pass begins.
THEOREM PrevIsBefore == Spec => []PrevPrecedes
<1>1. LoopInv => PrevPrecedes
  BY DEF PrevPrecedes, LoopInv, AtCurrent
<1> QED BY <1>1, LoopKeepsChains, PTL

\* The symbols in .xom_data are those of its data frags after every pass.
THEOREM SymbolsWithFrags == Spec => []SymbolsFollow
<1>1. LoopInv => SymbolsFollow
  <2> SUFFICES ASSUME LoopInv PROVE SymbolsFollow
    OBVIOUS
  <2>1. {f \in Xom : kind[f] = "data"} = {f \in Gone : kind[f] = "data"}
    BY DEF Xom, LoopInv, LoopTypeOK, TAIL
  <2> QED BY <2>1, BothChains DEF SymbolsFollow, LoopInv
<1> QED BY <1>1, LoopKeepsChains, PTL

\* The gas_assert of the alignment branch never fires.
THEOREM AssertNeverFires == Spec => []AssertHolds
<1>1. LoopInv => AssertHolds
  BY DEF AssertHolds, LoopInv, LoopTypeOK
<1> QED BY <1>1, LoopKeepsChains, PTL

\* When the split is over neither section ends in an alignment frag.
THEOREM NoAlignmentOpen == Spec => []NoOpenAlignment
<1>1. LoopInv => NoOpenAlignment
  BY DEF NoOpenAlignment, LoopInv, LoopTypeOK, AtCurrent, AtEnd
<1> QED BY <1>1, LoopKeepsChains, PTL

----------------------------------------------------------------------------
(***************************************************************************)
(* The loop implements the atomic move of SplitSpec: its steps are         *)
(* stutters, but for the last, which makes the move.  First, sequences in  *)
(* the order of the chains.                                                *)
(***************************************************************************)

\* There is one way to list a set of frags in order.
LEMMA SortedUnique ==
  ASSUME NEW S, S \subseteq Frags, NEW c, NEW d, NEW m, NEW n,
         Sorted(c, m, S), Sorted(d, n, S)
  PROVE  m = n /\ c = d
<1>1. /\ m \in Nat /\ c \in [1 .. m -> S]
      /\ n \in Nat /\ d \in [1 .. n -> S]
  BY DEF Sorted
<1>2. \A f \in S : Place(f) \in Nat
  BY Places DEF TAIL
<1>3. /\ \A f \in S : \E k \in 1 .. m : c[k] = f
      /\ \A f \in S : \E k \in 1 .. n : d[k] = f
      /\ \A i, j \in 1 .. m : i < j => Place(c[i]) < Place(c[j])
      /\ \A i, j \in 1 .. n : i < j => Place(d[i]) < Place(d[j])
  BY DEF Sorted
<1>4. \A k \in (1 .. m) \cap (1 .. n) : c[k] = d[k]
  <2> DEFINE Differ == {k \in (1 .. m) \cap (1 .. n) : c[k] # d[k]}
  <2>1. SUFFICES ASSUME Differ # {} PROVE FALSE
    OBVIOUS
  <2>2. PICK k \in Differ : \A j \in Differ : k <= j
    <3>1. Differ \in SUBSET Nat
      OBVIOUS
    <3> HIDE DEF Differ
    <3> QED BY <2>1, <3>1, Least
  <2>3. \A i \in 1 .. k - 1 : c[i] = d[i]
    BY <1>1, <2>2
  <2>4. k \in 1 .. m /\ k \in 1 .. n /\ c[k] \in S /\ d[k] \in S
    BY <1>1, <2>2
  <2>5. Place(d[k]) < Place(c[k])
    <3>1. PICK j \in 1 .. n : d[j] = c[k]
      BY <1>3, <2>4
    <3>2. j # k
      BY <2>2, <3>1
    <3>3. ~(j < k)
      <4>1. SUFFICES ASSUME j < k PROVE FALSE
        OBVIOUS
      <4>2. j \in 1 .. m /\ c[j] = c[k]
        BY <4>1, <3>1, <2>3, <2>4, <1>1
      <4> QED BY <4>1, <4>2, <2>4, <1>2, <1>3
    <3> QED BY <3>1, <3>2, <3>3, <2>4, <1>1, <1>3
  <2>6. Place(c[k]) < Place(d[k])
    <3>1. PICK j \in 1 .. m : c[j] = d[k]
      BY <1>3, <2>4
    <3>2. j # k
      BY <2>2, <3>1
    <3>3. ~(j < k)
      <4>1. SUFFICES ASSUME j < k PROVE FALSE
        OBVIOUS
      <4>2. j \in 1 .. n /\ d[j] = d[k]
        BY <4>1, <3>1, <2>3, <2>4, <1>1
      <4> QED BY <4>1, <4>2, <2>4, <1>2, <1>3
    <3> QED BY <3>1, <3>2, <3>3, <2>4, <1>1, <1>3
  <2> QED BY <2>4, <2>5, <2>6, <1>2
<1>5. ~(m < n)
  <2>1. SUFFICES ASSUME m < n PROVE FALSE
    OBVIOUS
  <2>2. m + 1 \in 1 .. n /\ d[m + 1] \in S
    BY <2>1, <1>1
  <2>3. PICK j \in 1 .. m : c[j] = d[m + 1]
    BY <2>2, <1>3
  <2>4. d[j] = d[m + 1] /\ j \in 1 .. n /\ j < m + 1
    BY <2>1, <2>3, <1>1, <1>4
  <2> QED BY <2>2, <2>4, <1>2, <1>3
<1>6. ~(n < m)
  <2>1. SUFFICES ASSUME n < m PROVE FALSE
    OBVIOUS
  <2>2. n + 1 \in 1 .. m /\ c[n + 1] \in S
    BY <2>1, <1>1
  <2>3. PICK j \in 1 .. n : d[j] = c[n + 1]
    BY <2>2, <1>3
  <2>4. c[j] = c[n + 1] /\ j \in 1 .. m /\ j < n + 1
    BY <2>1, <2>3, <1>1, <1>4
  <2> QED BY <2>2, <2>4, <1>2, <1>3
<1>7. m = n
  BY <1>1, <1>5, <1>6
<1> QED BY <1>1, <1>4, <1>7

\* A sorted sequence, continued by one frag.
LEMMA AppendSorted ==
  ASSUME NEW S, S \subseteq Frags, NEW c, NEW m, Sorted(c, m, S),
         NEW f \in Frags, \A g \in S : Place(g) < Place(f)
  PROVE  Sorted(Append(c, f), m + 1, S \cup {f})
<1> DEFINE a == Append(c, f)
<1>1. m \in Nat /\ c \in [1 .. m -> S] /\ c \in Seq(S) /\ Len(c) = m
  BY DEF Sorted
<1>2. a \in Seq(S \cup {f}) /\ Len(a) = m + 1 /\ a[m + 1] = f
      /\ \A k \in 1 .. m : a[k] = c[k]
  BY <1>1
<1> HIDE DEF a
<1>3. a \in [1 .. m + 1 -> S \cup {f}]
  BY <1>2, LenProperties
<1>4. \A g \in S \cup {f} : \E k \in 1 .. m + 1 : a[k] = g
  <2> TAKE g \in S \cup {f}
  <2>1. CASE g = f
    BY <2>1, <1>1, <1>2
  <2>2. CASE g \in S
    <3>1. PICK k \in 1 .. m : c[k] = g
      BY <2>2 DEF Sorted
    <3>2. k \in 1 .. m + 1 /\ a[k] = g
      BY <3>1, <1>1, <1>2
    <3> QED BY <3>2
  <2> QED BY <2>1, <2>2
<1>5. ASSUME NEW i \in 1 .. m + 1, NEW j \in 1 .. m + 1, i < j
      PROVE  Place(a[i]) < Place(a[j])
  <2>1. i \in 1 .. m /\ a[i] = c[i] /\ c[i] \in S
    BY <1>1, <1>2, <1>5
  <2>2. CASE j = m + 1
    BY <2>1, <2>2, <1>2
  <2>3. CASE j \in 1 .. m
    BY <2>1, <2>3, <1>2, <1>5 DEF Sorted
  <2> QED BY <2>2, <2>3, <1>1
<1> QED BY <1>1, <1>3, <1>4, <1>5 DEF Sorted, a

\* Two sorted sequences, one behind the other.
LEMMA ConcatSorted ==
  ASSUME NEW S, S \subseteq Frags, NEW c, NEW m, Sorted(c, m, S),
         NEW T, T \subseteq Frags, NEW d, NEW n, Sorted(d, n, T),
         \A f \in S, g \in T : Place(f) < Place(g)
  PROVE  Sorted(c \o d, m + n, S \cup T)
<1> DEFINE a == c \o d
<1>1. /\ m \in Nat /\ c \in [1 .. m -> S] /\ c \in Seq(S) /\ Len(c) = m
      /\ n \in Nat /\ d \in [1 .. n -> T] /\ d \in Seq(T) /\ Len(d) = n
  BY DEF Sorted
<1>2. /\ DOMAIN a = 1 .. m + n /\ a \in [1 .. m + n -> S \cup T]
      /\ \A k \in 1 .. m + n : a[k] = IF k <= m THEN c[k] ELSE d[k - m]
  <2>1. c \in Seq(S \cup T) /\ d \in Seq(S \cup T)
    BY <1>1
  <2>2. /\ a \in Seq(S \cup T) /\ Len(a) = m + n
        /\ \A k \in 1 .. m + n : a[k] = IF k <= m THEN c[k] ELSE d[k - m]
    <3> DEFINE U == S \cup T
    <3> HIDE DEF U
    <3>1. c \in Seq(U) /\ d \in Seq(U)
      BY <2>1 DEF U
    <3>2. /\ a \in Seq(U) /\ Len(a) = Len(c) + Len(d)
          /\ \A k \in 1 .. Len(c) + Len(d) :
               a[k] = IF k <= Len(c) THEN c[k] ELSE d[k - Len(c)]
      BY <3>1, ConcatProperties, Zenon
    <3> HIDE DEF a
    <3> QED BY <3>2, <1>1 DEF U
  <2> HIDE DEF a
  <2> QED BY <2>2, LenProperties
<1> HIDE DEF a
<1>3. /\ \A k \in 1 .. m : a[k] = c[k] /\ a[k] \in S
      /\ \A k \in 1 .. n : a[m + k] = d[k] /\ a[m + k] \in T
  BY <1>1, <1>2
<1>4. \A k \in 1 .. m + n : k \in 1 .. m \/ \E j \in 1 .. n : k = m + j
  <2> TAKE k \in 1 .. m + n
  <2>1. CASE k > m
    <3>1. k - m \in 1 .. n /\ k = m + (k - m)
      BY <2>1, <1>1
    <3> QED BY <3>1
  <2> QED BY <2>1, <1>1
<1>5. m + n \in Nat
  BY <1>1
<1>6. \A f \in S \cup T : \E k \in 1 .. m + n : a[k] = f
  <2> TAKE f \in S \cup T
  <2>1. CASE f \in S
    <3>1. PICK k \in 1 .. m : c[k] = f
      BY <2>1 DEF Sorted
    <3>2. k \in 1 .. m + n /\ a[k] = f
      BY <3>1, <1>1, <1>3
    <3> QED BY <3>2
  <2>2. CASE f \in T
    <3>1. PICK k \in 1 .. n : d[k] = f
      BY <2>2 DEF Sorted
    <3>2. m + k \in 1 .. m + n /\ a[m + k] = f
      BY <3>1, <1>1, <1>3
    <3> QED BY <3>2
  <2> QED BY <2>1, <2>2
<1>7. ASSUME NEW i \in 1 .. m + n, NEW j \in 1 .. m + n, i < j
      PROVE  Place(a[i]) < Place(a[j])
  <2>1. CASE i \in 1 .. m /\ j \in 1 .. m
    BY <2>1, <1>3, <1>7 DEF Sorted
  <2>2. CASE i \in 1 .. m /\ j \notin 1 .. m
    BY <2>2, <1>3, <1>4
  <2>3. CASE i \notin 1 .. m
    <3>1. j \notin 1 .. m
      BY <2>3, <1>1, <1>7
    <3>2. PICK x \in 1 .. n : i = m + x
      BY <2>3, <1>4
    <3>3. PICK y \in 1 .. n : j = m + y
      BY <3>1, <1>4
    <3>4. x < y /\ a[i] = d[x] /\ a[j] = d[y]
      BY <3>2, <3>3, <1>1, <1>3, <1>7
    <3> QED BY <3>4 DEF Sorted
  <2> QED BY <2>1, <2>2, <2>3
<1>8. Sorted(a, m + n, S \cup T)
  BY <1>2, <1>5, <1>6, <1>7 DEF Sorted
<1> QED BY <1>8 DEF a

----------------------------------------------------------------------------
(***************************************************************************)
(* What SplitSpec picks out of .text.                                      *)
(***************************************************************************)

\* The equation that defines the first n steps of picking the places of P out
\* of t.
IsPick(p, t, P, n) ==
  p = [k \in 0 .. n |->
         IF k = 0 THEN <<>>
         ELSE IF k \in P THEN Append(p[k - 1], t[k]) ELSE p[k - 1]]

LEMMA PickExists ==
  ASSUME NEW t, NEW P, NEW n \in Nat
  PROVE  \E p : IsPick(p, t, P, n)
<1> DEFINE Step(p, k) == IF k = 0 THEN <<>>
                         ELSE IF k \in P THEN Append(p[k - 1], t[k])
                         ELSE p[k - 1]
           Good == {j \in Nat : \E p : IsPick(p, t, P, j)}
<1>1. 0 \in Good
  <2> DEFINE p == [k \in 0 .. 0 |-> <<>>]
  <2>1. IsPick(p, t, P, 0)
    BY DEF IsPick
  <2> HIDE DEF p
  <2> QED BY <2>1
<1>2. ASSUME NEW j \in 0 .. n - 1, j \in Good PROVE j + 1 \in Good
  <2>1. PICK p : IsPick(p, t, P, j)
    BY <1>2
  <2> DEFINE q == [k \in 0 .. j + 1 |-> IF k = j + 1 THEN Step(p, k) ELSE p[k]]
  <2>2. \A k \in 0 .. j + 1 : Step(q, k) = Step(p, k)
    OBVIOUS
  <2>3. \A k \in 0 .. j : p[k] = Step(p, k)
    BY <2>1 DEF IsPick
  <2>4. q = [k \in 0 .. j + 1 |-> Step(p, k)]
    <3> HIDE DEF Step
    <3> QED BY <2>3
  <2>5. q = [k \in 0 .. j + 1 |-> Step(q, k)]
    <3> HIDE DEF Step, q
    <3> QED BY <2>2, <2>4
  <2>6. IsPick(q, t, P, j + 1)
    <3> HIDE DEF q
    <3> QED BY <2>5, Zenon DEF IsPick
  <2>7. \E u : IsPick(u, t, P, j + 1)
    <3> HIDE DEF q
    <3> QED BY <2>6
  <2> QED BY <2>7
<1>3. 0 .. n \subseteq Good
  <2>1. 0 \in Nat
    OBVIOUS
  <2> HIDE DEF Good
  <2> QED BY <1>1, <1>2, <2>1, Induct
<1>4. n \in Good
  <2> HIDE DEF Good
  <2> QED BY <1>3
<1> QED BY <1>4

\* Out of the frags 1 .. N in their order, those of P are picked in order.
LEMMA PickSorted ==
  ASSUME NEW t, t = [i \in 1 .. N |-> i], NEW P \in SUBSET (1 .. N),
         NEW p, IsPick(p, t, P, N)
  PROVE  \E n : Sorted(p[N], n, P)
<1> DEFINE Upto(k) == P \cap (1 .. k)
           Good == {k \in 0 .. N : \E n : Sorted(p[k], n, Upto(k))}
<1>0. \A f \in P : f \in 1 .. N /\ f \in Nat /\ f > 0 /\ f <= N
  OBVIOUS
<1>1. \A k \in 0 .. N : p[k] = IF k = 0 THEN <<>>
                              ELSE IF k \in P THEN Append(p[k - 1], t[k])
                              ELSE p[k - 1]
  BY DEF IsPick
<1>2. 0 \in Good
  <2>1. Upto(0) = {}
    BY <1>0
  <2>2. p[0] = <<>>
    BY <1>1
  <2>3. Sorted(<<>>, 0, {})
    BY DEF Sorted
  <2> HIDE DEF Upto
  <2>4. Sorted(p[0], 0, Upto(0))
    BY <2>1, <2>2, <2>3, Zenon
  <2> QED BY <2>4
<1>3. ASSUME NEW k \in 0 .. N - 1, k \in Good PROVE k + 1 \in Good
  <2>1. PICK n : Sorted(p[k], n, Upto(k))
    BY <1>3
  <2>2. k + 1 \in 1 .. N /\ k + 1 \in 0 .. N /\ t[k + 1] = k + 1
        /\ k + 1 \in Frags
    BY DEF Frags, TAIL
  <2>3. CASE k + 1 \in P
    <3>1. p[k + 1] = Append(p[k], k + 1)
      <4>1. k + 1 # 0 /\ (k + 1) - 1 = k
        OBVIOUS
      <4> QED BY <1>1, <2>2, <2>3, <4>1
    <3>2. Upto(k + 1) = Upto(k) \cup {k + 1} /\ Upto(k) \subseteq Frags
      BY <1>0, <2>3 DEF Frags, TAIL
    <3>3. ASSUME NEW g \in Upto(k) PROVE Place(g) < Place(k + 1)
      <4>1. g \in Nat /\ g <= k /\ g <= N /\ k + 1 <= N /\ k \in Nat
        BY <1>0, <2>2
      <4> QED BY <4>1 DEF Place
    <3> HIDE DEF Upto
    <3>4. Sorted(Append(p[k], k + 1), n + 1, Upto(k) \cup {k + 1})
      BY <2>1, <2>2, <3>2, <3>3, AppendSorted
    <3>5. Sorted(p[k + 1], n + 1, Upto(k + 1))
      BY <3>1, <3>2, <3>4
    <3> QED BY <2>2, <3>5
  <2>4. CASE k + 1 \notin P
    <3>1. p[k + 1] = p[k]
      BY <1>1, <2>2, <2>4
    <3>2. Upto(k + 1) = Upto(k)
      BY <1>0, <2>4
    <3> HIDE DEF Upto
    <3>3. Sorted(p[k + 1], n, Upto(k + 1))
      BY <2>1, <3>1, <3>2
    <3> QED BY <2>2, <3>3
  <2> QED BY <2>3, <2>4
<1>4. 0 .. N \subseteq Good
  <2>1. 0 \in Nat
    OBVIOUS
  <2> HIDE DEF Good
  <2> QED BY <1>2, <1>3, <2>1, Induct
<1>5. N \in Good
  <2> HIDE DEF Good
  <2> QED BY <1>4
<1>6. Upto(N) = P
  BY <1>0
<1> HIDE DEF Upto
<1> QED BY <1>5, <1>6

----------------------------------------------------------------------------
(***************************************************************************)
(* The refinement.                                                         *)
(***************************************************************************)

\* What At picks from .text before the split.
LEMMA AtSorted ==
  ASSUME pc # "done", NEW P \in SUBSET (1 .. N)
  PROVE  \E n : Sorted(Abstract!At(P), n, P)
<1> DEFINE t == IF pc = "done" THEN Chain(fr_next, text_root)
                ELSE [i \in 1 .. N |-> i]
           p == CHOOSE q : IsPick(q, t, P, Len(t))
<1>1. Abstract!At(P) = p[Len(t)]
  BY Zenon DEF Abstract!At, IsPick
<1>2. t = [i \in 1 .. N |-> i] /\ Len(t) = N
  OBVIOUS
<1> HIDE DEF t
<1>3. IsPick(p, t, P, N)
  <2>1. \E q : IsPick(q, t, P, N)
    BY PickExists
  <2>2. p = CHOOSE q : IsPick(q, t, P, N)
    BY <1>2, Zenon
  <2> HIDE DEF p
  <2> QED BY <2>1, <2>2, Zenon
<1> HIDE DEF p
<1> QED BY <1>1, <1>2, <1>3, PickSorted

\* The places that SplitSpec moves are the frags that the loop has moved.
LEMMA PlacesAreGone ==
  ASSUME LoopInv, pc = "close"
  PROVE  /\ {k \in 1 .. N : Abstract!Moves(k)} = Gone
         /\ Xom = ((N + 1) .. (N + XLen)) \cup Gone
<1>1. curr_frag = N /\ xom_last # TAIL
  BY DEF LoopInv, LoopTypeOK, AtEnd
<1>2. kind[N] = "empty"
  BY TailIn DEF LoopInv, LoopTypeOK
<1> DEFINE t == IF pc = "done" THEN Chain(fr_next, text_root)
                ELSE [i \in 1 .. N |-> i]
<1>3. t = [i \in 1 .. N |-> i] /\ Len(t) = N
  OBVIOUS
<1>4. ASSUME NEW k \in 1 .. N
      PROVE  Abstract!Moves(k) <=> (k < curr_frag /\ Movable(k))
  <2>1. Abstract!Moves(k) <=>
          \/ t[k] \in {f \in Frags : kind[f] = "data"}
          \/ /\ t[k] \in {f \in Frags : kind[f] = "align"} /\ k < Len(t)
             /\ t[k + 1] \in {f \in Frags : kind[f] = "data"}
    BY Zenon DEF Abstract!Moves
  <2> HIDE DEF t
  <2>2. k \in Frags /\ t[k] = k
    BY <1>3 DEF Frags, TAIL
  <2>3. k < N => k + 1 \in Frags /\ t[k + 1] = k + 1
    BY <1>3 DEF Frags, TAIL
  <2> QED BY <2>1, <2>2, <2>3, <1>1, <1>2, <1>3 DEF Movable
<1>5. {k \in 1 .. N : Abstract!Moves(k)} = Gone
  BY <1>4 DEF Gone
<1> QED BY <1>1, <1>5 DEF Xom

\* The chains of a state of the loop, in order.
LEMMA StateChains ==
  ASSUME LoopInv
  PROVE  /\ \E n : Sorted(Chain(fr_next, text_root), n, Left)
         /\ \E n \in 1 .. TAIL : /\ Sorted(Chain(fr_next, xom_root), n, Xom)
                                 /\ Chain(fr_next, xom_root)[n] = xom_last
<1>1. /\ Linked(fr_next, text_root, N, Left) /\ Left \subseteq Frags
      /\ Linked(fr_next, xom_root, xom_last, Xom) /\ Xom \subseteq Frags
  BY SetsOfFrags DEF LoopInv
<1> QED BY <1>1, ChainSorted

\* Before the last step the chains are what the move of SplitSpec makes, but
\* for the frag that may have to close .xom_data.
LEMMA ChainsArePicked ==
  ASSUME LoopInv, pc = "close"
  PROVE  /\ Chain(fr_next, text_root) = Abstract!At((1 .. N) \ Gone)
         /\ Chain(fr_next, xom_root)
              = [i \in 1 .. XLen |-> N + i] \o Abstract!At(Gone)
<1>1. Gone \in SUBSET (1 .. N) /\ Left = (1 .. N) \ Gone
      /\ Left \in SUBSET (1 .. N)
  BY DEF Gone, Left
<1>2. Left \subseteq Frags /\ Xom \subseteq Frags /\ Gone \subseteq Frags
      /\ (N + 1) .. (N + XLen) \subseteq Frags
  BY SetsOfFrags DEF Gone, Frags, TAIL
<1>3. PICK n : Sorted(Abstract!At(Left), n, Left)
  BY <1>1, AtSorted
<1>4. PICK m : Sorted(Abstract!At(Gone), m, Gone)
  BY <1>1, AtSorted
<1>5. Chain(fr_next, text_root) = Abstract!At(Left)
  BY <1>2, <1>3, StateChains, SortedUnique
<1>6. Sorted([i \in 1 .. XLen |-> N + i], XLen, (N + 1) .. (N + XLen))
  <2> DEFINE x == [i \in 1 .. XLen |-> N + i]
             S == (N + 1) .. (N + XLen)
  <2>1. x \in [1 .. XLen -> S] /\ XLen \in Nat
    OBVIOUS
  <2>2. \A f \in S : f - N \in 1 .. XLen /\ x[f - N] = f
    OBVIOUS
  <2>3. \A i \in 1 .. XLen : x[i] = N + i /\ Place(x[i]) = i
    BY DEF Place, TAIL
  <2> HIDE DEF x
  <2> QED BY <2>1, <2>2, <2>3 DEF Sorted
<1>7. \A f \in (N + 1) .. (N + XLen), g \in Gone : Place(f) < Place(g)
  BY DEF Gone, Place, TAIL
<1>8. Sorted([i \in 1 .. XLen |-> N + i] \o Abstract!At(Gone), XLen + m,
             ((N + 1) .. (N + XLen)) \cup Gone)
  BY <1>2, <1>4, <1>6, <1>7, ConcatSorted
<1>9. Xom = ((N + 1) .. (N + XLen)) \cup Gone
  BY PlacesAreGone
<1>10. Chain(fr_next, xom_root)
         = [i \in 1 .. XLen |-> N + i] \o Abstract!At(Gone)
  <2> DEFINE d == [i \in 1 .. XLen |-> N + i] \o Abstract!At(Gone)
             c == Chain(fr_next, xom_root)
  <2>1. Sorted(d, XLen + m, Xom)
    BY <1>8, <1>9
  <2>2. PICK n2 : Sorted(c, n2, Xom)
    BY StateChains
  <2> HIDE DEF c, d
  <2>3. c = d
    BY <1>2, <2>1, <2>2, SortedUnique
  <2> QED BY <2>3 DEF c, d
<1> QED BY <1>1, <1>5, <1>10

\* The last step makes the move.
LEMMA CloseSplits ==
  ASSUME LoopInv, Close, LoopInv'
  PROVE  Abstract!SplitAll
<1> DEFINE text == Chain(fr_next, text_root)
           xom  == Chain(fr_next, xom_root)
<1>1. /\ pc = "close" /\ pc' = "done"
      /\ kind' = kind /\ align_code' = align_code
      /\ text_root' = text_root /\ xom_root' = xom_root
      /\ curr_frag' = curr_frag
  BY DEF Close, attrs
<1>2. Gone' = Gone /\ Left' = Left
  <2>1. \A f : Movable(f)' = Movable(f)
    BY <1>1 DEF Movable
  <2> QED BY <2>1, <1>1 DEF Gone, Left
<1>3. text' = text
  <2>1. PICK n : Sorted(text, n, Left)
    BY StateChains
  <2>2. PICK m : Sorted(text', m, Left)
    <3>1. Linked(fr_next', text_root', N, Left')
      BY DEF LoopInv
    <3>2. Left \subseteq Frags
      BY SetsOfFrags
    <3>3. Linked(fr_next', text_root, N, Left)
      BY <3>1, <1>1, <1>2
    <3>4. \E m \in 1 .. TAIL : Sorted(Chain(fr_next', text_root), m, Left)
      BY <3>2, <3>3, ChainSorted
    <3> QED BY <3>4, <1>1
  <2>3. Left \subseteq Frags
    BY SetsOfFrags
  <2> HIDE DEF text
  <2> QED BY <2>1, <2>2, <2>3, SortedUnique
<1>4. PICK n \in 1 .. TAIL : Sorted(xom, n, Xom) /\ xom[n] = xom_last
  BY StateChains
<1>5. /\ n \in Nat /\ n > 0 /\ Len(xom) = n /\ xom # <<>>
      /\ xom[Len(xom)] = xom_last
  <2> HIDE DEF xom
  <2>1. xom \in [1 .. n -> Xom] /\ n \in Nat /\ n > 0
    BY <1>4 DEF Sorted, TAIL
  <2>2. Len(xom) = n
    BY <2>1
  <2> QED BY <2>1, <2>2, <1>4
<1>6. xom' = IF xom_last \in align_code THEN Append(xom, TAIL) ELSE xom
  <2>1. CASE xom_last \notin align_code
    BY <2>1, <1>1 DEF Close
  <2>2. CASE xom_last \in align_code
    <3>1. xom_last' = TAIL /\ xom_last # TAIL
      BY <2>2, <1>1 DEF Close, LoopInv, AtEnd
    <3>2. Xom' = Xom \cup {TAIL} /\ TAIL \notin Xom /\ TAIL \in Frags
      BY <3>1, <1>2 DEF Xom, Gone, Frags, TAIL
    <3>3. Xom \subseteq Frags /\ Xom \cup {TAIL} \subseteq Frags
      BY <3>2, SetsOfFrags
    <3>4. \A g \in Xom : Place(g) < Place(TAIL)
      BY <3>2, <3>3 DEF Place, Frags, TAIL
    <3>5. Sorted(Append(xom, TAIL), n + 1, Xom \cup {TAIL})
      <4> HIDE DEF xom
      <4> QED BY <1>4, <3>2, <3>3, <3>4, AppendSorted
    <3>6. PICK m : Sorted(xom', m, Xom \cup {TAIL})
      <4>1. Linked(fr_next', xom_root', xom_last', Xom')
        BY DEF LoopInv
      <4>2. Linked(fr_next', xom_root, TAIL, Xom \cup {TAIL})
        BY <4>1, <1>1, <3>1, <3>2
      <4>3. \E m \in 1 .. TAIL :
              Sorted(Chain(fr_next', xom_root), m, Xom \cup {TAIL})
        BY <3>3, <4>2, ChainSorted
      <4> QED BY <4>3, <1>1
    <3> DEFINE a == Append(xom, TAIL)
    <3> HIDE DEF xom, a
    <3>7. Sorted(a, n + 1, Xom \cup {TAIL})
      BY <3>5 DEF a
    <3>8. xom' = a
      BY <3>3, <3>6, <3>7, SortedUnique
    <3> QED BY <2>2, <3>8 DEF a
  <2> QED BY <2>1, <2>2
<1>7. /\ {k \in 1 .. N : Abstract!Moves(k)} = Gone
      /\ text = Abstract!At((1 .. N) \ Gone)
      /\ xom = [i \in 1 .. XLen |-> N + i] \o Abstract!At(Gone)
  BY <1>1, PlacesAreGone, ChainsArePicked
<1>8. Abstract!Closed(xom) = xom'
  BY <1>5, <1>6 DEF Abstract!Closed
<1>9. Len([i \in 1 .. N |-> i]) = N
  OBVIOUS
<1> HIDE DEF text, xom
<1> DEFINE places == {k \in 1 .. N : Abstract!Moves(k)}
<1>10. /\ text' = Abstract!At((1 .. N) \ places)
       /\ xom' = Abstract!Closed([i \in 1 .. XLen |-> N + i]
                                   \o Abstract!At(places))
  BY <1>3, <1>7, <1>8
<1>11. UNCHANGED <<{f \in Frags : kind[f] = "data"},
                   {f \in Frags : kind[f] = "align"}, align_code>>
  BY <1>1
<1> QED BY <1>1, <1>9, <1>10, <1>11 DEF Abstract!SplitAll, text, xom

\* The initial states of the loop are initial states of SplitSpec, and each
\* step is the move of SplitSpec or changes nothing it sees: the loop, pass by
\* pass over pointers, has the effect of taking the data frags and their
\* alignments out of .text at once, in order.  This is SplitsAsSpecified but
\* for the fairness in it.
THEOREM LoopImplements ==
  Spec => Abstract!Init /\ [][Abstract!SplitAll]_(Abstract!vars)
<1>1. Init => Abstract!Init
  <2> SUFFICES ASSUME Init PROVE Abstract!Init
    OBVIOUS
  <2>1. pc = "loop"
    BY DEF Init
  <2>2. [i \in 1 .. N |-> i] # <<>>
    <3>1. Len([i \in 1 .. N |-> i]) = N
      OBVIOUS
    <3> QED BY <3>1
  <2> QED BY <2>1, <2>2 DEF Abstract!Init
<1>2. LoopInv /\ LoopInv' /\ [Next]_vars => [Abstract!SplitAll]_(Abstract!vars)
  <2> SUFFICES ASSUME LoopInv, LoopInv', [Next]_vars, ~Close
               PROVE  UNCHANGED Abstract!vars
    BY CloseSplits
  <2>1. CASE UNCHANGED vars
    BY <2>1 DEF Abstract!vars, vars, attrs, chains
  <2>2. CASE Stopped
    BY <2>2 DEF Abstract!vars, vars, attrs, chains, Stopped
  <2>3. CASE LoopEnds \/ SplitAlignData \/ SplitDataFrag \/ Keep
    <3>1. UNCHANGED <<kind, align_code>> /\ pc # "done" /\ pc' # "done"
      BY <2>3 DEF LoopEnds, SplitAlignData, SplitDataFrag, Keep, Looking, attrs
    <3> QED BY <3>1 DEF Abstract!vars
  <2> QED BY <2>1, <2>2, <2>3 DEF Next
<1> QED BY <1>1, <1>2, LoopKeepsChains, PTL DEF Spec
=============================================================================
