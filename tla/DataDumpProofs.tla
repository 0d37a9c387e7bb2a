--------------------------- MODULE DataDumpProofs ---------------------------
(***************************************************************************)
(* Theorems about DataDump, for any number of files and entries, any names *)
(* and any counters: parse_xom stays in step with the writers.             *)
(***************************************************************************)
EXTENDS DataDump, Integers, SequenceTheorems, TLAPS

USE DumpConstantsOK

(***************************************************************************)
(* The words of a header and of an entry.                                  *)
(***************************************************************************)

LEMMA NameWordsAre ==
  ASSUME NEW null \in BOOLEAN, NEW size \in 1 .. NameLen,
         NEW w, w = NameWords(null, size)
  PROVE  w \in Seq(Nat) /\ Len(w) = size /\ w[1] = IF null THEN 1 ELSE 0
<1>1. size \in Nat /\ 1 \in 1 .. size
  OBVIOUS
<1>2. w = [k \in 1 .. size |-> IF null THEN 1 ELSE 0]
  BY DEF NameWords
<1>3. w \in [1 .. size -> Nat] /\ DOMAIN w = 1 .. size
  BY <1>2
<1>4. w \in Seq(Nat)
  BY <1>1, <1>3
<1> QED BY <1>1, <1>2, <1>3, <1>4, LenProperties

\* Two sequences of words, one behind the other.
IsJoint(c, a, b, m, n) ==
  /\ a \in Seq(Nat) /\ b \in Seq(Nat) /\ m = Len(a) /\ n = Len(b)
  /\ c = a \o b

LEMMA Joint ==
  ASSUME NEW c, NEW a, NEW b, NEW m, NEW n, IsJoint(c, a, b, m, n)
  PROVE  /\ m \in Nat /\ n \in Nat
         /\ c \in Seq(Nat) /\ Len(c) = m + n
         /\ \A i \in 1 .. m : c[i] = a[i]
         /\ \A i \in 1 .. n : c[m + i] = b[i]
<1>0. a \in Seq(Nat) /\ b \in Seq(Nat) /\ m = Len(a) /\ n = Len(b)
  BY DEF IsJoint
<1>1. m \in Nat /\ n \in Nat
  BY <1>0
<1>2. /\ a \o b \in Seq(Nat) /\ Len(a \o b) = Len(a) + Len(b)
      /\ \A i \in 1 .. Len(a) + Len(b) :
           (a \o b)[i] = IF i <= Len(a) THEN a[i] ELSE b[i - Len(a)]
  BY <1>0, ConcatProperties, Zenon
<1>3. /\ c \in Seq(Nat) /\ Len(c) = m + n
      /\ \A i \in 1 .. m + n : c[i] = IF i <= m THEN a[i] ELSE b[i - m]
  <2>1. c = a \o b
    BY DEF IsJoint
  <2> QED BY <2>1, <1>0, <1>2
<1>4. ASSUME NEW i \in 1 .. m PROVE c[i] = a[i]
  <2>1. i \in 1 .. m + n /\ i <= m
    BY <1>1
  <2> QED BY <2>1, <1>3
<1>5. ASSUME NEW i \in 1 .. n PROVE c[m + i] = b[i]
  <2>1. m + i \in 1 .. m + n /\ ~(m + i <= m) /\ (m + i) - m = i
    BY <1>1
  <2> QED BY <2>1, <1>3
<1> QED BY <1>1, <1>3, <1>4, <1>5

\* What write_meteheader_for_test writes.
LEMMA HeaderWordsAre ==
  ASSUME NEW h \in Headers, NEW w, w = HeaderWords(h)
  PROVE  /\ w \in Seq(Nat) /\ h.name_size \in 1 .. NameLen
         /\ Len(w) = h.name_size + 7
         /\ w[1] = MAGIC /\ w[2] = h.name_size
         /\ w[h.name_size + 4] = h.bytes_frag_num
         /\ w[h.name_size + 6] = h.direct_data_num
<1> DEFINE n == h.name_size
           a == <<MAGIC, n>>
           b == NameWords(FALSE, n)
           c == <<0, h.bytes_frag_num, 0, h.direct_data_num, 0>>
           d == a \o b
<1>1. /\ n \in 1 .. NameLen /\ n \in Nat
      /\ h.bytes_frag_num \in Nat /\ h.direct_data_num \in Nat
  <2>1. h.bytes_frag_num \in Counts /\ h.direct_data_num \in Counts
        /\ n \in 1 .. NameLen
    BY DEF Headers
  <2>2. h.bytes_frag_num \in Nat /\ h.direct_data_num \in Nat
    BY <2>1, Zenon
  <2>3. n \in Nat
    BY <2>1
  <2> QED BY <2>1, <2>2, <2>3
<1>2. a \in Seq(Nat) /\ Len(a) = 2 /\ a[1] = MAGIC /\ a[2] = n
  BY <1>1
<1>3. b \in Seq(Nat) /\ Len(b) = n
  BY <1>1, NameWordsAre
<1>4. c \in Seq(Nat) /\ Len(c) = 5 /\ c[2] = h.bytes_frag_num
      /\ c[4] = h.direct_data_num
  BY <1>1
<1>5. w = d \o c /\ d = a \o b
  BY DEF HeaderWords
<1> HIDE DEF n, a, b, c, d
<1>6. d \in Seq(Nat) /\ Len(d) = 2 + n /\ \A i \in 1 .. 2 : d[i] = a[i]
  <2>1. IsJoint(d, a, b, Len(a), Len(b))
    BY <1>2, <1>3, <1>5 DEF IsJoint
  <2>2. /\ d \in Seq(Nat) /\ Len(d) = Len(a) + Len(b)
        /\ \A i \in 1 .. Len(a) : d[i] = a[i]
        /\ \A i \in 1 .. Len(b) : d[Len(a) + i] = b[i]
    BY <2>1, Joint
  <2>3. Len(a) = 2 /\ Len(b) = n
    BY <1>2, <1>3, <1>5
  <2> QED BY <2>2, <2>3
<1>7. /\ w \in Seq(Nat) /\ Len(w) = (2 + n) + 5
      /\ \A i \in 1 .. 2 + n : w[i] = d[i]
      /\ \A i \in 1 .. 5 : w[(2 + n) + i] = c[i]
  <2>1. IsJoint(w, d, c, Len(d), Len(c))
    BY <1>4, <1>5, <1>6 DEF IsJoint
  <2>2. /\ w \in Seq(Nat) /\ Len(w) = Len(d) + Len(c)
        /\ \A i \in 1 .. Len(d) : w[i] = d[i]
        /\ \A i \in 1 .. Len(c) : w[Len(d) + i] = c[i]
    BY <2>1, Joint
  <2>3. Len(d) = 2 + n /\ Len(c) = 5
    BY <1>4, <1>5, <1>6
  <2> QED BY <2>2, <2>3
<1>8. w[1] = MAGIC /\ w[2] = n
  <2>1. 1 \in 1 .. 2 /\ 2 \in 1 .. 2 /\ 1 \in 1 .. 2 + n /\ 2 \in 1 .. 2 + n
    BY <1>1
  <2> QED BY <2>1, <1>2, <1>6, <1>7
<1>9. w[n + 4] = h.bytes_frag_num /\ w[n + 6] = h.direct_data_num
  <2>1. 2 \in 1 .. 5 /\ 4 \in 1 .. 5 /\ (2 + n) + 2 = n + 4
        /\ (2 + n) + 4 = n + 6
    BY <1>1
  <2>2. w[(2 + n) + 2] = c[2] /\ w[(2 + n) + 4] = c[4]
    BY <2>1, <1>7
  <2> QED BY <2>1, <2>2, <1>4
<1>10. (2 + n) + 5 = n + 7
  BY <1>1
<1> QED BY <1>1, <1>7, <1>8, <1>9, <1>10 DEF n

\* What emit_expr and write_metedata_for_test write.
LEMMA EntryWordsAre ==
  ASSUME NEW e \in Entries, NEW w, w = EntryWords(e)
  PROVE  /\ w \in Seq(Nat) /\ e.name.size \in 1 .. NameLen
         /\ e.name.null \in BOOLEAN
         /\ Len(w) = e.name.size + 6
         /\ w[1] = e.frag_address /\ w[4] = e.frag_size
         /\ w[6] = e.name.size
         /\ w[7] = IF e.name.null THEN 1 ELSE 0
<1> DEFINE n == e.name.size
           a == <<e.frag_address, 0, 0, e.frag_size, 0, n>>
           b == NameWords(e.name.null, n)
<1>1. /\ n \in 1 .. NameLen /\ n \in Nat /\ e.name.null \in BOOLEAN
      /\ e.frag_address \in Nat /\ e.frag_size \in Nat
  <2>1. e.name \in Names /\ e.frag_address \in Addresses
        /\ e.frag_size \in Counts
    BY DEF Entries
  <2>2. n \in 1 .. NameLen /\ e.name.null \in BOOLEAN
    BY <2>1 DEF Names
  <2>3. e.frag_address \in Nat /\ e.frag_size \in Nat
    BY <2>1, Zenon
  <2>4. n \in Nat
    BY <2>2
  <2> QED BY <2>2, <2>3, <2>4
<1>2. a \in Seq(Nat) /\ Len(a) = 6 /\ a[1] = e.frag_address
      /\ a[4] = e.frag_size /\ a[6] = n
  BY <1>1
<1>3. b \in Seq(Nat) /\ Len(b) = n /\ b[1] = IF e.name.null THEN 1 ELSE 0
  BY <1>1, NameWordsAre
<1>4. w = a \o b
  BY DEF EntryWords
<1> HIDE DEF n, a, b
<1>5. /\ w \in Seq(Nat) /\ Len(w) = 6 + n
      /\ \A i \in 1 .. 6 : w[i] = a[i]
      /\ \A i \in 1 .. n : w[6 + i] = b[i]
  <2>1. IsJoint(w, a, b, Len(a), Len(b))
    BY <1>2, <1>3, <1>4 DEF IsJoint
  <2>2. /\ w \in Seq(Nat) /\ Len(w) = Len(a) + Len(b)
        /\ \A i \in 1 .. Len(a) : w[i] = a[i]
        /\ \A i \in 1 .. Len(b) : w[Len(a) + i] = b[i]
    BY <2>1, Joint
  <2>3. Len(a) = 6 /\ Len(b) = n
    BY <1>2, <1>3, <1>4
  <2> QED BY <2>2, <2>3
<1>6. w[1] = a[1] /\ w[4] = a[4] /\ w[6] = a[6]
  <2>1. 1 \in 1 .. 6 /\ 4 \in 1 .. 6 /\ 6 \in 1 .. 6
    OBVIOUS
  <2> QED BY <2>1, <1>5
<1>7. w[7] = b[1]
  <2>1. 1 \in 1 .. n /\ 6 + 1 = 7
    BY <1>1
  <2>2. w[6 + 1] = b[1]
    BY <2>1, <1>5
  <2> QED BY <2>1, <2>2
<1>8. 6 + n = n + 6
  BY <1>1
<1> QED BY <1>1, <1>2, <1>3, <1>5, <1>6, <1>7, <1>8 DEF n

----------------------------------------------------------------------------
(***************************************************************************)
(* The invariant.                                                          *)
(***************************************************************************)

DumpTypes ==
  /\ section \in Seq(Nat) /\ written \in Seq(Items) /\ log \in Seq(Items)
  /\ phase \in {"link", "parse", "done"}

DumpInv == DumpTypes /\ \E ends : Laid(ends) /\ ReadSoFar(ends)

\* An item is a header or an entry, which the first word tells.
LEMMA ItemIs ==
  ASSUME NEW x \in Items
  PROVE  /\ \/ x.kind = "header" /\ x.is \in Headers
              /\ Words(x) = HeaderWords(x.is)
              /\ x = [kind |-> "header", is |-> x.is]
            \/ x.kind = "entry" /\ x.is \in Entries
              /\ Words(x) = EntryWords(x.is)
              /\ x = [kind |-> "entry", is |-> x.is]
         /\ Words(x) \in Seq(Nat) /\ Len(Words(x)) \in Nat
         /\ Len(Words(x)) > 0
<1>1. CASE x \in [kind: {"header"}, is: Headers]
  <2>1. /\ x.kind = "header" /\ x.is \in Headers
        /\ x = [kind |-> "header", is |-> x.is]
    BY <1>1
  <2>2. Words(x) = HeaderWords(x.is)
    BY <2>1 DEF Words
  <2>3. Words(x) \in Seq(Nat) /\ Len(Words(x)) = x.is.name_size + 7
        /\ x.is.name_size \in 1 .. NameLen
    BY <2>1, <2>2, HeaderWordsAre
  <2> QED BY <2>1, <2>2, <2>3
<1>2. CASE x \in [kind: {"entry"}, is: Entries]
  <2>1. /\ x.kind = "entry" /\ x.is \in Entries
        /\ x = [kind |-> "entry", is |-> x.is]
    BY <1>2
  <2>2. Words(x) = EntryWords(x.is)
    BY <2>1 DEF Words
  <2>3. Words(x) \in Seq(Nat) /\ Len(Words(x)) = x.is.name.size + 6
        /\ x.is.name.size \in 1 .. NameLen
    BY <2>1, <2>2, EntryWordsAre
  <2> QED BY <2>1, <2>2, <2>3
<1> QED BY <1>1, <1>2 DEF Items

LEMMA InitDump == Init => DumpInv
<1> SUFFICES ASSUME Init PROVE DumpInv
  OBVIOUS
<1>1. section = <<>> /\ written = <<>> /\ log = <<>> /\ offset = 0
      /\ phase = "link"
  BY DEF Init
<1>2. Len(section) = 0 /\ Len(written) = 0 /\ Len(log) = 0
  BY <1>1
<1> DEFINE ends == [k \in 0 .. 0 |-> 0]
<1>3. Laid(ends)
  BY <1>2 DEF Laid
<1>4. ReadSoFar(ends)
  BY <1>1, <1>2 DEF ReadSoFar
<1>5. DumpTypes
  BY <1>1 DEF DumpTypes
<1> HIDE DEF ends
<1> QED BY <1>3, <1>4, <1>5 DEF DumpInv

\* A file, or an entry of it, is linked.
Linked(x) ==
  /\ phase = "link"
  /\ section' = section \o Words(x) /\ written' = Append(written, x)
  /\ UNCHANGED <<phase, offset, log>>

LEMMA WriteKeeps ==
  ASSUME DumpInv, NEW x \in Items, Linked(x)
  PROVE  DumpInv'
<1> DEFINE W == Words(x)
           n == Len(written)
           m == Len(section)
<1>1. PICK ends : Laid(ends) /\ ReadSoFar(ends)
  BY DEF DumpInv
<1>2. /\ section \in Seq(Nat) /\ written \in Seq(Items) /\ log \in Seq(Items)
      /\ n \in Nat /\ m \in Nat /\ Len(log) \in Nat
  BY LenProperties DEF DumpInv, DumpTypes
<1>3. W \in Seq(Nat) /\ Len(W) \in Nat
  BY ItemIs
<1>4. /\ section' \in Seq(Nat) /\ Len(section') = m + Len(W)
      /\ \A i \in 1 .. m : section'[i] = section[i]
      /\ \A i \in 1 .. Len(W) : section'[m + i] = W[i]
  <2>1. IsJoint(section', section, W, Len(section), Len(W))
    BY <1>2, <1>3 DEF IsJoint, Linked
  <2>2. /\ section' \in Seq(Nat) /\ Len(section') = Len(section) + Len(W)
        /\ \A i \in 1 .. Len(section) : section'[i] = section[i]
        /\ \A i \in 1 .. Len(W) : section'[Len(section) + i] = W[i]
    <3>1. \A c, a, b :
            IsJoint(c, a, b, Len(a), Len(b)) =>
              /\ c \in Seq(Nat) /\ Len(c) = Len(a) + Len(b)
              /\ \A i \in 1 .. Len(a) : c[i] = a[i]
              /\ \A i \in 1 .. Len(b) : c[Len(a) + i] = b[i]
      BY Joint
    <3> HIDE DEF W, m, n
    <3> QED BY <2>1, <3>1
  <2> HIDE DEF W
  <2> QED BY <2>2
<1>5. /\ written' \in Seq(Items) /\ Len(written') = n + 1
      /\ \A k \in 1 .. n : written'[k] = written[k]
      /\ written'[n + 1] = x
  BY <1>2, AppendProperties DEF Linked
<1> HIDE DEF W, n, m
<1>6. /\ ends \in [0 .. n -> Nat] /\ ends[0] = 0 /\ ends[n] = m
      /\ \A k \in 1 .. n :
           /\ ends[k] = ends[k - 1] + Len(Words(written[k]))
           /\ ends[k] <= m
           /\ \A i \in 1 .. Len(Words(written[k])) :
                section[ends[k - 1] + i] = Words(written[k])[i]
  BY <1>1 DEF Laid, n, m
<1>7. PICK new : /\ new \in [0 .. n + 1 -> Nat] /\ new[n + 1] = m + Len(W)
                 /\ \A k \in 0 .. n : new[k] = ends[k]
  <2> DEFINE f == [k \in 0 .. n + 1 |->
                     IF k = n + 1 THEN m + Len(W) ELSE ends[k]]
  <2>1. /\ f \in [0 .. n + 1 -> Nat] /\ f[n + 1] = m + Len(W)
        /\ \A k \in 0 .. n : f[k] = ends[k]
    BY <1>2, <1>3, <1>6
  <2> HIDE DEF f
  <2> QED BY <2>1
<1>8. ASSUME NEW k \in 1 .. n + 1
      PROVE  /\ new[k] = new[k - 1] + Len(Words(written'[k]))
             /\ new[k] <= Len(section')
             /\ \A i \in 1 .. Len(Words(written'[k])) :
                  section'[new[k - 1] + i] = Words(written'[k])[i]
  <2>1. CASE k = n + 1
    <3>1. new[k - 1] = m /\ written'[k] = x /\ new[k] = m + Len(W)
      BY <2>1, <1>2, <1>5, <1>6, <1>7
    <3>2. Words(written'[k]) = W
      BY <3>1 DEF W
    <3>3. new[k] = new[k - 1] + Len(W) /\ new[k] <= Len(section')
      BY <3>1, <1>2, <1>3, <1>4
    <3>4. \A i \in 1 .. Len(W) : section'[new[k - 1] + i] = W[i]
      BY <3>1, <1>4
    <3> QED BY <3>2, <3>3, <3>4, Zenon
  <2>2. CASE k # n + 1
    <3>1. k \in 1 .. n /\ k \in 0 .. n /\ k - 1 \in 0 .. n
      BY <2>2, <1>2
    <3>2. new[k] = ends[k] /\ new[k - 1] = ends[k - 1]
          /\ written'[k] = written[k]
      BY <3>1, <1>5, <1>7
    <3>3. /\ ends[k] = ends[k - 1] + Len(Words(written[k]))
          /\ ends[k] <= m /\ ends[k] \in Nat /\ ends[k - 1] \in Nat
          /\ \A i \in 1 .. Len(Words(written[k])) :
               section[ends[k - 1] + i] = Words(written[k])[i]
      BY <3>1, <1>6
    <3>4. Len(Words(written[k])) \in Nat
      BY <3>1, <1>2, ItemIs DEF n
    <3>5. \A i \in 1 .. Len(Words(written[k])) : ends[k - 1] + i \in 1 .. m
      BY <3>3, <3>4, <1>2
    <3>6. ends[k] <= Len(section')
      BY <3>3, <1>2, <1>3, <1>4
    <3> QED BY <3>2, <3>3, <3>5, <3>6, <1>4
  <2> QED BY <2>1, <2>2
<1>9. Laid(new)'
  <2>1. new[0] = 0
    BY <1>2, <1>6, <1>7
  <2> QED BY <2>1, <1>4, <1>5, <1>7, <1>8 DEF Laid
<1>10. ReadSoFar(new)'
  <2>1. /\ Len(log) <= n /\ offset = ends[Len(log)]
        /\ \A k \in 1 .. Len(log) : log[k] = written[k]
    BY <1>1 DEF ReadSoFar, n
  <2>2. Len(log) \in 0 .. n /\ \A k \in 1 .. Len(log) : k \in 1 .. n
    BY <2>1, <1>2
  <2>3. Len(log) <= n + 1
    BY <2>1, <1>2
  <2> QED BY <2>1, <2>2, <2>3, <1>5, <1>7 DEF ReadSoFar, Linked
<1>11. DumpTypes'
  BY <1>2, <1>4, <1>5 DEF DumpInv, DumpTypes, Linked
<1> QED BY <1>9, <1>10, <1>11 DEF DumpInv

\* Where parse_xom is: at an item it has not reported, all of which is there,
\* or at the end.
LEMMA AtItem ==
  ASSUME DumpTypes, NEW ends, Laid(ends), ReadSoFar(ends)
  PROVE  /\ Len(log) \in Nat /\ Len(log) <= Len(written)
         /\ Len(log) = Len(written) => Left = 0
         /\ Len(log) < Len(written) =>
              /\ Len(log) + 1 \in 1 .. Len(written)
              /\ written[Len(log) + 1] \in Items
              /\ Left >= Len(Words(written[Len(log) + 1])) /\ Left > 0
              /\ \A i \in 1 .. Len(Words(written[Len(log) + 1])) :
                   Word(i) = Words(written[Len(log) + 1])[i]
<1> DEFINE n == Len(log)
           W == Words(written[n + 1])
<1>1. n \in Nat /\ Len(written) \in Nat /\ Len(section) \in Nat
      /\ n <= Len(written) /\ offset = ends[n]
      /\ ends \in [0 .. Len(written) -> Nat]
      /\ ends[Len(written)] = Len(section)
  BY LenProperties DEF DumpTypes, ReadSoFar, Laid
<1>2. n = Len(written) => Left = 0
  BY <1>1 DEF Left
<1>3. ASSUME n < Len(written)
      PROVE  /\ n + 1 \in 1 .. Len(written) /\ written[n + 1] \in Items
             /\ Left >= Len(W) /\ Left > 0
             /\ \A i \in 1 .. Len(W) : Word(i) = W[i]
  <2>1. n + 1 \in 1 .. Len(written) /\ (n + 1) - 1 = n
        /\ n + 1 \in 0 .. Len(written) /\ n \in 0 .. Len(written)
    BY <1>1, <1>3
  <2>2. written[n + 1] \in Items
    BY <2>1 DEF DumpTypes
  <2>3. Len(W) \in Nat /\ Len(W) > 0
    BY <2>2, ItemIs
  <2>4. /\ ends[n + 1] = ends[(n + 1) - 1] + Len(W)
        /\ ends[n + 1] <= Len(section)
        /\ \A i \in 1 .. Len(W) : section[ends[(n + 1) - 1] + i] = W[i]
    BY <2>1 DEF Laid
  <2> HIDE DEF W, n
  <2>5. /\ ends[n + 1] = offset + Len(W) /\ ends[n + 1] <= Len(section)
        /\ \A i \in 1 .. Len(W) : section[offset + i] = W[i]
        /\ offset \in Nat
    BY <2>1, <2>4, <1>1
  <2>6. Left >= Len(W) /\ Left > 0
    BY <2>3, <2>5, <1>1 DEF Left
  <2> QED BY <2>1, <2>2, <2>5, <2>6 DEF Word
<1> QED BY <1>1, <1>2, <1>3

\* An item has been read and reported as it was written.
LEMMA ReadKeeps ==
  ASSUME DumpTypes, NEW ends, Laid(ends), ReadSoFar(ends), phase = "parse",
         Len(log) < Len(written),
         log' = Append(log, written[Len(log) + 1]),
         offset' = offset + Len(Words(written[Len(log) + 1])),
         UNCHANGED <<section, written, phase>>
  PROVE  DumpInv'
<1> DEFINE n == Len(log)
           x == written[n + 1]
<1>1. n \in Nat /\ n + 1 \in 1 .. Len(written) /\ x \in Items
      /\ Len(written) \in Nat
  BY AtItem, LenProperties DEF DumpTypes
<1>2. /\ log' \in Seq(Items) /\ Len(log') = n + 1
      /\ \A k \in 1 .. n : log'[k] = log[k]
      /\ log'[n + 1] = x
  BY <1>1, AppendProperties DEF DumpTypes
<1>3. \A k \in 1 .. n : log[k] = written[k]
  BY DEF ReadSoFar
<1>4. offset' = ends[n + 1]
  <2>1. ends[n + 1] = ends[(n + 1) - 1] + Len(Words(x)) /\ offset = ends[n]
    BY <1>1 DEF Laid, ReadSoFar
  <2>2. (n + 1) - 1 = n
    BY <1>1
  <2> HIDE DEF n, x
  <2>3. ends[n + 1] = offset + Len(Words(x))
    BY <2>1, <2>2
  <2> QED BY <2>3 DEF n, x
<1> HIDE DEF n
<1>5. \A k \in 1 .. n + 1 : log'[k] = written[k]
  <2>1. \A k \in 1 .. n + 1 : k = n + 1 \/ k \in 1 .. n
    BY <1>1
  <2> QED BY <2>1, <1>2, <1>3
<1>6. ReadSoFar(ends)'
  <2>1. n + 1 <= Len(written)
    BY <1>1
  <2> QED BY <2>1, <1>2, <1>4, <1>5 DEF ReadSoFar
<1>7. Laid(ends)' /\ DumpTypes'
  BY <1>2 DEF Laid, DumpTypes
<1> QED BY <1>6, <1>7 DEF DumpInv

\* parse_xom at the beginning of a header, which it recognises: all of the
\* header is there, and what is read are its fields.
LEMMA HeaderAt ==
  ASSUME NEW x \in Items, ~Misleads(x), Left \in Nat,
         Left >= Len(Words(x)),
         \A i \in 1 .. Len(Words(x)) : Word(i) = Words(x)[i],
         Word(1) = MAGIC
  PROVE  /\ x.kind = "header" /\ HeaderFits
         /\ Word(2) \in Nat /\ Len(Words(x)) = Word(2) + 7
         /\ x = [kind |-> "header",
                 is |-> [name_size |-> Word(2),
                         bytes_frag_num |-> Word(Word(2) + 4),
                         direct_data_num |-> Word(Word(2) + 6)]]
<1> DEFINE n == x.is.name_size
           W == Words(x)
<1>1. Len(W) \in Nat /\ 1 \in 1 .. Len(W)
  BY ItemIs
<1>2. x.is \in Headers /\ W = HeaderWords(x.is)
      /\ x = [kind |-> "header", is |-> x.is]
  <2>1. CASE x.kind = "entry" /\ x.is \in Entries /\ W = EntryWords(x.is)
    <3>1. W[1] = x.is.frag_address
      BY <2>1, EntryWordsAre
    <3>2. Word(1) = W[1]
      BY <1>1
    <3> QED BY <2>1, <3>1, <3>2 DEF Misleads
  <2> QED BY <2>1, ItemIs
<1>3. /\ n \in 1 .. NameLen /\ Len(W) = n + 7 /\ W[2] = n
      /\ W[n + 4] = x.is.bytes_frag_num /\ W[n + 6] = x.is.direct_data_num
  BY <1>2, HeaderWordsAre
<1>4. /\ n \in Nat /\ 2 \in 1 .. Len(W) /\ n + 4 \in 1 .. Len(W)
      /\ n + 6 \in 1 .. Len(W)
  <2>1. n \in 1 .. NameLen /\ Len(W) = n + 7
    BY <1>3
  <2> HIDE DEF n, W
  <2>2. n \in Nat
    BY <2>1
  <2> QED BY <2>1, <2>2
<1>5. Word(2) = n /\ Word(n + 4) = x.is.bytes_frag_num
      /\ Word(n + 6) = x.is.direct_data_num
  BY <1>3, <1>4
<1>6. x.is = [name_size |-> n, bytes_frag_num |-> x.is.bytes_frag_num,
              direct_data_num |-> x.is.direct_data_num]
  BY <1>2 DEF Headers
<1>7. Left >= n + 7
  BY <1>3
<1> HIDE DEF n, W
<1>8. HeaderFits
  <2>1. Left >= 2 /\ Left - 2 >= n /\ Left - 2 - n >= 5
    BY <1>4, <1>7
  <2> QED BY <2>1, <1>5 DEF HeaderFits
<1>9. x = [kind |-> "header",
           is |-> [name_size |-> Word(2),
                   bytes_frag_num |-> Word(Word(2) + 4),
                   direct_data_num |-> Word(Word(2) + 6)]]
  BY <1>2, <1>5, <1>6
<1> QED BY <1>2, <1>3, <1>4, <1>5, <1>8, <1>9 DEF W

\* The same for an entry.
LEMMA EntryAt ==
  ASSUME NEW x \in Items, Left \in Nat, Left >= Len(Words(x)),
         \A i \in 1 .. Len(Words(x)) : Word(i) = Words(x)[i],
         Word(1) # MAGIC
  PROVE  /\ x.kind = "entry" /\ EntryFits
         /\ Word(6) \in Nat /\ Len(Words(x)) = Word(6) + 6
         /\ x = [kind |-> "entry",
                 is |-> [frag_address |-> Word(1), frag_size |-> Word(4),
                         name |-> [null |-> Word(6) > 0 /\ Word(7) = 1,
                                   size |-> Word(6)]]]
<1> DEFINE n == x.is.name.size
           b == x.is.name.null
           W == Words(x)
<1>1. Len(W) \in Nat /\ 1 \in 1 .. Len(W)
  BY ItemIs
<1>2. x.is \in Entries /\ W = EntryWords(x.is)
      /\ x = [kind |-> "entry", is |-> x.is]
  <2>1. CASE x.is \in Headers /\ W = HeaderWords(x.is)
    <3>1. W[1] = MAGIC
      BY <2>1, HeaderWordsAre
    <3>2. Word(1) = W[1]
      BY <1>1
    <3> QED BY <3>1, <3>2
  <2> QED BY <2>1, ItemIs
<1>3. /\ n \in 1 .. NameLen /\ b \in BOOLEAN /\ Len(W) = n + 6
      /\ W[1] = x.is.frag_address /\ W[4] = x.is.frag_size /\ W[6] = n
      /\ W[7] = IF b THEN 1 ELSE 0
  BY <1>2, EntryWordsAre
<1>4. /\ n \in Nat /\ n > 0 /\ 4 \in 1 .. Len(W) /\ 6 \in 1 .. Len(W)
      /\ 7 \in 1 .. Len(W)
  <2>1. n \in 1 .. NameLen /\ Len(W) = n + 6
    BY <1>3
  <2> HIDE DEF n, W
  <2>2. n \in Nat /\ n > 0
    BY <2>1
  <2> QED BY <2>1, <2>2
<1>5. /\ Word(1) = x.is.frag_address /\ Word(4) = x.is.frag_size
      /\ Word(6) = n
  BY <1>1, <1>3, <1>4
<1>6. Word(7) = IF b THEN 1 ELSE 0
  BY <1>3, <1>4
<1>7. x.is.name \in Names
  BY <1>2 DEF Entries
<1>8. x.is.name = [null |-> b, size |-> n]
  BY <1>7 DEF Names
<1>9. x.is = [frag_address |-> x.is.frag_address,
              frag_size |-> x.is.frag_size, name |-> x.is.name]
  BY <1>2 DEF Entries
<1>10. Left >= n + 6
  BY <1>3
<1>11. b \in BOOLEAN
  BY <1>3
<1> HIDE DEF n, b, W
<1>12. EntryFits
  <2>1. Left >= 6 /\ Left - 6 >= n
    BY <1>4, <1>10
  <2> QED BY <2>1, <1>5 DEF EntryFits
<1>13. b = (n > 0 /\ Word(7) = 1)
  <2>1. CASE b = TRUE
    BY <2>1, <1>4, <1>6
  <2>2. CASE b = FALSE
    <3>1. Word(7) = 0
      BY <2>2, <1>6
    <3>2. (n > 0 /\ Word(7) = 1) = FALSE
      BY <3>1
    <3> QED BY <2>2, <3>2, Zenon
  <2> QED BY <2>1, <2>2, <1>11, Zenon
<1>14. x.is.name = [null |-> Word(6) > 0 /\ Word(7) = 1, size |-> Word(6)]
  BY <1>5, <1>8, <1>13, Zenon
<1>15. x = [kind |-> "entry",
            is |-> [frag_address |-> Word(1), frag_size |-> Word(4),
                    name |-> [null |-> Word(6) > 0 /\ Word(7) = 1,
                              size |-> Word(6)]]]
  BY <1>2, <1>5, <1>9, <1>14, Zenon
<1> QED BY <1>2, <1>3, <1>4, <1>5, <1>12, <1>15 DEF W

----------------------------------------------------------------------------
(***************************************************************************)
(* Every step keeps the invariant.                                         *)
(***************************************************************************)

\* What is left to know once parse_xom has been misled.
Astray ==
  /\ written \in Seq(Items)
  /\ \E S : log \in Seq(S)
  /\ Misled

\* That it had reported everything up to there stays true.
LEMMA StaysAstray ==
  ASSUME Astray, [Next]_vars
  PROVE  Astray'
<1>1. written \in Seq(Items) /\ Len(written) \in Nat
  BY LenProperties DEF Astray
<1>2. PICK S : log \in Seq(S)
  BY DEF Astray
<1>3. Len(log) \in Nat
  BY <1>2, LenProperties
<1>4. PICK m \in 1 .. Len(written) :
        /\ Misleads(written[m]) /\ m <= Len(log) + 1
        /\ \A k \in 1 .. m - 1 : log[k] = written[k]
  BY DEF Astray, Misled
<1>5. \/ UNCHANGED written
      \/ \E x \in Items : written' = Append(written, x)
  <2>1. ASSUME NEW h \in Headers, WriteHeader(h)
        PROVE  \E x \in Items : written' = Append(written, x)
    <3>1. [kind |-> "header", is |-> h] \in Items
      BY DEF Items
    <3> QED BY <2>1, <3>1 DEF WriteHeader
  <2>2. ASSUME NEW e \in Entries, WriteEntry(e)
        PROVE  \E x \in Items : written' = Append(written, x)
    <3>1. [kind |-> "entry", is |-> e] \in Items
      BY DEF Items
    <3> QED BY <2>2, <3>1 DEF WriteEntry
  <2>3. CASE StartDump \/ ReadHeader \/ ReadEntry \/ EndDump \/ Reported
             \/ UNCHANGED vars
    BY <2>3 DEF StartDump, ReadHeader, ReadEntry, EndDump, Reported, vars
  <2> QED BY <2>1, <2>2, <2>3 DEF Next
<1>6. UNCHANGED log \/ \E y : log' = Append(log, y)
  <2>1. ASSUME NEW x, WriteHeader(x) \/ WriteEntry(x) PROVE UNCHANGED log
    BY <2>1 DEF WriteHeader, WriteEntry, parseVars
  <2>2. CASE StartDump \/ EndDump \/ Reported \/ UNCHANGED vars
    BY <2>2 DEF StartDump, EndDump, Reported, vars, parseVars
  <2>3. CASE ReadHeader \/ ReadEntry
    BY <2>3 DEF ReadHeader, ReadEntry
  <2> QED BY <2>1, <2>2, <2>3 DEF Next
<1>7. /\ written' \in Seq(Items) /\ m \in 1 .. Len(written')
      /\ \A k \in 1 .. m : written'[k] = written[k]
  <2>1. CASE UNCHANGED written
    BY <1>1, <2>1
  <2>2. ASSUME NEW x \in Items, written' = Append(written, x)
        PROVE  /\ written' \in Seq(Items) /\ Len(written') = Len(written) + 1
               /\ \A k \in 1 .. Len(written) : written'[k] = written[k]
    BY <1>1, <2>2, AppendProperties
  <2>3. \A k \in 1 .. m : k \in 1 .. Len(written)
    BY <1>1
  <2>4. m \in 1 .. Len(written) + 1
    BY <1>1
  <2> QED BY <1>5, <2>1, <2>2, <2>3, <2>4
<1>8. /\ \E T : log' \in Seq(T)
      /\ m <= Len(log') + 1
      /\ \A k \in 1 .. m - 1 : log'[k] = log[k]
  <2>1. CASE UNCHANGED log
    BY <1>2, <1>4, <2>1
  <2>2. ASSUME NEW y, log' = Append(log, y)
        PROVE  /\ \E T : log' \in Seq(T)
               /\ m <= Len(log') + 1
               /\ \A k \in 1 .. m - 1 : log'[k] = log[k]
    <3> DEFINE T == S \cup {y}
    <3>1. log \in Seq(T) /\ y \in T
      BY <1>2
    <3> HIDE DEF T
    <3>2. /\ log' \in Seq(T) /\ Len(log') = Len(log) + 1
          /\ \A k \in 1 .. Len(log) : log'[k] = log[k]
      BY <2>2, <3>1, AppendProperties
    <3>3. m <= Len(log') + 1 /\ \A k \in 1 .. m - 1 : k \in 1 .. Len(log)
      BY <1>1, <1>3, <1>4, <3>2
    <3> QED BY <3>2, <3>3
  <2> QED BY <1>6, <2>1, <2>2
<1>9. Misled'
  <2>1. m \in 1 .. m /\ \A k \in 1 .. m - 1 : k \in 1 .. m
    BY <1>1
  <2>2. Misleads(written[m])'
    BY <1>4, <1>7, <2>1 DEF Misleads
  <2>3. \A k \in 1 .. m - 1 : log'[k] = written'[k]
    BY <1>4, <1>7, <1>8, <2>1
  <2> QED BY <1>7, <1>8, <2>2, <2>3 DEF Misled
<1> QED BY <1>7, <1>8, <1>9 DEF Astray

\* parse_xom reads an entry as a header.
LEMMA GoesAstray ==
  ASSUME DumpTypes, NEW ends, ReadSoFar(ends), Len(log) < Len(written),
         Misleads(written[Len(log) + 1])
  PROVE  Astray
<1>1. Len(log) \in Nat /\ Len(written) \in Nat
  BY LenProperties DEF DumpTypes
<1> DEFINE m == Len(log) + 1
<1>2. m \in 1 .. Len(written) /\ m <= Len(log) + 1 /\ m - 1 = Len(log)
  BY <1>1
<1>3. \A k \in 1 .. Len(log) : log[k] = written[k]
  BY DEF ReadSoFar
<1>4. \A k \in 1 .. m - 1 : log[k] = written[k]
  BY <1>2, <1>3
<1> HIDE DEF m
<1>5. Misled
  BY <1>2, <1>4 DEF Misled, m
<1> QED BY <1>5 DEF Astray, DumpTypes

LEMMA NextDump ==
  ASSUME DumpInv, ~Astray, [Next]_vars
  PROVE  DumpInv'
<1>1. PICK ends : Laid(ends) /\ ReadSoFar(ends)
  BY DEF DumpInv
<1>2. DumpTypes
  BY DEF DumpInv
<1> DEFINE x == written[Len(log) + 1]
<1>3. /\ Len(log) \in Nat /\ Len(log) <= Len(written)
      /\ Len(log) = Len(written) => Left = 0
      /\ Len(log) < Len(written) =>
           /\ x \in Items /\ Left >= Len(Words(x)) /\ Left > 0
           /\ \A i \in 1 .. Len(Words(x)) : Word(i) = Words(x)[i]
  BY <1>1, <1>2, AtItem
<1>4. Len(written) \in Nat /\ Left \in Int
  <2>1. Len(written) \in Nat /\ Len(section) \in Nat /\ offset \in Nat
    <3>1. Len(written) \in Nat /\ Len(section) \in Nat
      BY <1>2, LenProperties DEF DumpTypes
    <3>2. ends \in [0 .. Len(written) -> Nat] /\ offset = ends[Len(log)]
      BY <1>1 DEF Laid, ReadSoFar
    <3>3. Len(log) \in 0 .. Len(written)
      BY <3>1, <1>3
    <3> QED BY <3>1, <3>2, <3>3
  <2> QED BY <2>1 DEF Left
<1>5. ASSUME Left > 0 PROVE Len(log) < Len(written) /\ Left \in Nat
  BY <1>3, <1>4, <1>5
<1>t. Len(log) < Len(written) => ~Misleads(x)
  BY <1>1, <1>2, GoesAstray
<1> HIDE DEF x
<1>6. ASSUME NEW h \in Headers, WriteHeader(h) PROVE DumpInv'
  <2> DEFINE y == [kind |-> "header", is |-> h]
  <2>1. y \in Items
    BY DEF Items
  <2>2. Words(y) = HeaderWords(h)
    BY DEF Words
  <2>3. Linked(y)
    <3>1. /\ phase = "link" /\ section' = section \o HeaderWords(h)
          /\ written' = Append(written, y)
          /\ UNCHANGED <<phase, offset, log>>
      BY <1>6, Zenon DEF WriteHeader, parseVars
    <3> HIDE DEF y
    <3> QED BY <3>1, <2>2, Zenon DEF Linked
  <2> HIDE DEF y
  <2> QED BY <2>1, <2>3, WriteKeeps
<1>7. ASSUME NEW e \in Entries, WriteEntry(e) PROVE DumpInv'
  <2> DEFINE y == [kind |-> "entry", is |-> e]
  <2>1. y \in Items
    BY DEF Items
  <2>2. Words(y) = EntryWords(e)
    BY DEF Words
  <2>3. Linked(y)
    <3>1. /\ phase = "link" /\ section' = section \o EntryWords(e)
          /\ written' = Append(written, y)
          /\ UNCHANGED <<phase, offset, log>>
      BY <1>7, Zenon DEF WriteEntry, parseVars
    <3> HIDE DEF y
    <3> QED BY <3>1, <2>2, Zenon DEF Linked
  <2> HIDE DEF y
  <2> QED BY <2>1, <2>3, WriteKeeps
<1>8. CASE ReadHeader
  <2>1. /\ phase = "parse" /\ Left > 0 /\ Word(1) = MAGIC
        /\ UNCHANGED <<section, written, phase>>
        /\ offset' = offset + (Word(2) + 7)
        /\ log' = Append(log, [kind |-> "header",
                 is |-> [name_size |-> Word(2),
                         bytes_frag_num |-> Word(Word(2) + 4),
                         direct_data_num |-> Word(Word(2) + 6)]])
    BY <1>8, Zenon DEF ReadHeader, AtHeader, HeaderLen
  <2>2. /\ Word(2) \in Nat /\ Len(Words(x)) = Word(2) + 7
        /\ x = [kind |-> "header",
                is |-> [name_size |-> Word(2),
                        bytes_frag_num |-> Word(Word(2) + 4),
                        direct_data_num |-> Word(Word(2) + 6)]]
    BY <2>1, <1>3, <1>5, <1>t, HeaderAt
  <2>3. log' = Append(log, x) /\ UNCHANGED <<section, written, phase>>
    BY <2>1, <2>2, Zenon
  <2>4. offset' = offset + Len(Words(x))
    <3>1. offset \in Nat
      BY <1>1, <1>3, <1>4 DEF Laid, ReadSoFar
    <3> QED BY <3>1, <2>1, <2>2
  <2> QED BY <2>1, <2>3, <2>4, <1>1, <1>2, <1>5, ReadKeeps DEF x
<1>9. CASE ReadEntry
  <2>1. /\ phase = "parse" /\ Left > 0 /\ Word(1) # MAGIC
        /\ UNCHANGED <<section, written, phase>>
        /\ offset' = offset + (Word(6) + 6)
        /\ log' = Append(log, [kind |-> "entry",
                 is |-> [frag_address |-> Word(1), frag_size |-> Word(4),
                         name |-> [null |-> Word(6) > 0 /\ Word(7) = 1,
                                   size |-> Word(6)]]])
    BY <1>9, Zenon DEF ReadEntry, AtHeader, EntryLen
  <2>2. /\ Word(6) \in Nat /\ Len(Words(x)) = Word(6) + 6
        /\ x = [kind |-> "entry",
                is |-> [frag_address |-> Word(1), frag_size |-> Word(4),
                        name |-> [null |-> Word(6) > 0 /\ Word(7) = 1,
                                  size |-> Word(6)]]]
    BY <2>1, <1>3, <1>5, EntryAt
  <2>3. log' = Append(log, x) /\ UNCHANGED <<section, written, phase>>
    BY <2>1, <2>2, Zenon
  <2>4. offset' = offset + Len(Words(x))
    <3>1. offset \in Nat
      BY <1>1, <1>3, <1>4 DEF Laid, ReadSoFar
    <3> QED BY <3>1, <2>1, <2>2
  <2> QED BY <2>1, <2>3, <2>4, <1>1, <1>2, <1>5, ReadKeeps DEF x
<1>10. CASE EndDump
  <2>1. /\ phase' = "done" /\ UNCHANGED <<section, written, offset, log>>
        /\ \/ Left = 0
           \/ Left > 0 /\ Word(1) = MAGIC /\ ~HeaderFits
           \/ Left > 0 /\ Word(1) # MAGIC /\ ~EntryFits
    BY <1>10, Zenon DEF EndDump, AtHeader, parseVars
  <2>2. ~(Left > 0 /\ Word(1) = MAGIC /\ ~HeaderFits)
    BY <1>3, <1>5, <1>t, HeaderAt
  <2>3. ~(Left > 0 /\ Word(1) # MAGIC /\ ~EntryFits)
    BY <1>3, <1>5, EntryAt
  <2>4. Left = 0
    BY <2>1, <2>2, <2>3
  <2>5. Len(log) = Len(written)
    BY <2>4, <1>3, <1>4
  <2>6. ReadSoFar(ends)'
    BY <2>1, <2>5, <1>1 DEF ReadSoFar
  <2>7. Laid(ends)' /\ DumpTypes'
    BY <2>1, <1>1, <1>2 DEF Laid, DumpTypes
  <2> QED BY <2>6, <2>7 DEF DumpInv
<1>11. CASE StartDump
  <2>1. /\ phase' = "parse" /\ UNCHANGED <<section, written, offset, log>>
    BY <1>11 DEF StartDump, parseVars
  <2>2. ReadSoFar(ends)'
    BY <2>1, <1>1 DEF ReadSoFar
  <2>3. Laid(ends)' /\ DumpTypes'
    BY <2>1, <1>1, <1>2 DEF Laid, DumpTypes
  <2> QED BY <2>2, <2>3 DEF DumpInv
<1>12. CASE UNCHANGED vars
  <2>1. UNCHANGED <<section, written, phase, offset, log>>
    BY <1>12 DEF vars, parseVars
  <2>2. ReadSoFar(ends)' /\ Laid(ends)' /\ DumpTypes'
    BY <2>1, <1>1, <1>2 DEF ReadSoFar, Laid, DumpTypes
  <2> QED BY <2>2 DEF DumpInv
<1>13. CASE Reported
  BY <1>12, <1>13 DEF Reported
<1> QED
  BY <1>6, <1>7, <1>8, <1>9, <1>10, <1>11, <1>12, <1>13, Zenon DEF Next

\* The section is what datascope.c wrote, item by item, and parse_xom is always
\* at the end of an item it reported as it was written, until it comes to an
\* entry whose address has the magic word as its low half.
THEOREM ItemByItem == Spec => [](DumpInv \/ Astray)
<1>1. (DumpInv \/ Astray) /\ [Next]_vars => (DumpInv \/ Astray)'
  BY NextDump, StaysAstray
<1> QED BY InitDump, <1>1, PTL DEF Spec

\* parse_xom stays in step with the writers until such an entry misleads it.
THEOREM StaysInStep == Spec => []InStep
<1>1. ASSUME DumpInv PROVE InStep
  <2>1. PICK ends : ReadSoFar(ends)
    BY <1>1 DEF DumpInv
  <2>2. log \in Seq(Items) /\ written \in Seq(Items) /\ Len(log) \in Nat
        /\ Len(written) \in Nat
    BY <1>1, LenProperties DEF DumpInv, DumpTypes
  <2>3. Len(log) <= Len(written)
        /\ \A k \in 1 .. Len(log) : log[k] = written[k]
    BY <2>1 DEF ReadSoFar
  <2> QED BY <2>2, <2>3 DEF InStep, IsPrefix
<1>2. DumpInv \/ Astray => InStep
  BY <1>1 DEF Astray, InStep
<1> QED BY <1>2, ItemByItem, PTL

\* Where parse_xom ends, it has reported everything that was written, or at
\* least everything before an entry that misled it: it never leaves its loop
\* because something else does not fit.
THEOREM EndsComplete == Spec => [](phase = "done" => log = written \/ Misled)
<1>1. ASSUME DumpInv, phase = "done" PROVE log = written
  <2>1. PICK ends : ReadSoFar(ends)
    BY <1>1 DEF DumpInv
  <2>2. log \in Seq(Items) /\ written \in Seq(Items)
    BY <1>1 DEF DumpInv, DumpTypes
  <2>3. Len(log) = Len(written)
        /\ \A k \in 1 .. Len(log) : log[k] = written[k]
    BY <1>1, <2>1 DEF ReadSoFar
  <2> QED BY <2>2, <2>3, SeqEqual
<1>2. DumpInv \/ Astray => (phase = "done" => log = written \/ Misled)
  BY <1>1 DEF Astray
<1> QED BY <1>2, ItemByItem, PTL
----------------------------------------------------------------------------
(***************************************************************************)
(* The length checks of parse_xom are enough, whatever it reads.           *)
(***************************************************************************)

Inside == section \in Seq(Nat) /\ offset \in 0 .. Len(section)

LEMMA HeaderInside ==
  ASSUME Inside, ReadHeader
  PROVE  offset < offset' /\ offset' <= Len(section) /\ offset' \in Nat
<1> DEFINE L == Len(section)
           n == Word(2)
<1>1. L \in Nat /\ offset \in Nat /\ offset <= L
  BY LenProperties DEF Inside
<1>2. /\ offset' = offset + (n + 7)
      /\ L - offset >= 2 /\ L - offset - 2 - n >= 5
  BY DEF ReadHeader, HeaderLen, HeaderFits, Left
<1>3. n \in Nat
  <2>1. offset + 2 \in 1 .. L
    BY <1>1, <1>2
  <2> QED BY <2>1 DEF Inside, Word
<1> HIDE DEF L, n
<1>4. offset < offset' /\ offset' <= L /\ offset' \in Nat
  BY <1>1, <1>2, <1>3
<1> QED BY <1>4 DEF L

LEMMA EntryInside ==
  ASSUME Inside, ReadEntry
  PROVE  offset < offset' /\ offset' <= Len(section) /\ offset' \in Nat
<1> DEFINE L == Len(section)
           n == Word(6)
<1>1. L \in Nat /\ offset \in Nat /\ offset <= L
  BY LenProperties DEF Inside
<1>2. /\ offset' = offset + (n + 6)
      /\ L - offset >= 6 /\ L - offset - 6 >= n
  BY DEF ReadEntry, EntryLen, EntryFits, Left
<1>3. n \in Nat
  <2>1. offset + 6 \in 1 .. L
    BY <1>1, <1>2
  <2> QED BY <2>1 DEF Inside, Word
<1> HIDE DEF L, n
<1>4. offset < offset' /\ offset' <= L /\ offset' \in Nat
  BY <1>1, <1>2, <1>3
<1> QED BY <1>4 DEF L

\* Writing makes the section longer.
LEMMA WriteInside ==
  ASSUME Inside, NEW w \in Seq(Nat), section' = section \o w, UNCHANGED offset
  PROVE  Inside'
<1>1. /\ section \in Seq(Nat) /\ Len(section) \in Nat /\ Len(w) \in Nat
      /\ offset \in 0 .. Len(section)
  BY LenProperties DEF Inside
<1>2. section' \in Seq(Nat) /\ Len(section') = Len(section) + Len(w)
  BY <1>1, ConcatProperties
<1> QED BY <1>1, <1>2 DEF Inside

\* Every step of parse_xom advances and stays inside the section, also behind
\* an entry that misled it and for whatever lengths it then reads: with this
\* the length of what is left is a bound on the steps the loop takes.
THEOREM LoopAdvances == Spec => ParseAdvances
<1>1. Init => Inside
  BY DEF Init, Inside
<1>2. Inside /\ [Next]_vars => Inside'
  <2> SUFFICES ASSUME Inside, [Next]_vars PROVE Inside'
    OBVIOUS
  <2>1. ASSUME NEW h \in Headers, WriteHeader(h) PROVE Inside'
    <3>1. HeaderWords(h) \in Seq(Nat)
      BY HeaderWordsAre
    <3> QED BY <2>1, <3>1, WriteInside DEF WriteHeader, parseVars
  <2>2. ASSUME NEW e \in Entries, WriteEntry(e) PROVE Inside'
    <3>1. EntryWords(e) \in Seq(Nat)
      BY EntryWordsAre
    <3> QED BY <2>2, <3>1, WriteInside DEF WriteEntry, parseVars
  <2>3. CASE ReadHeader
    <3>1. section' = section /\ Len(section) \in Nat
      BY <2>3, LenProperties DEF ReadHeader, Inside
    <3> QED BY <2>3, <3>1, HeaderInside DEF Inside
  <2>4. CASE ReadEntry
    <3>1. section' = section /\ Len(section) \in Nat
      BY <2>4, LenProperties DEF ReadEntry, Inside
    <3> QED BY <2>4, <3>1, EntryInside DEF Inside
  <2>5. CASE StartDump \/ EndDump \/ Reported \/ UNCHANGED vars
    BY <2>5 DEF StartDump, EndDump, Reported, vars, parseVars, Inside
  <2> QED BY <2>1, <2>2, <2>3, <2>4, <2>5 DEF Next
<1>3. Inside /\ [Next]_vars =>
        [phase = "parse" /\ phase' = "parse" =>
           offset < offset' /\ offset' <= Len(section)]_vars
  <2> SUFFICES ASSUME Inside, Next, phase = "parse", phase' = "parse"
               PROVE  \/ offset < offset' /\ offset' <= Len(section)
                      \/ UNCHANGED vars
    OBVIOUS
  <2>1. CASE ReadHeader
    BY <2>1, HeaderInside
  <2>2. CASE ReadEntry
    BY <2>2, EntryInside
  <2>3. ASSUME NEW x, WriteHeader(x) \/ WriteEntry(x) PROVE FALSE
    BY <2>3 DEF WriteHeader, WriteEntry
  <2>4. ~StartDump /\ ~EndDump /\ ~Reported
    BY DEF StartDump, EndDump, Reported
  <2> QED BY <2>1, <2>2, <2>3, <2>4 DEF Next
<1> QED BY <1>1, <1>2, <1>3, PTL DEF Spec, ParseAdvances
=============================================================================
