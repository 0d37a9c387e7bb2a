---------------------------- MODULE MpkXomProofs ----------------------------
(***************************************************************************)
(* Theorems about MpkXom, for any threads, keys, page size and header      *)
(* tables: the types, which pages get the key, that their permissions are  *)
(* kept, and that no thread can read the protected code.                   *)
(***************************************************************************)
EXTENDS MpkXom, Integers, TLAPS

USE MpkConstantsOK

(***************************************************************************)
(* Rounding to pages.                                                      *)
(***************************************************************************)

\* The quotient of a division, and what is left.
LEMMA Quotient ==
  ASSUME NEW x \in Nat, NEW P \in Nat \ {0}
  PROVE  /\ x \div P \in Nat
         /\ (x \div P) * P <= x
         /\ x < (x \div P) * P + P
  OBVIOUS

\* Multiples of a positive number are that number apart.
LEMMA Multiples ==
  ASSUME NEW a \in Int, NEW b \in Int, a < b, NEW P \in Nat \ {0}
  PROVE  a * P + P <= b * P
  OBVIOUS

\* A quotient is at least q when q times the divisor fits.
LEMMA QuotientAtLeast ==
  ASSUME NEW x \in Nat, NEW q \in Int, NEW P \in Nat \ {0}
  PROVE  q <= x \div P <=> q * P <= x
<1> DEFINE d == x \div P
<1>1. d \in Nat /\ d * P <= x /\ x < d * P + P
  BY Quotient
<1> HIDE DEF d
<1>2. q < d => q * P + P <= d * P
  BY <1>1, Multiples
<1>3. q > d => d * P + P <= q * P
  BY <1>1, Multiples
<1>4. q * P \in Int /\ d * P \in Int
  BY <1>1
<1>5. q <= d <=> q * P <= x
  BY <1>1, <1>2, <1>3, <1>4
<1> QED BY <1>5 DEF d

\* Page p has a byte of the loaded segment h when it begins before the end of
\* h and ends behind its start.
LEMMA PageOf ==
  ASSUME NEW h \in Phdr, h.load, NEW p \in Int
  PROVE  p \in PagesOf(h) <=> /\ p * PageSize < h.lo + h.memsz
                              /\ h.lo < p * PageSize + PageSize
                              /\ 0 <= p
                              /\ h.memsz # 0
<1>1. h.lo \in Nat /\ h.memsz \in Nat
  BY DEF Phdr, Addrs
<1>2. \A a \in Nat : p = a \div PageSize <=>
                       p * PageSize <= a /\ a < p * PageSize + PageSize
  <2> SUFFICES ASSUME NEW a \in Nat
               PROVE  p = a \div PageSize <=>
                        p * PageSize <= a /\ a < p * PageSize + PageSize
    OBVIOUS
  <2>1. p <= a \div PageSize <=> p * PageSize <= a
    BY QuotientAtLeast
  <2>2. p + 1 <= a \div PageSize <=> (p + 1) * PageSize <= a
    BY QuotientAtLeast
  <2>3. (p + 1) * PageSize = p * PageSize + PageSize /\ p * PageSize \in Int
    OBVIOUS
  <2>4. a \div PageSize \in Nat
    BY Quotient
  <2> QED BY <2>1, <2>2, <2>3, <2>4
<1>3. p \in PagesOf(h) <=> \E a \in h.lo .. (h.lo + h.memsz - 1) :
                             p = a \div PageSize
  BY DEF PagesOf
<1> DEFINE u == p * PageSize
<1>4. u \in Int /\ (0 <= p <=> u + PageSize > 0)
  <2>1. u \in Int
    OBVIOUS
  <2>2. p < 0 => u + PageSize <= 0 * PageSize
    BY Multiples
  <2>3. 0 < p => 0 * PageSize + PageSize <= u
    BY Multiples
  <2>4. 0 * PageSize = 0
    OBVIOUS
  <2>5. p = 0 => u = 0
    BY <2>4
  <2> HIDE DEF u
  <2> QED BY <2>1, <2>2, <2>3, <2>4, <2>5
<1> HIDE DEF u
<1>5. p \in PagesOf(h) <=> \E a \in h.lo .. (h.lo + h.memsz - 1) :
                             u <= a /\ a < u + PageSize
  <2>1. \A a \in h.lo .. (h.lo + h.memsz - 1) : a \in Nat
    BY <1>1
  <2>2. \A a \in h.lo .. (h.lo + h.memsz - 1) :
          p = a \div PageSize <=> u <= a /\ a < u + PageSize
    BY <1>2, <2>1 DEF u
  <2> QED BY <1>3, <2>2
<1>6. ASSUME u < h.lo + h.memsz, h.lo < u + PageSize, h.memsz # 0
      PROVE  \E a \in h.lo .. (h.lo + h.memsz - 1) :
               u <= a /\ a < u + PageSize
  <2> DEFINE a == IF u < h.lo THEN h.lo ELSE u
  <2>1. a \in h.lo .. (h.lo + h.memsz - 1) /\ u <= a /\ a < u + PageSize
    BY <1>1, <1>4, <1>6
  <2> HIDE DEF a
  <2> QED BY <2>1
<1>7. ASSUME NEW a \in h.lo .. (h.lo + h.memsz - 1),
             u <= a, a < u + PageSize
      PROVE  /\ u < h.lo + h.memsz /\ h.lo < u + PageSize
             /\ 0 <= p /\ h.memsz # 0
  BY <1>1, <1>4, <1>7
<1> QED BY <1>5, <1>6, <1>7 DEF u

\* The pages of a segment are pages of the memory.
LEMMA PagesInMemory ==
  ASSUME NEW h \in Phdr, NEW p \in PagesOf(h)
  PROVE  p \in Pages
<1>1. h.load /\ h.lo \in Nat /\ h.memsz \in Nat
  BY DEF PagesOf, Phdr, Addrs
<1>2. PICK a \in h.lo .. (h.lo + h.memsz - 1) : p = a \div PageSize
  BY <1>1 DEF PagesOf
<1>3. a \in Nat /\ p \in Nat
  BY <1>1, <1>2, Quotient
<1>4. p * PageSize < PageSize * (MaxPage + 1)
  <2>1. h.lo + h.memsz <= PageSize * (MaxPage + 1)
    BY <1>1 DEF Phdr
  <2>2. p * PageSize < h.lo + h.memsz
    BY <1>1, <1>3, PageOf
  <2>3. p * PageSize \in Int /\ PageSize * (MaxPage + 1) \in Int
    BY <1>3
  <2> QED BY <1>1, <2>1, <2>2, <2>3
<1>5. p > MaxPage => (MaxPage + 1) * PageSize <= p * PageSize
  <2>1. p > MaxPage => MaxPage * PageSize + PageSize <= p * PageSize
    BY <1>3, Multiples
  <2>2. (MaxPage + 1) * PageSize = MaxPage * PageSize + PageSize
    OBVIOUS
  <2> QED BY <2>1, <2>2
<1>6. (MaxPage + 1) * PageSize = PageSize * (MaxPage + 1)
  OBVIOUS
<1>7. p * PageSize \in Int /\ PageSize * (MaxPage + 1) \in Int
  BY <1>3
<1>8. p <= MaxPage
  BY <1>3, <1>4, <1>5, <1>6, <1>7
<1> QED BY <1>3, <1>8 DEF Pages

\* A header that is not loaded or has no bytes has no pages.
LEMMA NoPages ==
  ASSUME NEW h \in Phdr, ~h.load \/ h.memsz = 0
  PROVE  PagesOf(h) = {}
<1> SUFFICES ASSUME NEW p \in PagesOf(h) PROVE FALSE
  OBVIOUS
<1>1. h.load
  BY DEF PagesOf
<1>2. p \in Int
  BY PagesInMemory DEF Pages
<1> QED BY <1>1, <1>2, PageOf

\* Rounding the bounds of a segment with bytes to pages covers exactly the
\* pages that have a byte of it.
LEMMA RangeExact ==
  ASSUME NEW h \in Phdr, Selected(h)
  PROVE  RangeOf(h) = PagesOf(h)
<1>1. /\ h.load /\ h.memsz # 0 /\ h.lo \in Nat /\ h.memsz \in Nat
  BY DEF Selected, Phdr, Addrs
<1> DEFINE hi == h.lo + h.memsz
           up == hi + PageSize - 1
<1>2. hi \in Nat /\ up \in Nat
  BY <1>1
<1>e. hi = h.lo + h.memsz /\ up = hi + PageSize - 1
  OBVIOUS
<1>3. \A p \in Int : p \in RangeOf(h) <=>
        p >= h.lo \div PageSize /\ p <= (up \div PageSize) - 1
  <2>1. h.lo \div PageSize \in Nat /\ up \div PageSize \in Nat
    BY <1>1, <1>2, Quotient
  <2> QED BY <1>1, <2>1 DEF RangeOf
<1> HIDE DEF hi, up
<1>4. ASSUME NEW p \in Int
      PROVE  p \in RangeOf(h) <=> p \in PagesOf(h)
  <2> DEFINE u == p * PageSize
  <2>1. u \in Int /\ (p + 1) * PageSize = u + PageSize
    OBVIOUS
  <2>2. p + 1 <= h.lo \div PageSize <=> (p + 1) * PageSize <= h.lo
    BY <1>1, QuotientAtLeast
  <2>3. p + 1 <= up \div PageSize <=> (p + 1) * PageSize <= up
    BY <1>2, QuotientAtLeast
  <2>4. h.lo \div PageSize \in Nat /\ up \div PageSize \in Nat
    BY <1>1, <1>2, Quotient
  <2>5. p \in PagesOf(h) <=> u < hi /\ h.lo < u + PageSize /\ 0 <= p
    BY <1>1, <1>e, PageOf
  <2> HIDE DEF u
  <2>6. p \in RangeOf(h) <=> h.lo < u + PageSize /\ u + PageSize <= up
    <3>1. p \in RangeOf(h) <=> ~(p + 1 <= h.lo \div PageSize)
                               /\ p + 1 <= up \div PageSize
      BY <1>3, <2>4
    <3> QED BY <1>1, <1>2, <2>1, <2>2, <2>3, <3>1
  <2>7. p \in RangeOf(h) => 0 <= p
    BY <1>3, <2>4
  <2> QED BY <1>1, <1>2, <1>e, <2>1, <2>5, <2>6, <2>7
<1>5. RangeOf(h) \subseteq Int
  BY <1>1, <1>2, Quotient DEF RangeOf
<1>6. PagesOf(h) \subseteq Int
  BY PagesInMemory DEF Pages
<1> QED BY <1>4, <1>5, <1>6

(***************************************************************************)
(* The objects.                                                            *)
(***************************************************************************)

\* The headers of the loaded objects are headers.
LEMMA HeaderType ==
  ASSUME NEW os \in Seq(Seq(Phdr)), NEW n \in DOMAIN os,
         NEW m \in DOMAIN os[n]
  PROVE  os[n][m] \in Phdr
  OBVIOUS

\* A page of the code to protect, by the object and the header it is of.
LEMMA CodePage ==
  ASSUME NEW p
  PROVE  p \in CodePages <=>
           \E n \in DOMAIN listed : \E m \in DOMAIN listed[n] :
             /\ InScope(n)
             /\ "x" \in listed[n][m].flags
             /\ p \in PagesOf(listed[n][m])
  BY DEF CodePages, Headers

\* The occupied pages, by the object and the header they are of.
LEMMA OccupiedPage ==
  ASSUME NEW os, NEW p
  PROVE  p \in Occupied(os) <=>
           \E n \in DOMAIN os : \E m \in DOMAIN os[n] :
             p \in PagesOf(os[n][m])
  BY DEF Occupied, Headers

\* Mapping segments that have pages of their own gives every page of a
\* segment its permissions and leaves the other pages alone.
LEMMA MappedPages ==
  ASSUME NEW pr \in [Pages -> SUBSET {"r", "w", "x"}],
         NEW h \in Seq(Phdr), Disjoint(h)
  PROVE  /\ Mapped(pr, h) \in [Pages -> SUBSET {"r", "w", "x"}]
         /\ \A m \in DOMAIN h : \A p \in PagesOf(h[m]) :
              Mapped(pr, h)[p] = h[m].flags
         /\ \A p \in Pages : (\A m \in DOMAIN h : p \notin PagesOf(h[m])) =>
              Mapped(pr, h)[p] = pr[p]
<1>d. DOMAIN h = 1 .. Len(h)
  OBVIOUS
<1>1. ASSUME NEW p \in Pages, NEW m \in 1 .. Len(h), p \in PagesOf(h[m])
      PROVE  Mapped(pr, h)[p] = h[m].flags
  <2> DEFINE c == CHOOSE n \in 1 .. Len(h) : p \in PagesOf(h[n])
  <2>1. c \in 1 .. Len(h) /\ p \in PagesOf(h[c])
    BY <1>1
  <2>2. Mapped(pr, h)[p] = h[c].flags
    BY <1>1 DEF Mapped
  <2> HIDE DEF c
  <2>3. c = m
    BY <1>1, <2>1 DEF Disjoint
  <2> QED BY <2>2, <2>3
<1>2. ASSUME NEW p \in Pages, \A m \in 1 .. Len(h) : p \notin PagesOf(h[m])
      PROVE  Mapped(pr, h)[p] = pr[p]
  BY <1>2 DEF Mapped
<1>3. \A m \in 1 .. Len(h) : h[m] \in Phdr
  BY <1>d
<1>4. \A m \in 1 .. Len(h) : \A p \in PagesOf(h[m]) : p \in Pages
  BY <1>3, PagesInMemory
<1>5. Mapped(pr, h) \in [Pages -> SUBSET {"r", "w", "x"}]
  <2>1. ASSUME NEW p \in Pages
        PROVE  Mapped(pr, h)[p] \in SUBSET {"r", "w", "x"}
    <3>1. CASE \E m \in 1 .. Len(h) : p \in PagesOf(h[m])
      <4>1. PICK m \in 1 .. Len(h) : p \in PagesOf(h[m])
        BY <3>1
      <4>2. h[m].flags \in SUBSET {"r", "w", "x"}
        BY <1>3 DEF Phdr
      <4> QED BY <1>1, <4>1, <4>2
    <3>2. CASE \A m \in 1 .. Len(h) : p \notin PagesOf(h[m])
      BY <1>2, <3>2
    <3> QED BY <3>1, <3>2
  <2>2. Mapped(pr, h) = [p \in Pages |-> Mapped(pr, h)[p]]
    BY DEF Mapped
  <2> QED BY <2>1, <2>2
<1> QED BY <1>d, <1>1, <1>2, <1>4, <1>5

(***************************************************************************)
(* The invariant.                                                          *)
(***************************************************************************)

\* All that the proof carries along.
MpkSafe == MpkTypeOK /\ MpkInv /\ OnlyCodeKeyed

\* The invariant holds when the first constructor is called.
LEMMA InitMpkSafe == Init => MpkSafe
<1> SUFFICES ASSUME Init PROVE MpkSafe
  OBVIOUS
<1>1. PICK h \in Programs :
        /\ Disjoint(h) /\ objs = <<h>>
        /\ prot = Mapped([p \in Pages |-> {"r", "w"}], h)
  BY DEF Init
<1>h. h \in Seq(Phdr)
  OBVIOUS
<1>2. /\ prot \in [Pages -> SUBSET {"r", "w", "x"}]
      /\ \A m \in DOMAIN h : \A p \in PagesOf(h[m]) : prot[p] = h[m].flags
  <2>1. [p \in Pages |-> {"r", "w"}] \in [Pages -> SUBSET {"r", "w", "x"}]
    OBVIOUS
  <2> QED BY <1>1, <1>h, <2>1, MappedPages
<1>3. MpkTypeOK
  <2>1. objs \in Seq(Seq(Phdr)) /\ listed \in Seq(Seq(Phdr))
    BY <1>1, <1>h DEF Init
  <2>2. pkru \in [Threads -> [Keys -> Rights]]
    BY DEF Init, InitialPkru, Rights
  <2> QED BY <1>2, <2>1, <2>2 DEF Init, MpkTypeOK
<1>4. KeyKept
  BY DEF Init, KeyKept
<1>5. RightsGranted
  BY DEF Init, RightsGranted, InitialPkru
<1>6. ObjectsMapped
  <2>1. /\ DOMAIN objs = {1} /\ objs[1] = h /\ DOMAIN listed = {}
        /\ key = [p \in Pages |-> 0]
    BY <1>1 DEF Init
  <2>2. \A m \in DOMAIN h : \A p \in PagesOf(h[m]) : p \in Pages
    BY <1>h, PagesInMemory
  <2> QED BY <1>2, <2>1, <2>2 DEF ObjectsMapped
<1>7. CodeKeyed
  BY DEF Init, CodeKeyed
<1>8. OnlyCodeKeyed
  BY DEF Init, OnlyCodeKeyed
<1> QED BY <1>3, <1>4, <1>5, <1>6, <1>7, <1>8 DEF MpkSafe, MpkInv

\* The code to protect depends on the objects found and the scope.
LEMMA SameCode ==
  ASSUME UNCHANGED <<listed, g_protect_all>>
  PROVE  CodePages' = CodePages
  BY DEF CodePages, InScope, Headers

\* A new thread gets the rights of one that is not the main thread within the
\* constructor.
LEMMA SpawnSafe ==
  ASSUME MpkSafe, NEW t \in Threads, NEW u \in Threads, Spawn(t, u)
  PROVE  MpkSafe'
<1> USE DEF MpkSafe, MpkInv
<1>1. /\ UNCHANGED <<pc, g_pkey, g_protect_all, g_protected_segments, obj, i,
                     objs, prot, key, allocated, freed, listed>>
      /\ live' = live \cup {u}
      /\ pkru' = [pkru EXCEPT ![u] = pkru[t]]
      /\ u \notin live
      /\ t = Main => pc \in {"start", "main"}
  BY DEF Spawn, Runs, initVars
<1>2. MpkTypeOK'
  <2>1. pkru' \in [Threads -> [Keys -> Rights]]
    BY <1>1 DEF MpkTypeOK
  <2> QED BY <1>1, <2>1 DEF MpkTypeOK
<1>3. KeyKept' /\ ObjectsMapped' /\ CodeKeyed'
  BY <1>1 DEF KeyKept, ObjectsMapped, CodeKeyed, Passed, InScope
<1>4. RightsGranted'
  <2>1. u # Main /\ Main \in live'
    BY <1>1 DEF RightsGranted
  <2>2. \A v \in Threads : pkru'[v] = IF v = u THEN pkru[t] ELSE pkru[v]
    BY <1>1 DEF MpkTypeOK
  <2>3. (g_pkey # NULL /\ t = Main) => pc = "main"
    BY <1>1 DEF KeyKept
  <2> QED BY <1>1, <2>1, <2>2, <2>3 DEF RightsGranted
<1>5. OnlyCodeKeyed'
  BY <1>1, SameCode DEF OnlyCodeKeyed
<1> QED BY <1>2, <1>3, <1>4, <1>5

\* A library that allocates a key does not get the constructor's, and puts no
\* page of an object under its own.
LEMMA LibAllocSafe ==
  ASSUME MpkSafe, NEW t \in Threads, NEW k \in Keys, NEW r \in Rights,
         NEW q \in Pages, LibAlloc(t, k, r, q)
  PROVE  MpkSafe'
<1> USE DEF MpkSafe, MpkInv
<1>1. /\ UNCHANGED <<pc, g_pkey, g_protect_all, g_protected_segments, obj, i,
                     objs, prot, live, freed, listed>>
      /\ k \notin allocated /\ q \notin Occupied(objs) /\ key[q] = 0
      /\ allocated' = allocated \cup {k}
      /\ pkru' = [pkru EXCEPT ![t][k] = r]
      /\ key' = [key EXCEPT ![q] = k]
  BY DEF LibAlloc, initVars
<1>t. /\ key \in [Pages -> Keys \cup {0}]
      /\ pkru \in [Threads -> [Keys -> Rights]]
  BY DEF MpkTypeOK
<1>2. MpkTypeOK'
  <2>1. pkru' \in [Threads -> [Keys -> Rights]]
    BY <1>1, <1>t
  <2>2. key' \in [Pages -> Keys \cup {0}] /\ allocated' \subseteq Keys
    BY <1>1, <1>t DEF MpkTypeOK
  <2> QED BY <1>1, <2>1, <2>2 DEF MpkTypeOK
<1>3. KeyKept'
  BY <1>1, <1>t DEF KeyKept
<1>g. g_pkey # NULL => k # g_pkey /\ g_pkey # 0
  BY <1>1 DEF KeyKept, MpkTypeOK
<1>4. RightsGranted'
  <2>1. \A v \in Threads, j \in Keys : j # k => pkru'[v][j] = pkru[v][j]
    BY <1>1, <1>t
  <2>2. g_pkey # NULL => g_pkey \in Keys
    BY DEF MpkTypeOK
  <2> QED BY <1>1, <1>g, <2>1, <2>2 DEF RightsGranted
<1>p. \A n \in DOMAIN objs : \A m \in DOMAIN objs[n] :
        \A p \in PagesOf(objs[n][m]) : key'[p] = key[p]
  BY <1>1, <1>t, OccupiedPage
<1>5. ObjectsMapped'
  BY <1>1, <1>p DEF ObjectsMapped
<1>6. CodeKeyed'
  <2>1. \A n \in DOMAIN listed : n \in DOMAIN objs /\ listed[n] = objs[n]
    BY DEF ObjectsMapped
  <2> QED BY <1>1, <1>p, <2>1 DEF CodeKeyed, Passed, InScope
<1>7. OnlyCodeKeyed'
  BY <1>1, <1>t, <1>g, SameCode DEF OnlyCodeKeyed
<1> QED BY <1>2, <1>3, <1>4, <1>5, <1>6, <1>7

\* A library that frees its key leaves the constructor's alone.
LEMMA LibFreeSafe ==
  ASSUME MpkSafe, NEW t \in Threads, NEW k \in Keys, LibFree(t, k)
  PROVE  MpkSafe'
<1> USE DEF MpkSafe, MpkInv
<1>1. /\ UNCHANGED <<pc, g_pkey, g_protect_all, g_protected_segments, obj, i,
                     objs, prot, live, pkru, listed>>
      /\ k # g_pkey
      /\ allocated' = allocated \ {k}
      /\ freed' = freed \cup {k}
      /\ key' = [p \in Pages |-> IF key[p] = k THEN 0 ELSE key[p]]
  BY DEF LibFree, initVars
<1>t. key \in [Pages -> Keys \cup {0}]
  BY DEF MpkTypeOK
<1>2. MpkTypeOK'
  BY <1>1, <1>t DEF MpkTypeOK
<1>3. KeyKept'
  BY <1>1, <1>t DEF KeyKept
<1>4. RightsGranted'
  BY <1>1 DEF RightsGranted
<1>h. \A n \in DOMAIN objs : \A m \in DOMAIN objs[n] :
        \A p \in PagesOf(objs[n][m]) : p \in Pages
  <2>1. objs \in Seq(Seq(Phdr))
    BY DEF MpkTypeOK
  <2> QED BY <2>1, HeaderType, PagesInMemory
<1>5. ObjectsMapped'
  BY <1>1, <1>h DEF ObjectsMapped
<1>6. CodeKeyed'
  <2>1. \A n \in DOMAIN listed : n \in DOMAIN objs /\ listed[n] = objs[n]
    BY DEF ObjectsMapped
  <2> QED BY <1>1, <1>h, <2>1 DEF CodeKeyed, Passed, InScope
<1>7. OnlyCodeKeyed'
  <2>1. g_pkey # NULL => g_pkey # 0
    BY DEF MpkTypeOK
  <2> QED BY <1>1, <1>t, <2>1, SameCode DEF OnlyCodeKeyed
<1> QED BY <1>2, <1>3, <1>4, <1>5, <1>6, <1>7

\* An object is loaded on pages that nothing occupies and that have no key.
LEMMA LoadSafe ==
  ASSUME MpkSafe, NEW t \in Threads, NEW h \in Libraries, Load(t, h)
  PROVE  MpkSafe'
<1> USE DEF MpkSafe, MpkInv
<1>1. /\ UNCHANGED <<pc, g_pkey, g_protect_all, g_protected_segments, obj, i,
                     key, live, pkru, allocated, freed, listed>>
      /\ Disjoint(h)
      /\ \A m \in 1 .. Len(h) : /\ PagesOf(h[m]) \cap Occupied(objs) = {}
                                /\ \A p \in PagesOf(h[m]) : key[p] = 0
      /\ objs' = Append(objs, h)
      /\ prot' = Mapped(prot, h)
  BY DEF Load, initVars
<1>h. h \in Seq(Phdr) /\ DOMAIN h = 1 .. Len(h)
  OBVIOUS
<1>t. /\ objs \in Seq(Seq(Phdr)) /\ listed \in Seq(Seq(Phdr))
      /\ prot \in [Pages -> SUBSET {"r", "w", "x"}]
  BY DEF MpkTypeOK
<1>m. /\ prot' \in [Pages -> SUBSET {"r", "w", "x"}]
      /\ \A m \in DOMAIN h : \A p \in PagesOf(h[m]) : prot'[p] = h[m].flags
      /\ \A p \in Pages : (\A m \in DOMAIN h : p \notin PagesOf(h[m])) =>
           prot'[p] = prot[p]
  <2>1. Disjoint(h) /\ prot' = Mapped(prot, h)
    BY <1>1
  <2>2. /\ prot' \in [Pages -> SUBSET {"r", "w", "x"}]
        /\ \A m \in DOMAIN h : \A p \in PagesOf(h[m]) : prot'[p] = h[m].flags
    <3>1. PICK pr \in [Pages -> SUBSET {"r", "w", "x"}] : pr = prot
      BY <1>t
    <3>2. prot' = Mapped(pr, h)
      BY <2>1, <3>1
    <3>3. /\ Mapped(pr, h) \in [Pages -> SUBSET {"r", "w", "x"}]
          /\ \A m \in DOMAIN h : \A p \in PagesOf(h[m]) :
               Mapped(pr, h)[p] = h[m].flags
      BY <1>h, <2>1, MappedPages
    <3> QED BY <3>2, <3>3
  <2>3. ASSUME NEW p \in Pages, \A m \in DOMAIN h : p \notin PagesOf(h[m])
        PROVE  prot'[p] = prot[p]
    BY <1>h, <1>t, <2>1, <2>3 DEF Mapped
  <2> QED BY <2>2, <2>3
<1>o. /\ objs' \in Seq(Seq(Phdr))
      /\ DOMAIN objs' = DOMAIN objs \cup {Len(objs) + 1}
      /\ \A n \in DOMAIN objs : objs'[n] = objs[n]
      /\ objs'[Len(objs) + 1] = h
  BY <1>1, <1>h, <1>t
<1>2. MpkTypeOK'
  BY <1>1, <1>m, <1>o DEF MpkTypeOK
<1>3. KeyKept' /\ RightsGranted' /\ CodeKeyed'
  BY <1>1 DEF KeyKept, RightsGranted, CodeKeyed, Passed, InScope
<1>4. ObjectsMapped'
  <2>1. ASSUME NEW n \in DOMAIN objs, NEW m \in DOMAIN objs[n],
               NEW p \in PagesOf(objs[n][m])
        PROVE  prot'[p] = objs[n][m].flags /\ key'[p] \in {0, g_pkey}
    <3>1. p \in Pages
      BY <1>t, HeaderType, PagesInMemory
    <3>2. \A j \in DOMAIN h : p \notin PagesOf(h[j])
      BY <1>1, <1>h, OccupiedPage
    <3> QED BY <1>1, <1>m, <3>1, <3>2 DEF ObjectsMapped
  <2>2. ASSUME NEW m \in DOMAIN h, NEW p \in PagesOf(h[m])
        PROVE  prot'[p] = h[m].flags /\ key'[p] \in {0, g_pkey}
    BY <1>1, <1>h, <1>m
  <2>3. \A n \in DOMAIN listed' :
          n \in DOMAIN objs' /\ listed'[n] = objs'[n]
    BY <1>1, <1>o DEF ObjectsMapped
  <2>4. \A n \in DOMAIN objs' : \A m \in DOMAIN objs'[n] :
          \A p \in PagesOf(objs'[n][m]) :
            prot'[p] = objs'[n][m].flags /\ key'[p] \in {0, g_pkey'}
    <3> SUFFICES ASSUME NEW n \in DOMAIN objs', NEW m \in DOMAIN objs'[n],
                        NEW p \in PagesOf(objs'[n][m])
                 PROVE  /\ prot'[p] = objs'[n][m].flags
                        /\ key'[p] \in {0, g_pkey'}
      OBVIOUS
    <3>1. CASE n \in DOMAIN objs
      BY <1>1, <1>o, <2>1, <3>1
    <3>2. CASE n = Len(objs) + 1
      BY <1>1, <1>o, <2>2, <3>2
    <3> QED BY <1>o, <3>1, <3>2
  <2> QED BY <2>3, <2>4 DEF ObjectsMapped
<1>5. OnlyCodeKeyed'
  BY <1>1, SameCode DEF OnlyCodeKeyed
<1> QED BY <1>2, <1>3, <1>4, <1>5

\* The steps of the constructor that only move it on: the end of the process,
\* the start, the end of dl_iterate_phdr and the check of the count.
LEMMA QuietSafe ==
  ASSUME MpkSafe,
         UNCHANGED <<g_pkey, obj, i, procVars>>,
         g_protect_all' \in BOOLEAN, g_protected_segments' \in Nat,
         \/ pc' = "exit" /\ UNCHANGED g_protect_all
         \/ pc = "start" /\ pc' = "alloc"
         \/ /\ pc = "iterate" /\ pc' = "check" /\ obj > Len(listed)
            /\ UNCHANGED g_protect_all
         \/ pc = "check" /\ pc' = "seal" /\ UNCHANGED g_protect_all
  PROVE  MpkSafe'
<1> USE DEF MpkSafe, MpkInv
<1>1. UNCHANGED <<objs, prot, key, live, pkru, allocated, freed, listed>>
  BY DEF procVars
<1>2. MpkTypeOK'
  BY <1>1 DEF MpkTypeOK
<1>3. KeyKept'
  BY <1>1 DEF KeyKept
<1>4. RightsGranted'
  BY <1>1 DEF RightsGranted
<1>5. ObjectsMapped'
  BY <1>1 DEF ObjectsMapped
<1>6. CodeKeyed'
  BY <1>1 DEF CodeKeyed, Passed, InScope
<1>7. OnlyCodeKeyed'
  <2>1. CASE UNCHANGED g_protect_all
    BY <1>1, <2>1, SameCode DEF OnlyCodeKeyed
  <2>2. CASE pc = "start"
    BY <1>1, <2>2 DEF KeyKept, OnlyCodeKeyed
  <2> QED BY <2>1, <2>2
<1> QED BY <1>2, <1>3, <1>4, <1>5, <1>6, <1>7

\* _exit changes nothing but pc.
LEMMA ExitSafe ==
  ASSUME MpkSafe, Exit, UNCHANGED <<g_pkey, pkru, allocated>>
  PROVE  MpkSafe'
<1>1. /\ pc' = "exit" /\ UNCHANGED <<g_pkey, obj, i, procVars>>
      /\ UNCHANGED <<g_protect_all, g_protected_segments>>
  BY DEF Exit, procVars
<1>2. g_protect_all' \in BOOLEAN /\ g_protected_segments' \in Nat
  BY <1>1 DEF MpkSafe, MpkTypeOK
<1> QED BY <1>1, <1>2, QuietSafe

\* The key the kernel gives has no page yet, and no other thread a right to
\* it unless it was freed before.
LEMMA PkeyAllocSafe ==
  ASSUME MpkSafe, PkeyAlloc
  PROVE  MpkSafe'
<1>1. CASE PkeyAllocFails
  BY <1>1, ExitSafe DEF PkeyAllocFails
<1>2. CASE ~PkeyAllocFails
  <2> USE DEF MpkSafe, MpkInv
  <2>1. PICK k \in Keys \ allocated :
          /\ pc = "alloc" /\ pc' = "iterate"
          /\ g_pkey' = k
          /\ allocated' = allocated \cup {k}
          /\ pkru' = [pkru EXCEPT ![Main][k] = {}]
          /\ obj' = 1 /\ i' = 1
          /\ listed' = objs
          /\ UNCHANGED <<g_protect_all, g_protected_segments, objs, prot, key,
                         live, freed>>
    BY <1>2 DEF PkeyAlloc
  <2>t. /\ pkru \in [Threads -> [Keys -> Rights]]
        /\ key \in [Pages -> Keys \cup {0}]
        /\ objs \in Seq(Seq(Phdr))
    BY DEF MpkTypeOK
  <2>2. MpkTypeOK'
    <3>1. pkru' \in [Threads -> [Keys -> Rights]]
      BY <2>1, <2>t DEF Rights
    <3> QED BY <2>1, <2>t, <3>1 DEF MpkTypeOK
  <2>3. KeyKept'
    BY <2>1 DEF KeyKept
  <2>4. RightsGranted'
    <3>1. \A v \in Threads, j \in Keys :
            (v # Main \/ j # k) => pkru'[v][j] = pkru[v][j]
      BY <2>1, <2>t
    <3> QED BY <2>1, <3>1 DEF RightsGranted
  <2>n. \A p \in Pages : key[p] # k
    BY <2>1 DEF KeyKept
  <2>5. ObjectsMapped'
    <3>1. \A n \in DOMAIN objs : \A m \in DOMAIN objs[n] :
            \A p \in PagesOf(objs[n][m]) :
              prot[p] = objs[n][m].flags /\ key[p] = 0
      <4>1. \A n \in DOMAIN objs : \A m \in DOMAIN objs[n] :
              \A p \in PagesOf(objs[n][m]) : p \in Pages
        BY <2>t, HeaderType, PagesInMemory
      <4>2. g_pkey = NULL
        BY <2>1 DEF KeyKept
      <4> QED BY <2>t, <4>1, <4>2 DEF ObjectsMapped
    <3> QED BY <2>1, <3>1 DEF ObjectsMapped
  <2>6. CodeKeyed'
    BY <2>1, <2>t DEF CodeKeyed, Passed
  <2>7. OnlyCodeKeyed'
    BY <2>1, <2>n DEF OnlyCodeKeyed
  <2> QED BY <2>2, <2>3, <2>4, <2>5, <2>6, <2>7
<1> QED BY <1>1, <1>2

\* A step of the loops: every header it passes is no code, or not in scope, or
\* has its pages under the key.
LEMMA LoopSafe ==
  ASSUME MpkSafe, pc = "iterate", obj <= Len(listed),
         UNCHANGED <<pc, g_pkey, g_protect_all, g_protected_segments,
                     procVars>>,
         \/ obj' = obj /\ i' = i + 1
            /\ i <= Len(listed[obj]) /\ ~Selected(listed[obj][i])
         \/ obj' = obj + 1 /\ i' = 1
            /\ (~InScope(obj) \/ i > Len(listed[obj]))
  PROVE  MpkSafe'
<1> USE DEF MpkSafe, MpkInv
<1>1. UNCHANGED <<objs, prot, key, live, pkru, allocated, freed, listed>>
  BY DEF procVars
<1>t. obj \in Nat /\ i \in Nat /\ listed \in Seq(Seq(Phdr))
  BY DEF MpkTypeOK
<1>2. MpkTypeOK'
  <2>1. obj' \in Nat /\ i' \in Nat
    BY <1>t
  <2> QED BY <1>1, <2>1 DEF MpkTypeOK
<1>3. KeyKept' /\ RightsGranted' /\ ObjectsMapped'
  BY <1>1 DEF KeyKept, RightsGranted, ObjectsMapped
<1>4. CodeKeyed'
  <2>1. obj' > 0 /\ i' > 0
    BY <1>t DEF CodeKeyed
  <2>2. ASSUME NEW n \in DOMAIN listed, NEW m \in DOMAIN listed[n],
               InScope(n), n < obj' \/ (n = obj' /\ m < i'),
               "x" \in listed[n][m].flags, NEW p \in PagesOf(listed[n][m])
        PROVE  key[p] = g_pkey
    <3>1. CASE Passed(n, m)
      BY <2>2, <3>1 DEF CodeKeyed
    <3>2. CASE ~Passed(n, m)
      <4>0. n \in Nat /\ m \in Nat /\ m \in 1 .. Len(listed[n])
        BY <1>t
      <4>1. n = obj /\ m >= i
        BY <1>t, <2>2, <3>2, <4>0 DEF Passed
      <4>2. m = i /\ ~Selected(listed[obj][i])
        BY <1>t, <2>2, <4>0, <4>1
      <4>3. listed[n][m] \in Phdr
        BY <1>t, HeaderType
      <4>4. PagesOf(listed[n][m]) = {}
        <5> DEFINE h == listed[n][m]
        <5>1. ~h.load \/ h.memsz = 0
          BY <2>2, <4>1, <4>2 DEF Selected
        <5>2. h \in Phdr
          BY <4>3
        <5> HIDE DEF h
        <5>3. PagesOf(h) = {}
          BY <5>1, <5>2, NoPages
        <5> QED BY <5>3 DEF h
      <4> QED BY <4>4
    <3> QED BY <3>1, <3>2
  <2>3. \A n : InScope(n)' <=> InScope(n)
    BY DEF InScope
  <2>4. UNCHANGED <<pc, listed, key, g_pkey>> /\ pc = "iterate"
    BY <1>1
  <2> QED BY <2>1, <2>2, <2>3, <2>4 DEF CodeKeyed, Passed
<1>5. OnlyCodeKeyed'
  BY <1>1, SameCode DEF OnlyCodeKeyed
<1> QED BY <1>2, <1>3, <1>4, <1>5

\* pkey_mprotect on a segment leaves the permissions as they are, since these
\* are the permissions of the segment and the rounded range has no other page.
LEMMA ProtectKeeps ==
  ASSUME MpkSafe, pc = "iterate", obj <= Len(listed),
         i <= Len(listed[obj]), Selected(listed[obj][i])
  PROVE  LET h == listed[obj][i]
         IN  /\ obj \in DOMAIN listed /\ i \in DOMAIN listed[obj]
             /\ RangeOf(h) = PagesOf(h) /\ PagesOf(h) \subseteq Pages
             /\ \A p \in PagesOf(h) :
                  prot[p] = prot_from_phdr(h) /\ key[p] \in {0, g_pkey}
<1> USE DEF MpkSafe, MpkInv
<1> DEFINE h == listed[obj][i]
<1>t. listed \in Seq(Seq(Phdr)) /\ obj \in Nat /\ i \in Nat
  BY DEF MpkTypeOK
<1>1. obj \in DOMAIN listed /\ i \in DOMAIN listed[obj]
  BY <1>t DEF CodeKeyed
<1>2. h \in Phdr
  BY <1>t, <1>1, HeaderType
<1>3. \A p \in PagesOf(h) : prot[p] = h.flags /\ key[p] \in {0, g_pkey}
  BY <1>1 DEF ObjectsMapped
<1> HIDE DEF h
<1>4. RangeOf(h) = PagesOf(h) /\ PagesOf(h) \subseteq Pages
  BY <1>2, RangeExact, PagesInMemory DEF h
<1> QED BY <1>1, <1>3, <1>4 DEF h, prot_from_phdr

\* A selected segment gets the key.
LEMMA ProtectSafe ==
  ASSUME MpkSafe, ProtectSegment
  PROVE  MpkSafe' /\ prot' = prot
<1>1. CASE PkeyMprotectFails
  BY <1>1, ExitSafe DEF PkeyMprotectFails, Exit
<1>2. CASE ~PkeyMprotectFails
  <2> USE DEF MpkSafe, MpkInv
  <2> DEFINE h == listed[obj][i]
  <2>1. /\ pc = "iterate" /\ obj <= Len(listed) /\ InScope(obj)
        /\ i <= Len(listed[obj]) /\ Selected(h)
        /\ key' = [p \in Pages |-> IF p \in RangeOf(h) THEN g_pkey
                                   ELSE key[p]]
        /\ prot' = [p \in Pages |-> IF p \in RangeOf(h)
                                    THEN prot_from_phdr(h) ELSE prot[p]]
        /\ g_protected_segments' = g_protected_segments + 1
        /\ i' = i + 1
        /\ UNCHANGED <<pc, g_pkey, g_protect_all, obj, objs, live, pkru,
                       allocated, freed, listed>>
    BY <1>2 DEF ProtectSegment, NextHeader
  <2>2. /\ obj \in DOMAIN listed /\ i \in DOMAIN listed[obj]
        /\ RangeOf(h) = PagesOf(h) /\ PagesOf(h) \subseteq Pages
        /\ \A p \in PagesOf(h) :
             prot[p] = prot_from_phdr(h) /\ key[p] \in {0, g_pkey}
    BY <2>1, ProtectKeeps
  <2>x. "x" \in h.flags
    BY <2>1 DEF Selected
  <2>t. /\ obj \in Nat /\ i \in Nat
        /\ key \in [Pages -> Keys \cup {0}]
        /\ prot \in [Pages -> SUBSET {"r", "w", "x"}]
        /\ g_pkey \in Keys
    BY <2>1 DEF MpkTypeOK, KeyKept
  <2>h. h = listed[obj][i]
    OBVIOUS
  <2> HIDE DEF h
  <2>p. prot' = prot
    BY <2>1, <2>2, <2>t
  <2>k. \A p \in Pages : key'[p] = IF p \in PagesOf(h) THEN g_pkey ELSE key[p]
    BY <2>1, <2>2
  <2>3. MpkTypeOK'
    <3>1. key' \in [Pages -> Keys \cup {0}]
      BY <2>1, <2>t
    <3>2. g_protected_segments' \in Nat /\ i' \in Nat
      BY <2>1 DEF MpkTypeOK
    <3> QED BY <2>1, <2>p, <3>1, <3>2 DEF MpkTypeOK
  <2>4. KeyKept'
    BY <2>1, <2>k DEF KeyKept
  <2>5. RightsGranted'
    BY <2>1 DEF RightsGranted
  <2>m. \A n \in DOMAIN objs : \A m \in DOMAIN objs[n] :
          \A p \in PagesOf(objs[n][m]) : p \in Pages
    <3>1. objs \in Seq(Seq(Phdr))
      BY DEF MpkTypeOK
    <3> QED BY <3>1, HeaderType, PagesInMemory
  <2>l. \A n \in DOMAIN listed : n \in DOMAIN objs /\ listed[n] = objs[n]
    BY DEF ObjectsMapped
  <2>6. ObjectsMapped'
    <3>1. ASSUME NEW n \in DOMAIN objs, NEW m \in DOMAIN objs[n],
                 NEW p \in PagesOf(objs[n][m])
          PROVE  prot[p] = objs[n][m].flags /\ key'[p] \in {0, g_pkey}
      BY <2>k, <2>m DEF ObjectsMapped
    <3> QED BY <2>1, <2>p, <2>l, <3>1 DEF ObjectsMapped
  <2>7. CodeKeyed'
    <3>1. ASSUME NEW n \in DOMAIN listed, NEW m \in DOMAIN listed[n],
                 InScope(n), n < obj \/ (n = obj /\ m < i + 1),
                 "x" \in listed[n][m].flags, NEW p \in PagesOf(listed[n][m])
          PROVE  key'[p] = g_pkey
      <4>1. p \in Pages
        BY <2>m, <2>l
      <4>2. CASE Passed(n, m)
        BY <2>1, <2>k, <3>1, <4>1, <4>2 DEF CodeKeyed
      <4>3. CASE ~Passed(n, m)
        <5>1. listed \in Seq(Seq(Phdr))
          BY DEF MpkTypeOK
        <5>2. n \in Nat /\ m \in Nat
          BY <5>1
        <5>3. n = obj /\ m = i
          BY <2>t, <3>1, <4>3, <5>2 DEF Passed
        <5> QED BY <2>k, <2>h, <4>1, <5>3
      <4> QED BY <4>2, <4>3
    <3>2. obj' > 0 /\ i' > 0
      BY <2>1, <2>t DEF CodeKeyed
    <3>3. \A n : InScope(n)' <=> InScope(n)
      BY <2>1 DEF InScope
    <3> QED BY <2>1, <3>1, <3>2, <3>3 DEF CodeKeyed, Passed
  <2>8. OnlyCodeKeyed'
    <3>1. \A p \in PagesOf(h) : p \in CodePages
      BY <2>1, <2>2, <2>x, <2>h, CodePage
    <3>2. CodePages' = CodePages
      BY <2>1, SameCode
    <3> QED BY <2>1, <2>k, <3>1, <3>2 DEF OnlyCodeKeyed
  <2> QED BY <2>p, <2>3, <2>4, <2>5, <2>6, <2>7, <2>8
<1> QED BY <1>1, <1>2

\* Sealing takes the right to the key from the main thread.
LEMMA SealSafe ==
  ASSUME MpkSafe, Seal
  PROVE  MpkSafe'
<1> USE DEF MpkSafe, MpkInv
<1>1. /\ pc = "seal" /\ pc' \in {"main", "exit"}
      /\ pc' = "main" =>
           pkru' = [pkru EXCEPT ![Main] = x_pkey_set(@, g_pkey, {"AD"})]
      /\ pc' = "exit" => pkru' = pkru
      /\ UNCHANGED <<g_pkey, g_protect_all, g_protected_segments, obj, i,
                     objs, prot, key, live, allocated, freed, listed>>
  BY DEF Seal
<1>t. pkru \in [Threads -> [Keys -> Rights]] /\ g_pkey \in Keys
  BY <1>1 DEF MpkTypeOK, KeyKept
<1>2. /\ pkru' \in [Threads -> [Keys -> Rights]]
      /\ pc' = "main" => pkru'[Main][g_pkey] = {"AD"}
      /\ \A v \in Threads, k \in Keys :
           (v # Main \/ k # g_pkey) => pkru'[v][k] = pkru[v][k]
  BY <1>1, <1>t DEF x_pkey_set, Rights
<1>3. MpkTypeOK'
  BY <1>1, <1>2 DEF MpkTypeOK
<1>4. KeyKept'
  BY <1>1 DEF KeyKept
<1>5. RightsGranted'
  <2>1. g_pkey \in allocated
    BY <1>1 DEF KeyKept
  <2>2. \A k \in Keys \ (allocated \cup freed), v \in Threads :
          "AD" \in pkru'[v][k]
    BY <1>2, <2>1 DEF RightsGranted
  <2>3. g_pkey \notin freed => \A v \in Threads :
          (v # Main \/ pc' = "main") => "AD" \in pkru'[v][g_pkey]
    BY <1>1, <1>2, <1>t DEF RightsGranted, KeyKept
  <2> QED BY <1>1, <2>2, <2>3 DEF RightsGranted
<1>6. ObjectsMapped' /\ CodeKeyed'
  BY <1>1 DEF ObjectsMapped, CodeKeyed, Passed, InScope
<1>7. OnlyCodeKeyed'
  BY <1>1, SameCode DEF OnlyCodeKeyed
<1> QED BY <1>3, <1>4, <1>5, <1>6, <1>7

\* Every step of the constructor and of the process keeps the invariant.
LEMMA NextMpkSafe == MpkSafe /\ [Next]_vars => MpkSafe'
<1> SUFFICES ASSUME MpkSafe, [Next]_vars PROVE MpkSafe'
  OBVIOUS
<1>t. g_protect_all \in BOOLEAN /\ g_protected_segments \in Nat
  BY DEF MpkSafe, MpkTypeOK
<1>1. CASE Start
  <2>1. CASE Exit /\ UNCHANGED <<g_pkey, pkru, allocated>>
    BY <2>1, ExitSafe
  <2>2. CASE ~(Exit /\ UNCHANGED <<g_pkey, pkru, allocated>>)
    BY <1>1, <1>t, <2>2, QuietSafe DEF Start
  <2> QED BY <2>1, <2>2
<1>2. CASE NextObject
  BY <1>2, LoopSafe DEF NextObject
<1>3. CASE SkipHeader
  BY <1>3, LoopSafe DEF SkipHeader, NextHeader
<1>4. CASE IterateReturns
  BY <1>4, <1>t, QuietSafe DEF IterateReturns
<1>5. CASE CheckProtected
  <2>1. CASE Exit /\ UNCHANGED <<g_pkey, pkru, allocated>>
    BY <2>1, ExitSafe
  <2>2. CASE ~(Exit /\ UNCHANGED <<g_pkey, pkru, allocated>>)
    BY <1>5, <1>t, <2>2, QuietSafe DEF CheckProtected
  <2> QED BY <2>1, <2>2
<1>6. CASE ProcessStep
  BY <1>6, SpawnSafe, LibAllocSafe, LibFreeSafe, LoadSafe DEF ProcessStep
<1>7. CASE UNCHANGED vars
  <2> USE DEF MpkSafe, MpkInv
  <2>1. UNCHANGED <<pc, g_pkey, g_protect_all, g_protected_segments, obj, i,
                    objs, prot, key, live, pkru, allocated, freed, listed>>
    BY <1>7 DEF vars, initVars, procVars
  <2>2. MpkTypeOK' /\ KeyKept' /\ RightsGranted' /\ ObjectsMapped'
    BY <2>1 DEF MpkTypeOK, KeyKept, RightsGranted, ObjectsMapped
  <2>3. CodeKeyed'
    BY <2>1 DEF CodeKeyed, Passed, InScope
  <2>4. OnlyCodeKeyed'
    BY <2>1, SameCode DEF OnlyCodeKeyed
  <2> QED BY <2>2, <2>3, <2>4
<1> QED BY <1>1, <1>2, <1>3, <1>4, <1>5, <1>6, <1>7, PkeyAllocSafe,
           ProtectSafe, SealSafe DEF Next, InitStep, Done

(***************************************************************************)
(* The theorems.                                                           *)
(***************************************************************************)

\* The invariant holds in every state.
THEOREM MpkSafety == Spec => []MpkSafe
  BY InitMpkSafe, NextMpkSafe, PTL DEF Spec

\* The types hold in every state the process reaches.
THEOREM MpkTypes == Spec => []MpkTypeOK
<1>1. MpkSafe => MpkTypeOK
  BY DEF MpkSafe
<1> QED BY MpkSafety, <1>1, PTL

\* A page without a byte of the code to protect never gets the key, for any
\* page size and any segments.
THEOREM KeyedIsCode == Spec => []OnlyCodeKeyed
<1>1. MpkSafe => OnlyCodeKeyed
  BY DEF MpkSafe
<1> QED BY MpkSafety, <1>1, PTL

\* When the program runs, no thread can read a byte of the protected code,
\* unless the key of the constructor had been freed before.
THEOREM CodeIsUnreadable == Spec => []CodeUnreadable
<1>1. MpkSafe => CodeUnreadable
  <2> SUFFICES ASSUME MpkSafe, pc = "main", g_pkey \notin freed,
                      NEW t \in live, NEW p \in CodePages, CanRead(t, p)
               PROVE  FALSE
    BY DEF CodeUnreadable
  <2> USE DEF MpkSafe, MpkInv
  <2>1. PICK n \in DOMAIN listed : \E m \in DOMAIN listed[n] :
          /\ InScope(n) /\ "x" \in listed[n][m].flags
          /\ p \in PagesOf(listed[n][m])
    BY CodePage
  <2>2. PICK m \in DOMAIN listed[n] :
          /\ InScope(n) /\ "x" \in listed[n][m].flags
          /\ p \in PagesOf(listed[n][m])
    BY <2>1
  <2>3. Passed(n, m)
    BY DEF CodeKeyed, Passed, MpkTypeOK
  <2>4. key[p] = g_pkey
    BY <2>2, <2>3 DEF CodeKeyed
  <2>5. g_pkey \in Keys /\ g_pkey # 0 /\ t \in Threads
    BY DEF KeyKept, MpkTypeOK
  <2>6. "AD" \in pkru[t][g_pkey]
    BY <2>5 DEF RightsGranted, KeyKept
  <2> QED BY <2>4, <2>5, <2>6 DEF CanRead
<1> QED BY MpkSafety, <1>1, PTL

\* No step but the loading of an object changes the permissions of a page.
THEOREM PermissionsAreKept == Spec => PermissionsKept
<1>1. MpkSafe /\ [Next]_vars => [objs' = objs => prot' = prot]_vars
  <2> SUFFICES ASSUME MpkSafe, Next, objs' = objs PROVE prot' = prot
    BY DEF vars
  <2>1. CASE InitStep
    BY <2>1, ProtectSafe
       DEF InitStep, Start, Exit, PkeyAlloc, PkeyAllocFails, NextObject,
           SkipHeader, IterateReturns, CheckProtected, Seal, procVars
  <2>2. ASSUME NEW t \in Threads, NEW h \in Libraries, Load(t, h)
        PROVE  FALSE
    <3>1. objs \in Seq(Seq(Phdr)) /\ objs = Append(objs, h)
      BY <2>2 DEF Load, MpkSafe, MpkTypeOK
    <3> QED BY <3>1
  <2>3. CASE ProcessStep
    BY <2>2, <2>3 DEF ProcessStep, Spawn, LibAlloc, LibFree
  <2>4. CASE Done
    BY <2>4 DEF Done, vars, procVars
  <2> QED BY <2>1, <2>3, <2>4 DEF Next
<1> QED BY MpkSafety, <1>1, PTL DEF Spec, PermissionsKept

\* No step of the constructor lets a thread read what it could not read
\* before, whoever had its key before.
THEOREM RightsNotGained == Spec => NoRightsGained
<1>1. MpkSafe /\ [Next]_vars =>
        [InitStep =>
           \A t \in live, p \in Pages : CanRead(t, p)' => CanRead(t, p)]_vars
  <2> SUFFICES ASSUME MpkSafe, InitStep,
                      NEW t \in live, NEW p \in Pages, CanRead(t, p)'
               PROVE  CanRead(t, p)
    OBVIOUS
  <2> USE DEF MpkSafe, MpkInv
  <2>t. /\ t \in Threads /\ key[p] \in Keys \cup {0}
        /\ pkru \in [Threads -> [Keys -> Rights]]
    BY DEF MpkTypeOK
  <2>1. CASE UNCHANGED <<prot, key, pkru>>
    BY <2>1 DEF CanRead
  <2>2. CASE PkeyAllocFails
    BY <2>1, <2>2 DEF PkeyAllocFails, Exit
  <2>6. CASE PkeyAlloc /\ ~PkeyAllocFails
    <3>1. PICK k \in Keys \ allocated :
            /\ pkru' = [pkru EXCEPT ![Main][k] = {}]
            /\ UNCHANGED <<prot, key>>
      BY <2>6 DEF PkeyAlloc
    <3>2. key[p] # k
      BY <3>1 DEF KeyKept
    <3>3. key[p] # 0 => pkru'[t][key[p]] = pkru[t][key[p]]
      BY <2>t, <3>1, <3>2
    <3> QED BY <3>1, <3>3 DEF CanRead
  <2>3. CASE ProtectSegment
    <3>1. prot' = prot
      BY <2>3, ProtectSafe
    <3> DEFINE h == listed[obj][i]
    <3>2. CASE PkeyMprotectFails
      BY <2>1, <3>2 DEF PkeyMprotectFails, Exit
    <3>3. CASE ~PkeyMprotectFails
      <4>1. /\ pc = "iterate" /\ obj <= Len(listed)
            /\ i <= Len(listed[obj]) /\ Selected(h)
            /\ key'[p] = IF p \in RangeOf(h) THEN g_pkey ELSE key[p]
            /\ UNCHANGED <<g_pkey, pkru>>
        BY <2>3, <3>3 DEF ProtectSegment
      <4>2. p \in RangeOf(h) => key[p] \in {0, g_pkey}
        BY <4>1, ProtectKeeps
      <4> HIDE DEF h
      <4> QED BY <3>1, <4>1, <4>2 DEF CanRead
    <3> QED BY <3>2, <3>3
  <2>4. CASE Seal
    <3>1. UNCHANGED <<prot, key>>
      BY <2>4 DEF Seal
    <3>2. g_pkey \in Keys
      BY <2>4 DEF Seal, KeyKept, MpkTypeOK
    <3>3. key[p] # 0 => \/ pkru'[t][key[p]] = pkru[t][key[p]]
                        \/ pkru'[t][key[p]] = {"AD"}
      BY <2>4, <2>t, <3>2 DEF Seal, x_pkey_set
    <3> QED BY <3>1, <3>3 DEF CanRead
  <2>5. CASE Start \/ NextObject \/ SkipHeader \/ IterateReturns
             \/ CheckProtected
    BY <2>1, <2>5 DEF Start, Exit, NextObject, SkipHeader, IterateReturns,
                      CheckProtected, procVars
  <2> QED BY <2>2, <2>3, <2>4, <2>5, <2>6 DEF InitStep
<1> QED BY MpkSafety, <1>1, PTL DEF Spec, NoRightsGained
=============================================================================
