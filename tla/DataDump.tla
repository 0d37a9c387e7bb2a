------------------------------ MODULE DataDump ------------------------------
(***************************************************************************)
(* The metadata of --fiy-dcollect from the assembler to the report: every  *)
(* assembled file writes one header and its entries (datascope.c), the     *)
(* linker puts the contributions one after the other, and parse_xom of the *)
(* datadump tool reads them back with nothing but the sizes and the magic  *)
(* word to go by.                                                          *)
(*                                                                         *)
(* The section is a sequence of words of four bytes; the 8-byte address of *)
(* an entry is two of them, its low one first.  A name takes NameLen words *)
(* at most; what it says does not matter, only whether it is "null".       *)
(***************************************************************************)
EXTENDS Naturals, Sequences, SequencesExt

CONSTANTS
  MAGIC,       \* the word "xom\0", 0x006d6f78
  Addresses,   \* low words of the addresses the linker may give to frags
  Counts,      \* values of the counters of a header, and sizes of frags
  NameLen,     \* bound: words of a name
  MaxFiles,    \* bound: files linked
  MaxEntries   \* bound: entries over all files

ASSUME DumpConstantsOK ==
  /\ MAGIC \in Nat /\ Addresses \subseteq Nat /\ Counts \subseteq Nat
  /\ NameLen \in Nat /\ MaxFiles \in Nat /\ MaxEntries \in Nat

VARIABLES
  section,    \* the words of the section
  written,    \* history: the headers and entries in the order written
  phase,      \* "link", "parse", "done"
  offset,     \* words consumed by parse_xom
  log         \* headers and entries parse_xom reported

parseVars == <<offset, log>>
vars      == <<section, written, phase, parseVars>>

\* What the name of an entry can be: "null" for a frag without a symbol.
Names == [null: BOOLEAN, size: 1 .. NameLen]

Headers == [name_size: 1 .. NameLen, bytes_frag_num: Counts,
            direct_data_num: Counts]
Entries == [frag_address: Addresses, frag_size: Counts, name: Names]

----------------------------------------------------------------------------
\* The words of a name.
NameWords(null, size) == [k \in 1 .. size |-> IF null THEN 1 ELSE 0]

\* write_meteheader_for_test: magic, size of the file name, the name and five
\* counters, of which two are enough here.
HeaderWords(h) ==
  <<MAGIC, h.name_size>> \o NameWords(FALSE, h.name_size)
    \o <<0, h.bytes_frag_num, 0, h.direct_data_num, 0>>

\* A fault: the size of the name is not written.
EntryWords_NoSize(e) ==
  <<e.frag_address, 0, 0, e.frag_size, 0>> \o NameWords(e.name.null, e.name.size)

\* The address (emit_expr), then write_metedata_for_test: index, size, flags,
\* size of the name and the name.
EntryWords(e) ==
  <<e.frag_address, 0, 0, e.frag_size, 0, e.name.size>>
    \o NameWords(e.name.null, e.name.size)

\* The next file of the link: its header comes first ...
WriteHeader(h) ==
  /\ phase = "link"
  /\ Len(SelectSeq(written, LAMBDA x : x.kind = "header")) < MaxFiles
  /\ section' = section \o HeaderWords(h)
  /\ written' = Append(written, [kind |-> "header", is |-> h])
  /\ UNCHANGED <<phase, parseVars>>

\* ... and its entries follow.
WriteEntry(e) ==
  /\ phase = "link"
  /\ written # <<>>
  /\ Len(SelectSeq(written, LAMBDA x : x.kind = "entry")) < MaxEntries
  /\ section' = section \o EntryWords(e)
  /\ written' = Append(written, [kind |-> "entry", is |-> e])
  /\ UNCHANGED <<phase, parseVars>>

StartDump ==
  /\ phase = "link"
  /\ written # <<>>
  /\ phase' = "parse"
  /\ UNCHANGED <<section, written, parseVars>>

----------------------------------------------------------------------------
\* Words from the current place on; word k of them.
Left    == Len(section) - offset
Word(k) == section[offset + k]

AtHeader == Left > 0 /\ Word(1) = MAGIC

\* The three length checks of a header and the two of an entry.
HeaderFits == Left >= 2 /\ Left - 2 >= Word(2) /\ Left - 2 - Word(2) >= 5

\* A fault: an entry that ends with the section does not fit.
EntryFits_Strict == Left >= 6 /\ Left - 6 > Word(6)

EntryFits == Left >= 6 /\ Left - 6 >= Word(6)

\* A fault: the header is taken for longer than it is written.
HeaderLen_Padded(n) == n + 8

\* The words of a header with a name of n words ...
HeaderLen(n) == n + 7

\* ... and of an entry.
EntryLen(n) == n + 6

ReadHeader ==
  /\ phase = "parse"
  /\ AtHeader /\ HeaderFits
  /\ LET n == Word(2)
         h == [name_size |-> n, bytes_frag_num |-> Word(n + 4),
               direct_data_num |-> Word(n + 6)]
     IN  /\ offset' = offset + HeaderLen(n)
         /\ log' = Append(log, [kind |-> "header", is |-> h])
  /\ UNCHANGED <<section, written, phase>>

ReadEntry ==
  /\ phase = "parse"
  /\ Left > 0 /\ ~AtHeader /\ EntryFits
  /\ LET n == Word(6)
         e == [frag_address |-> Word(1), frag_size |-> Word(4),
               name |-> [null |-> n > 0 /\ Word(7) = 1, size |-> n]]
     IN  /\ offset' = offset + EntryLen(n)
         /\ log' = Append(log, [kind |-> "entry", is |-> e])
  /\ UNCHANGED <<section, written, phase>>

\* The loop ends at the end of the section or where something does not fit.
EndDump ==
  /\ phase = "parse"
  /\ \/ Left = 0
     \/ AtHeader /\ ~HeaderFits
     \/ Left > 0 /\ ~AtHeader /\ ~EntryFits
  /\ phase' = "done"
  /\ UNCHANGED <<section, written, parseVars>>

Reported == phase = "done" /\ UNCHANGED vars

----------------------------------------------------------------------------
Init ==
  /\ section = <<>> /\ written = <<>> /\ phase = "link"
  /\ offset = 0 /\ log = <<>>

Next ==
  \/ \E h \in Headers : WriteHeader(h)
  \/ \E e \in Entries : WriteEntry(e)
  \/ StartDump \/ ReadHeader \/ ReadEntry \/ EndDump \/ Reported

\* parse_xom is sequential code and the linker does not stop half way.
Spec == Init /\ [][Next]_vars /\ WF_vars(Next)

----------------------------------------------------------------------------
(***************************************************************************)
(* Properties.                                                             *)
(***************************************************************************)

\* An entry at an address whose low half is the magic word begins like a
\* header, and is read as one.
Misleads(x) == x.kind = "entry" /\ x.is.frag_address = MAGIC

\* parse_xom has come to such an entry, after it reported all that was written
\* before it.  What it finds from there on is left open.
Misled ==
  \E m \in 1 .. Len(written) :
    /\ Misleads(written[m])
    /\ m <= Len(log) + 1
    /\ \A k \in 1 .. m - 1 : log[k] = written[k]

\* parse_xom stays in step with the writers: at every moment it has reported
\* the first headers and entries written, in order and unchanged, and only an
\* entry that begins like a header makes it lose its step.
InStep == IsPrefix(log, written) \/ Misled

\* ... and it gets to the end: everything the assembler collected is dumped,
\* at least as far as the first such entry.
DumpComplete ==
  phase = "parse" ~> (phase = "done" /\ (log = written \/ Misled))

\* Misled or not, parse_xom goes on with everything it reads and never past
\* the end of the section, so its loop ends.
ParseAdvances ==
  [][phase = "parse" /\ phase' = "parse" =>
       offset < offset' /\ offset' <= Len(section)]_vars
----------------------------------------------------------------------------
(***************************************************************************)
(* The inductive invariant behind InStep, as long as parse_xom is not      *)
(* misled.                                                                 *)
(***************************************************************************)

\* What the writers write.
Items == [kind: {"header"}, is: Headers] \cup [kind: {"entry"}, is: Entries]

Words(x) == IF x.kind = "header" THEN HeaderWords(x.is) ELSE EntryWords(x.is)

\* The section is what was written, item by item; the k-th ends at ends[k].
Laid(ends) ==
  /\ ends \in [0 .. Len(written) -> Nat]
  /\ ends[0] = 0 /\ ends[Len(written)] = Len(section)
  /\ \A k \in 1 .. Len(written) :
       /\ ends[k] = ends[k - 1] + Len(Words(written[k]))
       /\ ends[k] <= Len(section)
       /\ \A i \in 1 .. Len(Words(written[k])) :
            section[ends[k - 1] + i] = Words(written[k])[i]

\* parse_xom is at the end of as many items as it has reported, and it ends
\* at the end of the section only.
ReadSoFar(ends) ==
  /\ Len(log) <= Len(written)
  /\ \A k \in 1 .. Len(log) : log[k] = written[k]
  /\ offset = ends[Len(log)]
  /\ phase = "done" => Len(log) = Len(written)
=============================================================================
