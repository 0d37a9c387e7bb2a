------------------------------- MODULE Report -------------------------------
(***************************************************************************)
(* From a source file to the table datadump prints: AsmXom, then the sums  *)
(* of parse_xom over the header and the entries the file wrote.  That      *)
(* parse_xom finds them is the subject of DataDump.                        *)
(***************************************************************************)
EXTENDS AsmXom, Integers, Functions

CONSTANT Modulus  \* the sums are uint32_t: 2^32

ASSUME ModulusOK == Modulus \in Nat /\ Modulus > 1

VARIABLE report   \* the table, NULL until it is printed

reportVars == <<vars, report>>

Wrap(n) == n % Modulus

\* The entries as a set: the frag and the place among those of the frag.
EntryIds == {x \in FragId \X {1, 2} : x[2] <= Len(entries[x[1]])}

SizeOf(x) == entries[x[1]][x[2]].frag_size

\* A fault: entries of any name are counted, "null" too.
Counted_Null(x) == SizeOf(x) # 0

\* An entry counts as a block of data when it has bytes and a name.
Counted(x) == SizeOf(x) # 0 /\ entries[x[1]][x[2]].name # NULL

\* The end of parse_xom.  The section of a file without metadata is empty.
Dump ==
  LET data_block == Cardinality({x \in EntryIds : Counted(x)})
      code_block == Wrap(counts.bytes_frag_num - data_block)
  IN  /\ phase = "done"
      /\ DCollect
      /\ report = NULL
      /\ report' =
           [data_block    |-> data_block,
            data_size     |-> SumFunction([x \in EntryIds |-> SizeOf(x)]),
            hardcode_size |-> Wrap(total_hardcoded_bytes),
            hardcode_block |-> counts.bytes_frag_num,
            indirect_code |-> Wrap(code_block - counts.direct_code_num
                                              - counts.fall_through_num),
            indirect_data |-> Wrap(data_block - counts.direct_data_num)]
      /\ UNCHANGED vars

ReportInit == Init /\ report = NULL

ReportNext == (Next /\ UNCHANGED report) \/ Dump

ReportSpec == ReportInit /\ [][ReportNext]_reportVars

----------------------------------------------------------------------------
(***************************************************************************)
(* Properties.                                                             *)
(***************************************************************************)

\* The frags of data that the split has moved.
Pieces == moved \ align_frag

\* The bytes reserved behind the fixed part of frag i, one for a .space.
Reserved(i) == IF fr_type[i] = "rs_fill_var" THEN 1 ELSE 0

\* The bytes of data of each frag: the fixed part and what is reserved behind
\* it.  The padding subsegs_finish puts behind the last frag is not data.
DataBytes == [i \in FragId |-> fr_fix[i] + Reserved(i)]

\* "Total Embedded Data Count" is the number of labelled pieces of data that
\* --fiy-dsplit takes out of .text, and "Total Embedded Data Size" the number
\* of bytes of all the pieces, labelled or not, if none of them ends in a
\* .space or .zero, the assumption that the comment in
\* parse_frags_for_test makes (fr_var == 0): reserved bytes move and are not
\* reported.  Anchors add to neither, alignment is not data, and a piece that
\* stays is not reported.
ReportsWhatMoved ==
  (report # NULL /\ DSplit) =>
    /\ (\A i \in Pieces : Reserved(i) = 0) =>
         report.data_size = SumFunctionOnSet(DataBytes, Pieces)
    /\ report.data_block = Cardinality({i \in Pieces : frag_symbol[i] # NULL})

\* The numbers that parse_xom finds by subtraction are numbers of blocks: of
\* the blocks of hard-coded bytes no more are code that is reached indirectly
\* than there are ("Total Indirect Code Num", the comment on idirect_code_num)
\* and likewise for the blocks of data.
IndirectCounts ==
  report # NULL => /\ report.indirect_code <= report.hardcode_block
                   /\ report.indirect_data <= report.data_block
=============================================================================
