# AsmXoM: a TLA+ model of the code-data separation in GAS

The repository is GNU Binutils 2.44 with one addition, AsmXoM: an assembler
that finds the data embedded in `.text` and moves it to a section of its own,
`.xom_data`, so that `.text` can be mapped execute-only. Nearly all of the
source tree is upstream Binutils. The program's own logic is small and sits in
the middle of the assembler: marks that the reading pass puts on frags and
symbols (`--fiy-dcollect`, `--dcollect` in the README), two passes of
`write_object_file` that read the marks (metadata, and `--fiy-dsplit`), the
tool `datadump` that reads the metadata back, and a run-time library that
applies protection keys. This project models that logic.

## 1. Inventory

| component | state | operations | interacts with |
|---|---|---|---|
| frag chain of `.text` (`gas/frags.c`, `frags.h`) | the linked list, `frag_now`, `fr_fix`, `fr_type`, `frag_symbol`, `frag_anchor`, flags `insn_frag`, `align_frag`, `anchor_frag`, `frag_has_insn`, `frag_has_hardcode` | `frag_new`, `frag_grow`, `frag_more`, `frag_var`, `frag_align_code` | called by every statement; read by both passes |
| statements (`gas/read.c`, `symbols.c`, `config/obj-elf.c`, `subsegs.c`) | `text_cur_symbol`, `cur_func_name`/`is_in_func`, `flash_symbol_point`, `total_hardcoded_bytes`, current section | labels (`colon`), `.byte` & co. (`cons`), strings, `.space`, `.align` (`do_align`), `.type`, `.size`, section changes | write frags, define and bind symbols |
| x86 instructions (`gas/config/tc-i386.c`) | none of its own | `output_insn`, `update_symbol_status` | writes and marks frags, marks jump targets and accessed symbols, adds fixes |
| metadata (`gas/write.c`, `datascope.c`) | counters, the section `.xomtwo` | `parse_symbols`, `parse_frags_for_test`, `write_mete*_for_test` | reads the marks; is read by datadump after linking |
| split (`gas/write.c`) | both frag chains | `split_text_frags` | reads the marks; changes chains, symbol sections and fixes; relaxation follows |
| datadump (`datadump/datadump.c`) | offset, sums | `parse_xom` | reads what the linker concatenated |
| mpk_xom (`xom-tools/mpk_xom.c`) | protection key, PKRU, page protections | constructor, `protect_object` | loaded with the linked program; shares keys and threads with its libraries |
| basic blocks (`gas/bbInfoHandle.c`, `--fiy-dsok`) | list of basic blocks, list of fixups | directives, `.type`, `.size`, `output_insn`, `md_estimate_size_before_relax`, `md_convert_frag` | reads the frags; independent of the split |
| data labels (`--fiy-dlabel`) | a list of labels | `collect_labels`, `reverse_data_labels`, `split_embedded_data`, `fix_data_label_info` | an earlier method of separation, switched off |
| relaxation, fixups | addresses | `relax_segment`, `fixup_segment` | upstream; run on the split chains |
| bfd, ld, opcodes, binutils, ... | | | upstream, unchanged as far as the above is concerned |

What is hard about it. The assembler and datadump are sequential; there the
difficulty is in long sequences of legal statements and in events that no
statement asks for. The run-time library shares its process with threads and
libraries that run before and beside it.

* the *obstack runs out of room* inside a statement, at a byte nobody chooses,
  and the chain grows by one or more frags there; every mark has to survive it;
* whether a label opens a frag, becomes an anchor or merely overwrites a
  symbol depends on everything written before it;
* marks are set long before they are read, by different statements, under
  different options;
* two linked lists are edited in place while one is walked;
* frag, symbols and relocations of a piece of data are separate structures
  that have to change section together;
* the metadata has no framing besides sizes and a magic word, and is
  concatenated by a linker that knows nothing about it;
* the report is made by subtraction from counters that different passes keep;
* rights to a protection key belong to a thread, the key to the process and the
  pages to whoever mapped them, and any system call in between may fail;
* the block an instruction belongs to is decided when it is written and used
  when the whole file has been read.

What makes it correct: no instruction byte leaves `.text`; bytes that continue
instructions stay with them; recognisable data leaves; its alignment, its
symbols and its references go with it; metadata and split agree; no frag is
lost; the dump reports what was written and what was moved; when the program
runs, no thread reads the protected code and everything else is as accessible
as before; every basic block has the place, the size and the fixes of its own
instructions. `PROJECT.json` lists the hazards at
their lines, with the property aimed at each.

## 2. Modules

| module | models | role |
|---|---|---|
| `AsmRead` | the reading pass: frags, statements, instructions | state and actions, no specification of its own |
| `AsmXom` | `write_object_file` up to and including the split, on top of `AsmRead` | the composed specification, its properties, the inductive invariant |
| `AsmXomProofs`, `AsmXomSplitProofs` | | theorems about `AsmXom`: types and marks; the split, the metadata and the symbols |
| `SplitSpec` | what `split_text_frags` promises, as one step on sequences | abstract specification |
| `SplitFrags` | the loop of `split_text_frags`, pointer by pointer | implements `SplitSpec` |
| `SplitFragsProofs` | | theorems about `SplitFrags`: the loop invariant; that it implements `SplitSpec` |
| `DataDump` | writing, linking and reading the metadata | |
| `DataDumpProofs` | | theorems about `DataDump` |
| `Report` | from the source file to the table datadump prints, on top of `AsmXom` | composition of assembler and datadump |
| `ReportProofs` | | theorems about `Report`, and sums over finite sets |
| `MpkXom` | the constructor of `libmpk_xom.so` and the process around it | concurrent, with faults |
| `MpkXomProofs` | | theorems about `MpkXom` |
| `BBInfo` | the lists of basic blocks and of fixups | |
| `BBInfoProofs` | | theorems about `BBInfo` |
| `SetInduction` | | induction over natural numbers, for the proof modules |
| `MCAsmXom`, `MCReport`, `MCSplitFrags`, `MCDataDump`, `MCMpkXom`, `MCBBInfo` | | instances for TLC |

### AsmRead and AsmXom

The chain of `.text` grows only at its end, so frags are numbered in chain
order and `last` is the open one. A field of `struct frag` is a function on the
frag numbers, a flag the set of frags that have it. An action is a whole
statement, with everything the code does for it (`Label` covers `colon`,
`update_cur_symbol` and `update_frag_symbol`; `Insn` covers `output_insn` with
`update_symbol_status` and the marking loop at its end).

Room in the obstack is the environment's choice: the parameters `g`, `g1`, `g2`
of an action say how many frags the statement opens for lack of room before
each of its `frag_more` or `frag_var` calls. `frag_grow` carries the mark of
instructions over to them under the condition the code has.

Some sets are history and not in the program: which frags really hold bytes of
instructions (`code`), of data statements (`data`), bytes written inside a
function (`infunc`), data that continues a run of instructions (`glued`), and
frags opened by a label (`fresh`). The properties compare them with what the
marks made the passes do.

After `Finish` the passes run in the order of `write_object_file`:
`ParseSymbols`, `ParseFrags`, `Split`. The split is one step in `AsmXom`, stated
by the set of frags that move; that the loop computes this set, in order and
without losing a frag, is the subject of `SplitFrags`. A frag that `.space` or
`.zero` closes has their bytes in its variable part (`rs_fill_var`), which moves
with the frag and is not in `fr_fix`.

### SplitSpec and SplitFrags

The loop sees of a frag only which of its tests it meets first, so a frag is
one of `align`, `insn`, `empty`, `target`, `data`. `Init` has every assignment
of these to the frags before the last, which is the empty frag that
`subsegs_finish` leaves. This is more than the reading pass can produce, so what
holds here holds for every source file of that length. One action is one pass
of the loop. The refinement mapping shows the abstract state unchanged until
the loop is over and the chains as found by following `fr_next` afterwards.

### DataDump

The section is a sequence of 4-byte words. Files write a header and entries;
the linker puts them one after the other; `parse_xom` consumes words with the
length checks of the code. `log` is what it reported. An address may be the
magic word; `parse_xom` then takes the entry for a header and goes on from
there. The model follows it in whole words, so of what it reports from there on
nothing is claimed but that it ends, inside the section.

### Report

`Dump` is the end of `parse_xom`: it sums the header and the entries that
`AsmXom` has put into `counts` and `entries`, and computes the differences as
the code does, modulo `Modulus`. The constant is 2^32 in the program; the runs
use 2^16, since TLC's integers have 32 bits and no count comes near either.

### MpkXom

One action is one system call of `mpk_xom_init` or one pass of the loop in
`protect_object`. An object is its table of program headers; memory is a
function from pages to permissions and keys; `pkru` gives each thread its rights
by key. The rest of the process is external and modelled from what the code
relies on: threads start threads and pass on their PKRU, libraries allocate and
free keys, put pages of their own under them and load objects, in constructors
that run before this one and in threads that run beside it. Every system call
of the constructor may fail. `listed` (what `dl_iterate_phdr` finds) and `freed`
(keys that were freed once) are history.

### BBInfo

The list only grows at its tail, so it is a sequence. The frags of all sections
are numbered as they are opened. A block made by a directive is unused until an
instruction begins it; in a file without directives (`bbinfo_handwritten_file`)
`output_insn` makes a block whenever an instruction is not right behind the last
one. After the file has been read, every relaxable jump gets its displacement in
one of two places. `EndOfFile` chooses which jumps turn out to leave their
section (`far`: the symbol is undefined, external or in another section);
`Estimate` is `md_estimate_size_before_relax`, which makes their fix and wanes
the frag, and `Convert` is `md_convert_frag`, which runs for the others. `real`
records, by block, all bytes and fixes that really are its own, those of both
places included, whether the code counts them or not.

## 3. Runs

All AsmXom runs have two symbols, with symmetry. Deadlock is checked in every
run; the final states have a stuttering step, so a deadlock would be a state in
which the program can neither go on nor is finished.

| run | shows |
|---|---|
| `separation` | outside functions, with up to two growths in any statement: `NoCodeMoved`, `GluedBytesStay`, `LabelledDataMoved`, `AlignmentFollows`, `CollectMatchesSplit`, `XomSymbolsInXom`, `TypeOK`. `LabelledDataMoved` has three exceptions: the label is a jump target, an instruction is in the frag, or `fr_fix` is 0 because the data was only reserved by `.space` or `.zero` |
| `whole` | the same separation with `.type`/`.size`, numeric labels, calls, references from code and data, reserved bytes, and a second section: what moves and the sections of the symbols stay consistent; and the count of embedded data that datadump prints is that of the labelled pieces that moved, the size that of the bytes of all pieces if none of them ends in a `.space` (`ReportsWhatMoved`) |
| `split_loop` | the loop keeps both chains, their ends, `prev_frag` and the symbols right after every pass, its assertion never fires, neither section ends in an open alignment, and it implements `SplitSpec`, termination included |
| `dump` | the dump is in step with the writers at all times (`InStep`) and complete in the end (`DumpComplete`), both up to the first entry whose address begins like a header, if there is one; and it always advances and stays inside the section (`ParseAdvances`) |
| `mpk` | when the program runs no thread can read protected code, also when it was started before or during the constructor (`CodeUnreadable`); no page without such code gets the key (`OnlyCodeKeyed`); permissions are kept (`PermissionsKept`); no step of the constructor lets any thread read what it could not read before (`NoRightsGained`); the constructor ends (`InitEnds`) |
| `blocks` | directives in any order, instructions over several frags, data, alignment and section changes: places are those of the block's own instructions (`StartsRecorded`), sizes lack exactly the displacements of relaxed jumps (`SizesAddUp`), numbers of fixes exactly those of jumps that leave the section (`FixesOfOwnBlock`), blocks of hand-written files contain no padding (`HandBlocksContiguous`), and the list of fixups is in order (`FixupsSerial`) |

Runs that end in a violation, each of a sentence in a document or comment:

| run | what the code does | the sentence |
|---|---|---|
| `dsplit_alone` | `--dsplit` without `--dcollect` finds no marks and moves instructions | README: "as --keep-locals --dsplit" |
| `align_one` | `.align 1` marks the open frag as alignment and leaves it open; instructions follow into it and move | `read.c`: the alignment is separated from other frags |
| `anchor_symbols` | of several labels on a data frag only the last changes section | `symbols.c`: several anchors do not affect correctness |
| `data_references` | a reference inside moved data stays on the fix list of `.text` | `write.c`: relocation entries are updated; README: data is separated |
| `data_behind_branch` | labelled data right behind a relaxable jump stays in `.text` | README: strict separation |
| `report_strings` | a labelled string is an entry but no block of hard-coded bytes, and the number of indirect code blocks wraps below zero | `write.c:2512`: embedded data comes from `.byte`, `.word`, `.quad`; `datascope.h:45`: the number of hard-coded bytes reached indirectly |

Some more disagreements and limits were met while modelling and have no run of
their own:

* Labelled data that `.space` or `.zero` reserves stays in `.text`: all its bytes
  are in the variable part of the frag, and `write.c:2725` takes a frag with
  `fr_fix` = 0 for an empty one, against the strict separation that the
  repository's README promises (lines 3 and 30). For `x: .zero 64` TLC refutes
  `LabelledDataMoved` when its condition on `fr_fix` is dropped.
* Bytes reserved at the end of a piece of data move and are not reported: for
  `a: .byte 1; .space 100` the entry has the size 1 (`write.c:2509`), while the
  README (line 29) speaks of all embedded data information. The comment at
  `write.c:2527` only assumes `fr_var == 0`. TLC refutes `ReportsWhatMoved` when
  its condition on reserved bytes is dropped.
* The displacement of a relaxable jump is added to `fr_fix` (`tc-i386.c:16554`
  and `md_estimate_size_before_relax`) and never to the size of its block, while
  `bbInfoHandle.h:23` calls it the size of the block and the comment at
  `tc-i386.c:12565` says that the size may change in later stages. `SizesAddUp`
  says that this is exactly what is missing.
* The fix of a jump to an undefined or external symbol or to another section is
  made by `md_estimate_size_before_relax`, which wanes the frag, so that it never
  gets to `md_convert_frag`; no block counts it, while `bbInfoHandle.h:25` calls
  `num_fixs` the number of fixups. For `jmp extern_fn` the block has none.
  `FixesOfOwnBlock` says that these fixes are exactly what is missing.
* Data inside a function moves when its frag holds no instruction, while
  `symbols.c:683` says that only data outside functions is handled.
* `direct_code_num` counts every label bound to bytes of an instruction frag,
  jump target or not (`write.c:2298` against `datascope.h:42`), and
  `direct_data_num` counts labels of other sections that bytes of `.text` were
  bound to (`read.c:1200` against `datascope.h:43`). Both also break
  `IndirectCounts`, with five and six statements instead of two.
* When the obstack runs out of room between an alignment and its data, an empty
  frag separates them and the data moves without its alignment, which
  `write.c:2673` says moves as well.
* An entry of the metadata at an address whose low half is 0x006d6f78 is taken
  for a header by `datadump.c:65`. `Misled` says when; `InStep` and
  `DumpComplete` promise what comes before that entry.
* A protection key that another library has freed comes back with the rights
  threads were given to it before, since freeing changes no PKRU. If the
  constructor gets such a key, a thread that had access to it can read the code.
  `CodeUnreadable` is stated for keys never freed, and TLC finds the
  counterexample when that condition is dropped. `NoRightsGained` needs no such
  condition: the constructor itself gives nobody a right.
* With `MPK_XOM_SCOPE=all`, objects loaded after `dl_iterate_phdr` has taken its
  list are not protected.
* An unused block that a directive takes over (`bbInfoHandle.c:305`) keeps the
  `parent_id` and the mark of a function's end it has: after `.type` and
  `.bbinfo_funb` the first block of function 1 says function 0. And `type` 1 is
  set at a function's end, while `bbInfoHandle.h:17` calls it the start.
* `bbInfoHandle.h:22` calls the `offset` of a block its offset from the section;
  the code records the offset in the frag `parent_frag` (`tc-i386.c:12440`),
  which is what `StartsRecorded` states. And `size` has no alignment in it,
  while `bbInfoHandle.h:23` says it does.
* The fix of a TLS descriptor call is counted by `optimize_disp` before
  `output_insn` has made a block for the call; in a hand-written file the block
  before counts it. `FixesOfOwnBlock` leaves such blocks out.
* `.bbinfo_be 1` before any block writes through a null pointer
  (`bbInfoHandle.c:384`); the model ends in the phase `crash`.

### Bounds

* `MaxStmts` = 4 or 5. The interesting shapes are short: alignment, label,
  data, and one statement before or behind; every counterexample above needs at
  most four statements.
* `MaxGrow` = 2 in `separation`: growth between any two writes, or two in a row,
  which leaves an empty frag between two others. None in the other runs, which
  are about functions, references and the report.
* `MaxFrags` = 6 in `separation`, where an alignment, a label and its data fit
  together with two growths, and 6 or 7 in the other runs, most of them without
  growth; `Room` keeps one frag for `Finish`, so the bound never blocks the end
  of a file.
* Two symbols: a frag remembers two (symbol and anchor), so the third label of
  a frag is the first case not covered; it only adds another forgotten symbol.
* `split_loop`: five free frags, two frags in `.xom_data` as `subsegs_finish`
  leaves it. Runs of data at the root, in the middle, at the end, alternating
  with alignment, and the pair alignment-data at each place all occur.
* `dump`: two files, two entries, names of one or two words, so that an entry
  and a header each occur first, in between and last; two addresses, one of them
  the magic word.
* `mpk`: pages of two bytes and five pages, so that a segment's bounds lie on,
  before and behind those of a page; four programs (code across a page border;
  code that fills a page exactly, writable; two pieces of code with data, an
  empty executable segment and a header that is no segment; no code at all) and
  one library; two keys, so that another library's key exists, is freed and is
  taken again; two threads, the second before, during or after the constructor.
* `blocks`: five statements, three sections of which two are collected, three
  frags besides the first ones of the sections, one growth per instruction. A
  block of its own in each of two sections, an instruction over two or three
  frags, padding with and without a new frag, and a return to a section all
  need at most five statements.

### Fairness

`AsmXom` is checked for safety only. `SplitFrags` and `DataDump` have weak
fairness of the whole next-state relation: both are loops of a sequential
program, which is never suspended for good between two passes. `MpkXom` has weak
fairness of the constructor's own steps: the kernel keeps scheduling the main
thread, and no step of it waits for another thread. Nothing is assumed of the
other threads. Nothing stronger is assumed anywhere.

## 4. Proofs

The theorems hold for every value of the constants: every set of symbols and
statements, every bound, chains of any length, any number of threads, keys,
pages, files and sections. They rest on the assumptions that the modules state
by name, which TLC evaluates in the runs, and on the hypotheses listed here.

| module | theorems | hypotheses |
|---|---|---|
| `AsmXomProofs` | `TypeCorrect` (`TypeOK`) | none |
| | `MarksCorrect` (`MarkInv`), `CodeStays` (`NoCodeMoved`), `GluedStay` (`GluedBytesStay`) | `--fiy-dcollect`, no `.align 1` |
| `AsmXomSplitProofs` | `SplitAgrees` (`SplitInv`), `MetadataExact` (`CollectMatchesSplit`), `SymbolsMove` (`XomSymbolsInXom`) | none |
| | `AlignmentMoves` (`AlignmentFollows`) | `--fiy-dcollect` |
| | `DataMoves` (`LabelledDataMoved`) | `--fiy-dcollect`, no `.align 1` |
| | `FixesStay` (`FixesStayInText`) | the same, and no symbol named in `.long`, `.quad`, ... |
| `SplitFragsProofs` | `LoopKeepsChains` (`LoopInv`), `FragsAreKept` (`NoFragLost`), `EndsAreKept` (`EndsAgree`), `PrevIsBefore` (`PrevPrecedes`), `SymbolsWithFrags` (`SymbolsFollow`), `AssertNeverFires` (`AssertHolds`), `NoAlignmentOpen` (`NoOpenAlignment`) | `NullOK`: a null pointer is no frag |
| | `LoopImplements`: initial states and steps of `SplitsAsSpecified` | the same |
| `DataDumpProofs` | `ItemByItem` (`DumpInv` or `Astray`), `StaysInStep` (`InStep`), `EndsComplete` (where the loop ends, everything up to a misleading entry was reported), `LoopAdvances` (`ParseAdvances`) | none |
| `ReportProofs` | `ReportIsExact` (`ReportsWhatMoved`) | none |
| `MpkXomProofs` | `MpkSafety` (`MpkInv`), `MpkTypes` (`MpkTypeOK`), `KeyedIsCode` (`OnlyCodeKeyed`), `CodeIsUnreadable` (`CodeUnreadable`), `PermissionsAreKept` (`PermissionsKept`), `RightsNotGained` (`NoRightsGained`) | none |
| `BBInfoProofs` | `BlocksAreSafe` (`BBInv`), `BBTypes` (`BBTypeOK`), `SizesAreExact` (`SizesAddUp`), `StartsAreExact` (`StartsRecorded`), `HandBlocksHaveNoGaps` (`HandBlocksContiguous`), `FixesAreOwn` (`FixesOfOwnBlock`), `FixupsAreSerial` (`FixupsSerial`) | none |

The runs `dsplit_alone` and `align_one` show that the hypotheses on `NoCodeMoved`
cannot be dropped, and `data_references` that the additional one of `FixesStay`
cannot: together they say that references in data are the only ones left behind.

### The arguments

*Marks.* `NoCodeMoved` relates what the split moves to where instructions were
written and is not inductive: it says nothing until the split is made. `MarkInv`
says what the marks mean all the time: frags with instructions or with bytes
glued to them are marked and not empty (`CodeMarked`), alignment frags are closed
and empty (`AlignEmpty`), while a run of instructions is open the last frag is
marked and not empty (`GlueOpen`, the condition `frag_grow` tests), unopened frags
are empty (`UnopenedEmpty`), and what moves is unmarked or an alignment frag
(`MovedUnmarked`). An alignment frag that moves is empty and so has no
instruction; any other is unmarked. `AlignEmpty` is what `.align 1` breaks.

*Metadata, symbols, alignment, labelled data.* `SplitInv` says that the set of
moved frags, the entries of the metadata and the sections of the symbols are all
still what the marks say when they are compared: nothing that runs after one
pass changes what the next one tests. `AlignmentMarked` adds that a code
alignment is marked, except for the one `subsegs_finish` puts before the last
frag, which never has data behind it. `FreshInv` adds that a frag opened by a
label is marked only by an instruction that starts in it: what `frag_grow` and
the loop in `output_insn` mark are frags opened after the label. `.align 1` is
excluded in `DataMoves` because it marks the open frag.

*References.* `FixesInCode` says that a fix is for a frag an instruction was
written to, as long as data names no symbols; the split rewrites fixes but leaves
them where they are. With `NoCodeMoved` none is for a moved frag.

*The loop.* `NoFragLost` and the others follow chains of pointers. `LoopInv`
describes them without following: .text is linked from `text_root` to its last
frag through exactly the frags it still has, `.xom_data` likewise through its own
and those taken from .text before `curr_frag`, both in the order `Place` gives;
from `curr_frag` on the chain is untouched, and `prev_frag` is right before it.
Frags are taken out one at a time, so an alignment whose data comes next has to
count as gone together with it (`Movable` looks one frag ahead). That following a
linked set from its root visits exactly the set, and in order, is an induction
over the number of steps. For the refinement, the sequence read off each chain
when the loop ends is shown to be the selection that `SplitSpec` makes.

*The dump.* `InStep` alone does not say where `parse_xom` is. `Laid` says that the
section is the words of what was written, the k-th item ending at `ends[k]`;
`ReadSoFar` says that the offset is the end of the last item reported. At the
beginning of an item the first word tells its kind, its own size word tells its
end, and all of it is there: so the length checks succeed and what is read is
what was written. When no item is left, no word is. The one exception, an entry
that begins like a header, ends this argument and starts a simpler one (`Astray`):
what had been reported before it stays reported. `ParseAdvances` needs neither,
only that the offset is inside the section and its words are numbers.

*The report.* The two sides of `ReportsWhatMoved` are sums over different sets, of
entries and of frags. As long as no moved frag has reserved bytes, the bytes of a
frag are those of its fixed part. `SumFunctionOnSet` adds the elements in an order left open
by `CHOOSE`; by induction over the size of the set such a sum exists and any
element can be taken first. Taking the entries frag by frag, in the order of the
chain, each frag adds the same to both: its bytes, and nothing for an anchor. For
the counts, an entry that counts is the last of its frag, so entries and labelled
frags correspond one to one. That the entries, written before the split, are
those of the frags that then move is `SplitInv`; that nothing changes afterwards
is `ReportInv`.

*Protection keys.* `CodeUnreadable` is about the end of the constructor. `MpkInv`
follows the key from `pkey_alloc` on: it stays allocated, so nobody else gets it
(`KeyKept`); a right to a key exists only where the key was allocated before, so
no thread but the constructor's has one to a fresh key, and a thread started
meanwhile inherits only what its parent has (`RightsGranted`); the loaded objects
stay mapped as their headers say (`ObjectsMapped`); and the code in the headers
`protect_object` has passed is under the key (`CodeKeyed`). That no page beside
the code gets the key is arithmetic on the rounding of segment bounds, for every
page size.

*Basic blocks.* `BBInv` adds to the properties that frags not opened yet are empty
and the open ones are not closed by a jump (`FragsOpened`), that `last_bb` names
the block of a frag's jump (`BlocksNamed`), that `is_begin` says whether a block
has instructions (`TailBegun`), and that in a hand-written file the last block
ends where the three `bbinfo_last_*` variables say as long as that frag is open
(`HandEnd`). The size of an instruction over several frags is a sum over the
frags opened since; that the recursive function in `insn_size` exists and is that
sum is proved by induction over its interval. Relaxation comes after all this:
until then no jump has its displacement (`Unrelaxed`), so the sets `Late` and
`Leaving` that `SizesAddUp` and `FixesOfOwnBlock` count are empty and the reading
pass is argued without them; afterwards each step adds one jump to `Late`, to
`Leaving` too if it leaves the section, and one byte and at most one fix to the
same block's history.

`SetInduction` states induction for the set of the numbers at which something
holds, from the well-foundedness of the natural numbers, because the library's
induction theorems take an operator as a parameter, which the provers cannot
instantiate.

### Only model-checked

* Liveness: `DumpComplete`, `InitEnds` and the fairness in `SplitsAsSpecified`
  (that the loop ends). The prover does not handle fairness. The safety parts
  are proved: `EndsComplete` and `LoopAdvances` (the words left bound the steps),
  and `LoopImplements`.

## 5. Simplifications

* The symbols are as with `--keep-locals`, which the documented calls always
  pass: one kind of symbol, all of them in the symbol table.
* Lengths count items, not bytes: an item of `.byte`, an opcode or an operand
  is one, and so is what a `.space` reserves or a relaxed jump's displacement.
  Only whether a frag has bytes matters to the code modelled.
* A statement has at most two items or two writes.
* Sections other than `.text` are one section, `other`; its frags are not
  represented, since the passes look at `.text` only.
* Fixes are a set; size and addend are left out.
* Left out because they do not touch marks or chains of the data pass: numbered
  subsections of `.text`, `-malign-branch`, MRI syntax, listing, logging,
  `.org`, `.uleb128`, a `.space` whose count or fill is no constant,
  redefinition errors, relaxation.
* `begin_bytes` and `hardcode_size` are left out: the only code that reads the
  first is under a test of `S_IS_CF_SYMBOL (NULL)`, which is never true; nothing
  reads the second.
* `DataDump` carries two of the five counters, the low half of addresses as one
  word, and names as a length and whether they are `"null"`. The linker adds no
  padding between contributions.
* `Report` has one file. With several, `parse_xom` adds up counters and entries;
  a sum wraps no sooner than its parts disagree.
* In `MpkXom` a main program is the first object, as `dl_iterate_phdr` reports
  it with an empty name; a loaded segment lies inside the address space, segments
  of one object never share a page and an object is mapped where nothing else
  is, as the loader sees to; reading and writing PKRU is one step, since the
  register belongs to the thread. Signals and reads through the kernel are left
  out.
* In `BBInfo` an instruction has at most one operand with a fix, an address
  matters only by its order, and `-malign-branch` padding is left out.

## 6. Not modelled

* bfd, ld, opcodes, binutils, gprof, gprofng, libctf, libsframe, libiberty and
  zlib, and the parts of GAS for other processors, are upstream Binutils 2.44:
  over two million lines, of which nearly all are tables, encoders and formats
  that the additions neither change nor depend on. The share of the tree that
  the modules map is therefore very small, while the code this repository adds
  is covered but for what follows. The additions to `ld` only write a log.
* Data labels (`--fiy-dlabel`): `split_embedded_data` returns at once and
  `fix_data_label_info` is empty, so what is left collects names and prints
  warnings. There is no behaviour to state.
* `write_meteheader`, `write_metedata` and `parse_frags`, the earlier form of the
  metadata, are not called.
* `.bbinfo_jmptbl` and `update_last_symbol` set two fields of a symbol that
  nothing reads. The lists of blocks and fixups are never written to the object
  file, so there is no reader to model.
* Relaxation and the writing of relocations are upstream and work on the chains
  the split leaves; what they would do with misplaced fixes is beyond the claim
  of `data_references`.
* `datadump`'s search for the section in the ELF file and the layout of its
  table are input and output.

## 7. Plan

Every invariant and every action property that a passing run checks is stated by
a theorem. What is left is to widen the model: several files in `Report`, with
the sums of `parse_xom` over all of them; local symbols, as without
`--keep-locals`; and the hazards of `PROJECT.json` that have no property yet.
