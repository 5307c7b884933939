# A verification development for fst_wave_demo

This directory holds TLA+ models of the code of this repository, the TLC runs
that check them on small instances, and theorems about them checked by TLAPS.
All models are translated from the source; every definition that stands for
code is listed with its lines in `PROJECT.json` ("map").

## 1. The system

`fstdemo.c` is a simulator of a small circuit that dumps its signals as an FST
wave form file. Most of the repository's logic is in the library it links,
`include/libfst/fstapi.c`; a second, independent program is the parser of
FIRRTL circuits in `parser/`.

### Inventory

| Component | State | Operations | Talks to |
|---|---|---|---|
| FST writer, core (`fstWriterCreate`, `CreateVar`, `EmitValueChange`, `EmitVariableLengthValueChange`, `EmitTimeChange`, `FlushContext`, `SetDumpSizeLimit`, `Close`) | per handle the last value (`.bits`, `curval_mem`), the position and index of its latest record (`valpos_mem`); `vchg_mem`; the time table (`tchn`, `tchn_idx`); `curtime`, `firsttime`; flags (`is_initial_time`, `section_header_only`, `size_limit_locked`, `flush_context_pending`); the file | one call of the simulator each | calls itself for a flush; writes the file |
| The file on disk, and the parallel flush (`FST_WRITER_PARALLEL`) | the file, the `.hier` file, a `.pak` copy; a copy of the writer's context, `xc_parent`, a mutex, `in_pthread`, `already_in_close` | the single writes of a flush and of close; the thread; `fstReaderInit` | writer to disk to reader; the process may stop at any time |
| Header (`fstWriterEmitHdrBytes`, `SetDate`, `SetVersion`, `SetFileType`, `SetTimescale`, `SetTimezero`) | a block of fixed length at the start of the file | setters that seek there and back; the reader's getters | shares the writer's handle with every other write |
| Hierarchy | a stream of scope, attribute and variable records (`hier_handle`, `hier_file_len`); the geometry; enum tables | declaring functions, `fstReaderIterateHier`, `fstReaderProcessHier` | written to a side file, packed by close |
| Names of scopes in the reader | the flat name, its allocation, the list of open scopes | `fstReaderPushScope`, `PopScope`, `ResetScope` | called by a viewer while it iterates the hierarchy |
| Byte encodings | none | varints, words, escapes, vectors, chains, time scales, lines of a VCD file | both sides |
| Chain index of a section | the positions of the chains; the readers' `chain_table`, `chain_table_lengths`, `pidx` | encode (flush), decode (both readers) | writer to reader, through the file |
| FST reader (`fstReaderOpen`, `IterBlocks2`, `GetValueFromHandleAtTime`) | the header fields, geometry, process mask, time range; for the value-at-a-time calls a cached section and a cursor in it | open, iterate, seek | reads the file |
| Compression (`lz4.c`, `fastlz.c`) | none (vendored) | lossless codecs | the writer and the reader |
| FIRRTL parser, task pool (`firParser.cpp`) | `taskQueue`, `q_mtx`, `cv`, `lists`, `globalRoot` | main: split, start, join, merge; worker: take, parse, store | threads share the queue |
| FIRRTL lexer and grammar (`lexical.l`, `syntax.y`, `PNode.cpp`) | `curr_indent`, `indentLevels` and the start condition; the syntax tree | one token or one reduction each | one lexer per task |
| Simulator headers (`graph.h`, `Node.h`, ...) | none: declarations whose code is not in this repository | | |
| GCD circuits (`GCD.scala`, `DecoupledGCD.scala`) | a few registers | one clock step | |

### How the parts interact

The simulator calls the writer, one call at a time. Changes are appended to
`vchg_mem` as per-handle lists whose records carry the difference of time-table
indices. When the memory is full, or a flush was queued, the next *time change*
turns the memory into a section: frame, one chain per handle (equal chains
once), index of the chains, time table. The header of the following section is
written immediately, tagged `FST_BL_SKIP`; the flush that completes the section
rewrites the tag. Closing completes or cuts off the last section, appends the
geometry, the blackouts and the hierarchy, rewrites the file header and, if asked
to, replaces the file by a compressed copy. A reader sums the
differences up again, section by section.

The parser's main thread cuts the text into tasks of a few modules, sorts them
by length, and appends one exit flag per worker. Ten workers take tasks from
the back of the shared vector and store each task's module list; after the
join the main thread splices the lists in source order.

### What is hard

* Every flush resets some indices and differences and keeps others; an error
  misdates all changes behind it, which only a test reading back several
  sections would see.
* The initial time, the size limit and "nothing has changed" are expressed
  through the same few flags (`is_initial_time`, `section_header_only`,
  `vchg_siz`), and closing has to tell all their combinations apart.
* Variables may be declared while others are being dumped; the tables are
  unmapped then and mapped again lazily.
* A call is several writes to two or three files; the process may stop between
  any two of them, and the reader has to make sense of what is left.
* With `FST_WRITER_PARALLEL` these writes are a thread's, on a copy of the
  context that was taken before the previous thread had finished.
* Header setters, the hierarchy's lengths and the two readers of the hierarchy
  rely on positions and counts kept elsewhere.
* Reader tables outlive the section they were decoded for.
* The parser's workers race for tasks and exit flags.

`PROJECT.json` ("hazards") lists each with its line.

## 2. The modules

| Module | Models | Status |
|---|---|---|
| `FstWriter` | the core of the serial writer | checked, proved about |
| `Waveform` | what a wave form file promises (abstract) | used by the refinement |
| `FstDecode` | the reader's decoding of a section, as functions | used by the refinement |
| `FstWriterRefines` | `FstWriter` + `FstDecode` implement `Waveform`; what it closes is well formed | checked, proved about |
| `FstFile` | the file operations of every call, the flush thread, a stop between any two, and what the reader opens | checked, proved about |
| `FstHeader` | the header's bytes, the setters, the getters | checked, proved about |
| `FstHier` | the declaring functions, byte by byte, and the readers of the hierarchy and geometry | checked, proved about |
| `FstScopes` | the reader's flat name of the current scope | checked, proved about |
| `FstCodec` | numbers, words, times, escapes, tables, as functions | used by the next, by `FstHeader` and `FstHier` |
| `FstValue` | values, chains of changes and lines of a VCD file, out and in | checked |
| `FstChainIndex` | the chain index, encoded once, decoded by both readers | checked, proved about |
| `FstSections` | a closed file, decoded, as its reader takes it; what makes it well formed | used by `FstReader` and `FstWriterRefines` |
| `FstReader` | the reader's mask and range, the iteration, the value at a time | checked, proved about |
| `FirLexer` | the lexer's indentation and the shape of the grammar, as functions of a text | used by `FirParser`, proved about with it |
| `FirParser` | task queue, workers and merge of the FIRRTL parser | checked, proved about |
| `FstWriterProofs` | type correctness of the writer; what is recorded can be read back; closing, the size limit, frames and times of successive sections | proved |
| `FstWriterRefinesProofs` | the writer implements `Waveform` and closes well-formed files | proved |
| `FstFileProofs` | wherever the process stops, what the reader finds | proved |
| `FstReaderProofs` | answers and callbacks are those of the file | proved |
| `FirParserProofs` | the tree is the text, nobody waits, no assertion fails | proved |
| `FstEncodingsProofs` | the flat name follows the open scopes; what the setters write to the header is what the getters read, and leaves the blocks alone; both readers find the chains of a section | proved |
| `FstHierProofs` | the length of the hierarchy is counted; what the reader returns is what was declared; stems name their paths | proved |
| `Induction` | induction over numbers, recursively defined functions, folds | lemmas for `FstWriterRefinesProofs`, `FstFileProofs`, `FstReaderProofs`, `FirParserProofs`, `FstEncodingsProofs` and `FstHierProofs` |

The `MC...` modules hold the small instances: sets of values, files and texts,
the sets of usages, and the model values. `FstWriterRefines` composes the writer
with the reader's decoding and compares both with `Waveform`; `FstFile` composes
the writer's file operations with its thread and with the reader's opening;
`FstReader` uses the same decoding functions as its reference. The
well-formedness `FstReader` assumes of its files (`FilesAssumption`) is a property of
every file `FstWriter` closes: `WrittenFileReads`, checked and proved. So what holds of
the reader for well-formed files holds for what was written.
`MCFstEncodings` checks five modules that share nothing but the file (values,
hierarchy, names of scopes, header, chain index) side by side: `part` says which
one an execution is about.

### FstWriter and the code

One action is one call of the simulator, from its entry to its return; the
library is called by one thread and calls nothing back, so nothing interleaves
inside a call in the serial build.

| In the model | In `fstapi.c` |
|---|---|
| `vchg_siz`, `chain`, `lastidx` | `vchg_siz`, the records in `vchg_mem` behind `valpos_mem[4*i+2]`, and `valpos_mem[4*i+3]` |
| `curval` | `curval_mem`, the `.bits` file, as of the last checkpoint |
| `tchn`, `tchn_idx` | the time file and `tchn_idx` |
| `mapped` | `valpos_mem` and `curval_mem` are not `NULL` |
| `tail` | the section header at the end of the file, tagged `FST_BL_SKIP` |
| `blocks` | the completed `FST_BL_VCDATA_DYN_ALIAS2` sections |
| `hdr` | the fields of the `FST_BL_HDR` section that calls rewrite |
| `times`, `marks`, `past` | nothing: history, recorded for the properties |

`WriteSection` is `fstWriterFlushContextPrivate` beyond its early return, used
by the time change (`FlushTimeChange`) and by close (`CloseFlush`); the early
return is `EmptyFlushTimeChange` and `CloseEmpty`. `fstWriterEmitTimeChange` is
four actions, by its conditions: the first time, no flush due, a flush, a flush
that returns early. `fstWriterClose` is five, for what becomes of the open
section. A flush that meets `valpos_mem == NULL` is `CrashInFlush`.

Abstracted: a record takes one unit of memory instead of its bytes, so
`BreakSize` counts records; whether the file has reached the limit is a choice
after every flush once a limit is set (`LimitOutcomes`). The simulator does not
go back in time. `Usage` is what a simulator makes use of, so that a run can
tell what the writer guarantees to whom.

### FstFile and the code

`FstWriter` takes a call as one step; `FstFile` takes the same calls apart. A
call only decides what is to be written (`main`, a queue of operations) and
updates the context `xc`; `MainWrites` then does one operation at a time, `Write`
saying what it does to the disk. So `Flush` lists the operations of
`fstWriterFlushContextPrivate` in their order, `CloseRest` those of
`fstWriterClose` behind the flush, `CloseHier` the two ways the hierarchy is
packed (gzip through `hier_handle`, LZ4 through a mapping of the `.hier` file),
`Repack` the compressed copy that takes the file's place. `SpillHier` is stdio
emptying the hierarchy's buffer, in the middle of a record or not. With
`"parallel" \in mode` a flush is `spawn`ed: `FlusherLocks`, `FlusherWrites` and
`FlusherExits` are the thread, which works on the operations that the copy of the
context gave it and hands only `section_start` and the truncation point back.

`Stop` is the process being killed, and also a signal handler that ends the
program after its call of `fstWriterClose` was turned away. `Opened` is
`fstReaderOpen` as a function of the disk: the walk over the blocks, where the
hierarchy comes from, and where the number of handles does.

Abstracted: a section is the number of its flush; a record of the hierarchy is
a variable or something else; a block is as long as the blocks its length spans.
A write is not torn, except in the hierarchy, where a reader could be misled by
half a record. Several writes behind a length that is still 0 are one operation,
since a reader does not look there.

### FstHeader and the code

The file is a sequence of bytes with the header at the code's offsets, in words
of `WordSize` bytes and texts of `VersionSize` and `DateSize`. A setter is `Patch`:
seek to the field, write, seek back; `EmitBlock` stands for every write in
between. `CloseHeader` finalises the words and opens the file by a machine with
the same order of bytes as the writer's, or the other; what it finds, the times and the
counts, is a member of `Closings`.

### FstHier and the code

The `.hier` file is a sequence of bytes. One action is one declaring function:
variables with and without supplements, scopes, attributes, comments, source
stems, enumeration tables. What they wrote is read by `fstReaderIterateHier`
(record by record, as a viewer does) and by `fstReaderProcessHier` (which counts
handles and lengths when there is no geometry), and must be what was declared.
`signal_lens` and `signal_typs` are built by both sides. Strings are cut where the
code cuts them (`NamSiz`, `AttrSiz`).

### FstScopes and the code

`curr_flat_hier_nam` is the string, `alloc` the bytes last allocated for it,
`curr_hier` the list of open scopes with the length each gave the string. `flat` is
history: what a viewer was given at each open scope.

### FstCodec, FstValue and the code

Functions, each with its inverse as the other side computes it: varints (left to
right, right to left, signed), words, time differences, blackouts, escaped
strings, enumeration tables, VCD identifiers, time scales, vectors from bytes and
from words of 32 and 64 bits, the packing of bits in a chain, and the line of a
VCD file a change becomes. `Width` stands for the 32 and 64 bits of the code;
arithmetic wraps at it. A step of `FstValue` sends one number, text, table, vector
or chain through both sides and keeps what came out.

### FstChainIndex and the code

A step writes one section of arbitrary chains and lets both readers decode its
index: `Index` is the encoding in the flush (runs, aliases, repeated aliases,
differences of positions), `Decode` folds `DecodeEntry` over the entries, as the
loops in both readers do. `tables` is what `fstReaderIterBlocks2` keeps from one
section to the next; the other reader starts with `NewTables`. The Jenkins hash
that finds equal chains is its result, `FirstWith`.

### FstReader and the code

`file` is what `fstReaderOpen` finds; `process_mask` and `limit` are set by their
setters. `fstReaderGetValueFromHandleAtTime` is one action per way through its
scan: refused, in the cached section, no section, another section, and the
boundary between two. `section`, `chain_facidx` and the `pos_` variables are the
`rvat_` fields that survive a call. `fstReaderIterBlocks2` is one call too, but
its steps are separate actions: reading or skipping a section (`LoadSection`,
`SkipSection`, `LeaveSections`), calling back one change (`CallBack`, with the
chain relinked at its next time), and moving on (`NextTime`, `SectionDone`);
`IterationReturns` ends it. `phase` keeps other calls out meanwhile, as a viewer
whose callbacks do not call the reader does. `called` is the sequence of
callbacks. `phase = "misread"` stands for whatever happens once bytes of one
field were taken for another's; nothing follows it.

### FirParser, FirLexer and the code

`FirLexer` is a function of a text: `LexLine` is the `<indent>` rules at one
line, `LexEnd` the rules at the end of the text, `Shift` the grammar's demands
on circuits, modules and blocks, and `Parse` gives the nodes of the modules in
order, or a syntax error. The node of a module is made by the reduction of its
rule (`Reduced`), for which the parser needs no token behind the closing
`DEDENT`; its line number is the lexer's at that moment (`syntax.y:261`). The
lexer returns that `DEDENT` at the first character of the next line that is not
blank, or at the end of the text, so the number is that of the line that follows
the module and its blank lines. `module` in a node is the line of its heading, which
stands for its name and its children.

In `FirParser`, a boundary is a module line of exactly two spaces, as the pattern of
`strstr` has it (`Boundary`). `main` is the place of `parseFIR`; it creates tasks one at a time (`CreateTask`), sorts them with the exit flags
(`SortQueue`; equal lengths may end up in any order), starts the threads, joins
them in order and merges. A thread's steps are its critical section (`Take`) and
the parsing of its task (`ParseTask`), whose store goes to a slot of `lists` that
nobody else touches before the join. `"exited"` is the process after a syntax
error, `"aborted"` after a failed assertion, `"crashed"` after the `NULL` search.

### Waveform and FstDecode

`Waveform` has no sections, tables or buffers: initial values are collected,
then changes are appended, never back in time, and closing changes nothing.
`FstWriterRefines` maps the writer's state to it with the reader's functions of
`FstDecode`: the decoded sections followed by the decoded buffer are the wave
form. So a flush, an early return and closing must be invisible.

## 3. The runs

| Run | Configuration | Shows | Bounds |
|---|---|---|---|
| `writer` | `FstWriter.cfg` | every section decodes to what was emitted; frames chain up; closing leaves a complete, described file, well formed for the reader; the limit is final; and the writer implements `Waveform` | 2 handles, the second of variable length, 2 declarations, times 0..3, 5 calls, flush at 2 units; late variables and the limit |
| `writer_careless` | `FstWriterCareless.cfg` | sections tile even if the simulator also flushes nothing and flushes unmapped | the same, flush at 3 units |
| `file` | `FstFile.cfg` | wherever the process stops, the reader finds every completed section with its handles; a closed file is whole; close returns | the 12 different modes of packing (none, gzip or LZ4), repacking and threads; 2 records of hierarchy, times 0..2 (two flushes and the one of close), 1 blackout |
| `encodings` | `FstEncodings.cfg` | what is written in each encoding is what each of its readers reads | numbers of 30 bits, words of 4 and 8; 3 declaring calls; 3 open scopes; 3 calls between creating and closing for the header; 4 handles and 3 chains for the index |
| `parser` | `FirParser.cfg` | the tree is the text, no thread waits forever, no assertion fails, the parser ends | 2 threads, 2 modules per task, up to 5 modules of three forms, between them one or two blank lines, or none |
| `reader` | `FstReader.cfg` | answers and callbacks are those of the file | 23 files of two sections and two handles, 3 ranges, 3 modes, times 0..6 |
| `flush_of_nothing` | `FstWriterFlushEmpty.cfg` | **violated**: a queued flush leaves the recorded times alone | as `writer_careless` |
| `stale_index` | `FstChainIndexStale.cfg` | **violated**: iteration finds exactly the chains written | 3 handles |
| `reader_cursor` | `FstReaderCursor.cfg` | **violated**: the answer is the value, also going back in time | one file |
| `reader_boundary` | `FstReaderBoundary.cfg` | **violated**: the scan goes on with the section it found | one file |
| `wide_values` | `FstValueWide.cfg` | **violated**: a vector emitted from 64-bit words is that emitted from 32-bit words | as `encodings` |
| `firrtl_types` | `FstHierFirrtl.cfg` | **violated**: the iteration returns whatever was declared | 2 declaring calls |

Why the bounds are enough for what they are to show:

* *Writer.* Five calls at a break size of two units make two sections, one by
  a time change and one by close, or one section and a header behind it that
  close cuts off, with records of both handles; a distance over two times, a
  value from before the first time, a declaration between two changes and a limit
  hit by a time change and by close all occur. Two handles are enough to mix a
  handle with a chain and one without, and a fixed and a variable length. The
  proofs lift the bounds for all of these properties, the refinement included.
* *File.* A second section is begun before, while and after the thread of the
  first writes; three sections add nothing, as a context remembers one section
  start and one truncation point. Two records make a hierarchy of which half is
  on disk. Every mode meets every way of closing: cut off, flushed, empty, before
  the first time. The proofs lift the bounds for all properties but `CloseReturns`.
* *Encodings.* The numbers stand at the boundaries of one to five bytes, of the
  sign and of the width; the vectors end within a word, at its end and behind it;
  characters are those the escapes know, a control character, 0 and 255. Names
  are shorter and longer than the fields that hold them. A scope without a name
  stands at any of three depths. Four handles of three chains have runs of
  handles without chains at the start, in the middle and at the end, an alias, an
  alias repeated with and without a run between, and two different aliases;
  sections follow each other with any contents. The proofs lift the bounds for the
  names of scopes, the blocks behind the header, the chain index and the hierarchy
  (but not for `DeclarationsAgree`).
* *Reader.* Chains of up to three records have two changes at one time, one at
  the first and one at the last time of the section; the odd files have a late
  handle, one the first frame does not know, a handle of variable length, values
  from before the first time, a begin that differs from the first time and a header
  that ends later than the last section. The
  calls are not bounded at all: the reader's state is finite. The proofs lift the
  bounds for all four properties.
* *Parser.* One task to three for two threads, a last task with fewer modules
  than the others and one with as many, one or two blank lines in turn at every cut
  or none, so that a node's number differs from the line behind its module, one
  thread taking everything or none. Threads differ only in their number. The
  proofs lift the bounds for all properties but `Terminates`.

A writer, a process or a parser may stop (a closed or a lost file, a finished
tree), a misread file has no next step, and the declaring calls are bounded: these
configurations do not check for deadlock.

### Fairness

The serial writer, the encodings and the reader have safety properties only:
their actions are the decisions of a caller, who owes nobody a call, and the
reader's iteration is one call of one thread. In `FstFile` the steps of a call that
has begun and of the flush thread are weakly fair, and nothing else: neither a
call nor a stop is owed. `CloseReturns` says that a close that has begun ends,
unless the process is stopped. In `FirParser` the main thread and each
worker are weakly fair: they are threads of one process, scheduled by the
operating system, and block only where the model disables them (an empty queue,
a thread that has not ended, a mutex that is held). No strong fairness is
assumed. `Terminates` is about texts with a module to search for and a blank line
at every cut (`Cuttable`); for the others see below.

### What the violated runs show

1. `flush_of_nothing`: `fstWriterEmitTimeChange` writes `curtime` into a time
   table that was not started anew. All later times of the section are wrong.
2. `stale_index`: iterating, a table entry of an earlier section makes a handle
   without changes an alias of another one.
3. `reader_cursor`: after going back to before a handle's first change the old
   cursor is still valid and hides the changes in between. With changes at 5 and
   8, asking for 8, 0 and 5 gives the initial value for 5.
4. `reader_boundary`: asking for the time two sections share, when neither is
   cached, takes the scan to a wrong place in the file. The program exits with
   `frame decompress rc: -3, exiting`.
5. `wide_values`: `fstWriterEmitValueChangeVec64` copies each word of a vector of
   more than 64 bits into 32 bits before it shifts it (`fstapi.c:3130`).
6. `firrtl_types`: the FIRRTL types of `fstapi.h` are written as tags that
   `fstReaderIterateHier` takes for the end of the hierarchy (`fstapi.c:4282`).

### Known behaviour, and what the runs assume

* A file that is closed when time has advanced but nothing has ever changed
  keeps its only section tagged `FST_BL_SKIP` (`CloseEmpty`), and
  `fstReaderOpen` fails on it. `ClosedFileIsComplete` and `RecoversCompleted` are
  therefore about files with sections.
* A variable declared after a change, and a flush before the next change: the
  flush reads through `valpos_mem == NULL` (`CrashInFlush`, `fstapi.c:1337`).
  `FstWriterCareless.cfg` reaches it; nothing follows it.
* A writer that is killed after a late variable may leave a hierarchy on disk
  that knows fewer handles than its sections. One that is killed while
  declaring may leave half a record, in which the reader waits for a name to end
  (`Opened` calls it `"hangs"`). With LZ4, a record declared after the hierarchy
  was last flushed is not in the mapping that close compresses, which has the same
  effect. `file` therefore has a simulator that declares first (`"late"` is not in
  `Usage`).
* In parallel mode the mutex says whether a thread writes, not whether one has
  been created; a second flush or a close before the first thread has begun
  copies a context whose section start is out of date. A close when nothing has
  changed decides from flags the thread has set in its own copy. `file` has a
  patient simulator (`"hasty"` is not in `Usage`).
* The header setters move the writer's handle and bring it back without taking
  the mutex, so a client must not call them while a thread flushes.
* `fstWriterSetFirrtlType` and `fstWriterEmitFirrtlValueChange` are declared
  (`fstapi.h:483-484`) and defined nowhere.
* A circuit of more modules than a task takes is a syntax error unless a blank
  line stands at the cut (`Cuttable`).
* A circuit whose modules are all public has no line `module` to search for:
  `strstr` returns `NULL` and is called again behind it (`SearchFromNull`). No
  property promises anything for such a text: `Terminates` is about texts with a
  module line to search for.
* The line number of a module in the tree is not that of its heading but of what
  follows the module (`NumberedBehind`), and depends on where the text was cut:
  behind the last module of a task it is the blank line the task ends with, in
  front of the next module line; behind any other it is that next line itself. So
  it changes with `MODULES_PER_TASK`.
* A string in the table of an enumeration is taken apart at its spaces, so a table
  whose name contains one is not read back as it was written. The tables of `encodings` have names
  without spaces.
* Values emitted before the first time are in the first frame only. If the first
  section begins with its first time, as it does unless a value was emitted
  first, the iteration never calls the frame back; `IterationReplays` allows for
  it (`InitialKnown`).
* The text of a circuit has to end with a newline, for the lexer to close its
  blocks.

## 4. The proofs

Every theorem holds for all values of the constants, under the assumptions the
modules declare and, where the table says so, a restriction of what the client does:

* about the writer: for every `MaxHandle`, `MaxSigs`, `MaxTime`, `MaxCalls`,
  `BreakSize >= 2` (`BoundsAssumption`), every set of values and of variable-length
  handles (`DataAssumption`);
* about the file on disk: for every number of records, times and blackouts and every
  set of modes (`FileAssumption`), for a simulator that declares first and is patient
  (`"late"` and `"hasty"` are not in `Usage`; section 3 says what happens to the others);
* about the reader: for every set of files that are `WellFormed` and every set of ranges
  (`FilesAssumption`), and every sequence of calls; the answers, for a viewer that does
  not go back to before a handle's first change (`"rewind"` is not in `Usage`;
  `reader_cursor` shows what happens to the others);
* about the parser: for every number of threads and of modules per task
  (`ThreadAssumption`) and every set of texts that are not empty (`TextAssumption`);
* about the names of scopes: for every depth and every set of names that are sequences
  of numbers (`ScopesAssumption`);
* about the header: for every size of its strings and of a word of two bytes or more, all
  C strings, time zeros and results of closing that the types of the code can hold, and
  every number of calls (`HeaderAssumption`, `CodecAssumption`);
* about the hierarchy: for every set of scopes, variables, attributes, comments, stems and
  tables made of C strings and of numbers that fit their width, every number of calls
  below `Modulus` and every size of the reader's fields in which the number of a path
  fits, for a client that leaves the attributes of paths and stems to the functions made
  for them (`HierAssumption`, `CodecAssumption`); what the reader returns, for variables of the types
  it has a case for (`TypesKnown`; `firrtl_types` shows what happens to the others);
* about the chain index: for every number of handles and every set of chains, of any
  sizes of two bytes or more (`IndexAssumption`).

| Theorem | States |
|---|---|
| `TypeCorrect` | `TypeOK`: in particular that no distance of records and no difference of times is negative |
| `SectionsAlwaysDecode` | every completed section decodes to what was emitted, if no flush is queued for nothing |
| `BufferAlwaysDecodes` | so does the section in memory, under the same assumption |
| `ClosingLosesNothing` | closing leaves no change in memory |
| `HeaderAlwaysDescribes` | the header of a closed file counts its sections and spans their times and handles |
| `ClosedIsComplete` | a closed file with sections has no section tagged `FST_BL_SKIP` |
| `LimitIsAlwaysFinal` | after the limit no call changes sections or clock |
| `FramesAlwaysChain` | a section's frame is the one before it with its changes applied |
| `SectionsAlwaysTile` | sections follow each other without gap or overlap and contain their times |
| `WriterImplementsWaveform` | the writer, read back, implements `Waveform`, if no flush is queued for nothing and none meets unmapped tables |
| `WrittenFilesRead` | a closed file with sections is well formed for the reader, if no flush is queued for nothing |
| `FileInductive` | every state between two file operations is one of the stages below |
| `FileTypeOK` | section starts and truncation points lie within the file, `.hier` holds a prefix of the hierarchy, no flush is outstanding that was not asked for |
| `FileRecoversCompleted` | wherever the process stops, the reader finds every completed section, chained, with its times |
| `FileOpensWithHandles` | from the first completed section on the file opens, and all handles are known |
| `FileAlwaysUnderOneName` | while a section exists, one of the two names leads to a whole file |
| `FileClosedIsWhole` | a closed file opens with all sections, times, handles, blackouts and the hierarchy |
| `ReaderTypeCorrect` | `TypeOK`: in particular that a cursor is at a record of the chain loaded from the section cached |
| `ReaderAnswers` | every answer is the value of the handle at the time, whatever was asked before |
| `ReaderIterates` | an iteration has called back the changes of the masked handles in the range, each once and in order |
| `ReaderReplays` | the latest value called back, up to a time of the range, is the value at that time |
| `ParserTypeOK` | `TypeOK`: in particular that no thread stores outside `lists` |
| `ParserTreeIsText` | the merged tree has every module of the text once, in its order, numbered as the line that follows it |
| `ParserNobodyWaits` | a thread that has not ended finds an element in the queue |
| `ParserNeverAborts` | neither assertion fails, if every text starts with its version line |
| `ScopesAlwaysFollow` | the flat name is that of the open scopes, and fits its allocation |
| `BlocksAlwaysStay` | no setter of the header and not close moves or changes a block |
| `HeaderAlwaysReads` | the getters return what each field was last set to, strings cut to their fields, and tell the two orders of doubles apart |
| `LengthAlwaysCounted` | the length the writer counts call by call is what it wrote to the hierarchy |
| `IterationAlwaysFaithful` | the hierarchy's reader returns what was declared, in order, in every iteration |
| `IterationAlwaysComplete` | an iteration that ended undisturbed has returned everything |
| `StemsAlwaysResolve` | a stem has the number of exactly one path, returned before it |
| `SeekAlwaysFindsExactly` | the reader of a single value finds every chain of a section where it was put, in its length, and none for a handle without one |
| `IterationAlwaysFindsChains` | the iteration finds every chain of a section, whatever is left in its tables |

**`TypeInv`.** That a distance is a natural number needs `IndexBound`: no
record's index is beyond the current one. It survives a flush only because the
flush resets both sides. That a header exists whenever a section is completed,
and that the truncation point is the end of the last section (`TruncAtEnd`), make
the file's type inductive.

**`DecodeInv`.** `SectionsDecode` is about sections already written, so it is
preserved only if what is about to be written decodes: `TableDecodes` (the time
table sums up, and `curtime` is its last entry), `LastIsLatest` (`valpos[3]` is
the index of the latest record) and `ChainsDecode`. These in turn need to know
what the flags mean: `LimitStops` (the limit sets the flag of the initial time
again), `Unstarted` (before the first time nothing is written or queued) and
`PendingDirty` (a queued flush finds something to flush). The last is where
`"flush_empty" \notin Usage` is needed, and the run `flush_of_nothing` shows what
happens without it. The lemmas `TimesGrow`, `ChainGrows` and `TableGrows` say
that appending a difference or a record keeps the running sums; they are proved
for arbitrary sequences.

**`CloseInv`.** Closing decides by `section_header_only`, the truncation point,
`vchg_siz` and two flags. `HeaderAtEnd` and `CleanIsEmpty` say what the first and
the third mean while dumping, `LimitEndsFile` that nothing follows the last
section at the limit, `SectionsCounted` and `SectionsBehind` what the final
header is computed from. With `Unstarted` and `LimitStops`, each of the five ways
of closing gives the three properties. Nothing here needs the assumption on
flushes.

**Frames.** The frame of the next section is taken from `curval`, the checkpoint;
the property relates it to the chains of a section already written. `BitsFramed`
says that from one flush to the next the checkpoint stays what the open section's
frame was written from, whatever is emitted or declared meanwhile; `KnownChains`
that a handle not declared yet has no chain, so that a late one enters the frames
unset.

**Tiling.** A section ends at `curtime` as of its flush, and the next one begins
there. That its times lie between needs `TimesInSection` for the section in memory
(recorded times lie between the open section's begin and `curtime`) and `PastAligned`,
that the history has one entry per section. A flush of nothing repeats a time
but leaves all times inside, so no assumption on `Usage` is needed.

**Refinement.** Three things are shown apart. `SumIsUnique` and its neighbours say that
the reader's running sums are the only times a table decodes to, so that what the writer
recorded (`marks`, `times`) is what the reader sees (`WaveShown`). `ReadInv` says that
nothing in the file or in memory is later than `curtime`, which is what `Waveform`
demands of a next change. Then every action is a step of `Waveform` or none
(`Answered`): an emit before the first time is an initial value, any other is appended
at the end of its handle's changes (`AppendedStep`), and a flush moves changes from the
decoded buffer to the decoded sections without changing their concatenation
(`WrittenShown`). A flush queued while nothing has changed misdates what follows, and one
that meets unmapped tables loses the buffer (`CrashInFlush`): both are excluded.

**Written files.** `WellFormed` is stated for the reader, and says more than the
properties of the writer do one by one: that chains belong to handles the section knows,
that its frame has as many entries as there were handles at the section before, that the
header counts them all, and that a table begins where the section before ended.
`JoinInv` adds this to the invariants above. `Continues` relates each written section to
the one before it, `TailContinues` the section in memory to the last one written, with the
header that was written for it (`hdr`, `tail`) and the handles declared since; only the
step that completes a section moves one into the other (`WriteContinues`). For a closed
file, `WrittenTable`, `WrittenChain` and `WrittenFrame` turn `SectionsDecode` and
`FramesChain`, which speak of what was emitted, into the reader's terms, in which only
the file is known. With it `ReaderAnswers`, `ReaderIterates` and `ReaderReplays` apply to
every file the writer closes.

**File.** `TypeOK` or `RecoversCompleted` cannot be preserved by themselves: which write
comes next is in `main` and in the thread's list. So the invariant (`IInv`) says in which
`Stage` the writer is, and for each stage both what is left of the lists and what the
file holds by then: nothing in progress (`Quiet`), the first mapping and its section
header (`Starting`), a flush by the call or by the thread, created, locked or waited for
(`Flushing`), and close (`Truncating`, `Appending` with one alternative per section it
appends, `Ending` with the operations behind). An operation leads from one alternative to
the next, a call from `Quiet` to the first of its own; `Base` has what holds in all of
them (types, `Places`, `Spilled`). That a list is one of those named is what `"late"` and
`"hasty"` would break: the first has hierarchy written behind a section, the second makes
a context with the section start of a thread that has not run. The second half of the
module reads the file. `View` says that a walk over the blocks from the file's start finds
`k` sections and goes on through `m` blocks, `Reads` which `View` each stage has, and
`Left` how many completed sections a tag still to be written stands for. From that
follow the five properties, none of which is about `main`. `IInv` was an invariant of the
run `file` (in all its 128 880 states) before it was proved.

**Reader.** `WellFormed` says of a file what its reader relies on: that sections tile,
that each chain stays within its section's time table, and that a frame has what the
section before it ended with. The theorems rest on three invariants. `CursorInv`: a
cursor that is valid is at a record of the loaded chain, `pos_tidx` is the sum of the
differences in front of that record, and, unless the viewer rewinds, the record was due
at `pos_time`. So a search for a later time may start there, and one that starts anew,
for another handle or section, finds the same record: `Search` says that either stops at
the latest record due or finds none due, `ValueOfRecord` and `ValueOfFrame` that this is
the value of the section.

`LoopInv` is about the lists of linked chains: while the times of a section are walked, a
masked chain with records left is in the list of the time of its next record, once, and in
no other (`Links`). So a time whose list is empty has no record left, and moving on loses
nothing; and what was called back of a handle is the decoded changes of the sections read
before, followed by those of this one up to the handle's place (`CallsSoFar`). At the end
this is `RangeChanges`, since the sections of a range follow each other and the ones
outside it are skipped at both ends (`ReadMore`, `NothingLater`).

`ReplayInv` is about the frame: nothing was called back while sections are skipped, then
the frame of the first section read, if one was skipped or the section begins before its
first time, and then changes only (`ShownFrom`). An induction over the sections, along
the frames, shows that the latest change up to a time, or that frame where there is
none, is what `ValueIn` gives (`ReplayMore`, `ReplayCovering`).

**Parser.** First `FirLexer`, which is a fold over lines: `Induction` gives each fold as a
sequence of states. Of the lexer: a `DEDENT` is at the line of the token behind it, or at
the last line of a text that ends with a blank one (`Closes`, `ClosesText`). Of the
grammar: the list has the modules that are closed, each with the line of the token behind
it, and at most one module is open (`ShiftedTo`: `HasTold`, `HasClosed`). Together they
are what a task's parse makes of its lines: the modules in order, each once and followed
by the line of its node (`FollowsIn`), or a syntax error (`ParseLists`). Then the threads. `IInv` has a witness, the
function `c` of cuts: task `i` is the lines from `c[i]` to before `c[i + 1]`, as long as
the main thread splits (`Cuts`, `Listed`) and after; each cut is a module line or the end,
which makes the number a node got in its task that of the same line in the whole text,
and that line one of the two `NumberedBehind` allows (`MovedBehind`). Each task is in the queue, held by a
thread, or stored (`Accounted`, `Holding`), and there are as many exit flags in front of
all tasks as threads that have not ended (`FlagsFirst`). The last is `NobodyWaits`: the
vector is taken from its back, so a thread meets a flag only when no task is left, and
there is one for each. `Accounted` gives at the join that every list is stored, and the
concatenation in order of `i` is the text's. `AbortsOnlyHeadless` is about the root,
which only task 0 sets, and only from a text with a version line.

**Induction.** The library's induction theorems take an operator as a parameter, which
the installed provers cannot instantiate. `WFMin` does not: a well-founded relation has a
minimal element in every set that is not empty. `SetInduction` and `BoundedInduction`
follow from it for a set of numbers, and from these that a recursive function on `0 .. n`
is the only solution of its equation (`SameRecursion`), that there is one
(`RecursionExists`), and that a fold over `1 .. n` is such a function (`FoldsExist`).

**Scopes.** `Measured` says that the list holds the lengths of the names given, and
that each of them fits, with its closing 0, what the latest push allocated; a pop
allocates nothing, so this has to hold of all open scopes. `Nested` says that an
open name begins with the one outside it: a pop only cuts the string, and finds
the outer name.

**Header.** `BlocksBehind` says of the file, element by element, that what follows the
header is the blocks, and `HeaderInv` that the writer's handle stands at the end:
this is what a setter that does not seek back would break. `Offsets` shows from
the offsets, and `HeaderWritten` from what `fstWriterEmitHdrBytes` writes, that every
field lies within the header; so a patch is an overwriting (`Overwritten`) that
reaches no block, and a block an appending (`Appended`). What the getters read needs
more: `FieldsShown` says that at the offset of each of the thirteen fields stand the bytes
of what it was last set to (`Filling`). The fields follow each other (`LayoutIs`), so a
patch shows its own (`PatchShows`) and leaves every other alone (`FieldsApart`, `OthersShown`);
closing is two patches of six words (`CloseShows`), and `FieldsInv` is inductive. Reading
a field is then a fact about the field alone: a word is taken apart and put together a
byte at a time, which `WordIsRead` shows from the powers of 256 (`Powers`) and the rests
of the number behind each byte (`Rests`); a time zero below zero comes back through the
sign of a word (`SignIsRead`); a string ends at its first zero or is cut (`TextIsCut`); and
the constant whose bytes tell their order is not its own reversal (`OrdersDiffer`), which
is why a word has two bytes or more.

**Chain index.** Encoder and decoder are two folds that keep different state: the encoder
counts a run it has not written yet, the decoder knows the length of a chain only when the
next one arrives. `Decoded` says what the tables hold once the entries of the first `j`
handles are decoded: their slots, all lengths but that of the last chain, and where that
one begins (`LastPlaced`); in new tables, nothing else (`Unused`). `Encoded` says that what
the encoder has put out decodes to all slots but those of the run, and that both sides
agree on the previous position and the previous alias. `SlotEncodes` keeps it, one case per
kind of slot: none, a position, an alias, the alias of the slot before. `EndIsKept` gives the
last chain its length, and `OneMoreResolved` the aliases theirs: an alias names a handle
with a smaller number, which has its length by then. None of it depends on what
the tables held before, which is why `IterationMissesNothing` holds for tables in use. Only
`Unused` does: a handle without a chain may show what an earlier section left, which is the
run `stale_index`.

**Hierarchy.** Writer and reader share only bytes, so the proof starts there. A varint is
read back in its length wherever it stands, if its number fits the width and the limit
of groups allows for it (`VarintAt`), a string up to its zero (`TextAt`). `Means` combines them:
wherever the bytes of an entry stand in memory, the reader finds the next entry behind
them, returns the record of the call and counts one handle for a variable that is no
alias. It is shown of each kind of entry (`ScopeMeans`, `AttrMeans`, `VarMeans`, and
`GenericMeans` for what the writer makes itself), and every call is one of those or
two of them (`StepAdds`): with a supplement, or with a path that is new. `LengthInv`
needs no more than the types, since each call counts what it writes. For the reader,
`LaidOut` lists where each record said stands and how many handles are declared
before it, which more entries at the end do not change (`OneMore`), and `Stands` says that
the reader is at the offset of the record it returns next. That is lost when
`fstReaderProcessHier` moves the shared handle to the end of the file: then an iteration
ends early, and `Stands` only says so; a rewind that is still due (`do_rewind`) brings it
back. `StemInv` adds to this that numbers of paths are given out once and in
increasing order, that the path attribute with a number is said when the number is
given, and that the number in a stem is its path's: the stem keeps it as a string, a
varint without zero bytes (`VarintIsText`), which is why the numbers start at one.
`TypesKnown` is needed because an entry of any other type is taken for the end of the
hierarchy.

`TypeInv`, `DecodeInv` and `CloseInv` were invariants of model-checking runs while they
were being found; the theorems have replaced these runs.

Model-checked only:

* liveness, which is out of the prover's reach: that close returns (`CloseReturns`) and
  that the parser ends (`Terminates`);
* that geometry, hierarchy and `fstReaderProcessHier` agree about the variables
  (`DeclarationsAgree`): `EntriesOf` is a recursion over positions of the file, which goes
  forward as long as the bytes are entries, and the prover is given no solution of it for
  other bytes;
* the encodings of values (`NumbersArrive`, `TextsArrive`, `VectorsAgree`, `ChainsArrive`,
  `LinesTellApart`). Their properties compare recursive functions of both sides on every
  input. `Induction` makes such proofs possible, as those of the chain index, of varints
  and of the header's words show, but only of functions whose powers are written as
  recursions (`Modulus`, `WordModulus`): signed numbers and vectors compute with `128^i` and
  `2^k`, of which the provers know nothing, nor of `%` by anything but a literal;
* the file of a simulator that is late or hasty, and the wave form of one that flushes
  nothing: `FstWriterCareless.cfg` and `flush_of_nothing` show what is left of it.

## 5. Not modelled, and the plan

Left out for good: the vendored compressors, used as lossless codecs; the Jenkins
hash, by its result; the demo and the simulator headers, which have no logic of
their own here; the circuits of the Chisel template; section formats the writer
cannot write; the digits `printf` gives a double; the attributes a VCD extension
prints, and `realpath`. Inside `FstFile`: torn writes and a size limit. Inside the
parser: tokens within a line, statements and expressions, each of which is one
rule that builds one node, and the tree's printing.

What could follow, in this order:

1. Proofs: that the descriptions of the variables agree (`DeclarationsAgree`), from
   `LaidOut`; from the lemmas about varints, the vectors and chains of `FstValue`.
2. The expressions of the FIRRTL grammar, as a function of a line's tokens.
3. `Gcd`: the two circuits, against the greatest common divisor.

Runs are kept to one per question; a further question is added to a run that has
the same instance rather than as a run of its own.
