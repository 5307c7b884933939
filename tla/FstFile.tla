------------------------------ MODULE FstFile ------------------------------
(***************************************************************************)
(* What the FST writer leaves on disk at every moment, and what a reader   *)
(* finds there.  A call of the simulator is a queue of file operations,    *)
(* each as large as one write reaches the file; the process may stop       *)
(* between any two.  fstReaderOpen is a function of the disk.              *)
(*                                                                         *)
(* With FST_WRITER_PARALLEL a flush is done by a thread of its own, on a   *)
(* copy of the writer's context; its operations interleave with those of   *)
(* the calls that follow.                                                  *)
(*                                                                         *)
(* A section is the number of the flush that wrote its changes.  Parts of  *)
(* a section that are written while its length is still 0 are one          *)
(* operation: no reader looks behind a length of 0.                        *)
(***************************************************************************)
EXTENDS Integers, Sequences, FiniteSets, SequencesExt

CONSTANTS
  MaxHier,      (* Bound on the records of the hierarchy.                   *)
  MaxTime,      (* Bound on the times the simulator emits.                  *)
  MaxBlackouts, (* Bound on the calls of fstWriterEmitDumpActive.           *)
  Modes,        (* Sets of compress_hier, fourpack, repack_on_close and     *)
                (* parallel_enabled.                                        *)
  Usage         (* "late": declares or comments after the first mapping.    *)
                (* "hasty": in parallel mode, flushes or closes before the  *)
                (* thread of the last flush has begun, or closes when       *)
                (* nothing has changed.                                     *)

ASSUME FileAssumption ==
  /\ MaxHier \in Nat /\ MaxTime \in Nat /\ MaxBlackouts \in Nat
  /\ Modes \subseteq SUBSET {"compress_hier", "fourpack", "repack", "parallel"}
  /\ Usage \subseteq {"late", "hasty"}

VARIABLES
  mode,         (* An element of Modes.                                     *)
  xc,           (* The writer's context.                                    *)
  main,         (* File operations the call in progress has still to do.    *)
  flusher,      (* The flush thread: its state, its operations and its      *)
                (* context's section_start.                                 *)
  disk,         (* The file and the .hier file, as far as they are written. *)
  alive         (* The process runs.                                        *)

vars == <<mode, xc, main, flusher, disk, alive>>

----------------------------------------------------------------------------
Parallel == "parallel" \in mode
Var(h) == h = "var"
MaxHandleOf(hier) == Cardinality({i \in DOMAIN hier : Var(hier[i])})

(* One block of the file: its tag, how many blocks its length spans (0: not *)
(* known yet), its times and contents.                                      *)
Block(tag, len, begin, end, data) ==
  [tag |-> tag, len |-> len, begin |-> begin, end |-> end, data |-> data]

(* The operations that write, in the order a call does them.                *)
Op(op, arg) == [op |-> op, arg |-> arg]

(* fstWriterCreateMmaps: the hierarchy, then the intermediate header.       *)
MapUnflushed(hier, first, cur) ==   (* Mutant: the hierarchy stays buffered. *)
  << Op("times", <<first, cur>>) >>
CreateMmaps(hier, first, cur) ==
  << Op("flush_hier", hier), Op("times", <<first, cur>>) >>

(* fstWriterEmitSectionHeader.                                              *)
EmitSectionHeader(begin) == << Op("header", begin) >>

(* fstWriterFlushContextPrivate (..Private2 in the thread): the changes,    *)
(* the length and end time, the tag, and the next section's header.         *)
FlushTagFirst(n, at, cur, more) ==  (* Mutant: tagged before it is measured. *)
  << Op("body", n), Op("tag", <<at, "vc">>), Op("length", <<at, cur>>) >>
  \o (IF more THEN EmitSectionHeader(cur) ELSE <<>>)
Flush(n, at, cur, more) ==
  << Op("body", n), Op("length", <<at, cur>>), Op("tag", <<at, "vc">>), Op("section_header_truncpos", at) >>
  \o (IF more THEN EmitSectionHeader(cur) ELSE <<>>)

(* A section that close appends: with its length, or measured afterwards;   *)
(* and tagged last.                                                         *)
Measured(tag, data) == << Op("append", <<tag, 1, data>>), Op("tag_last", tag) >>
Patched(tag, data) ==
  << Op("append", <<tag, 0, data>>), Op("length_last", tag), Op("tag_last", tag) >>
CloseGeom(hier) == IF MaxHandleOf(hier) = 0 THEN <<>> ELSE Measured("geom", MaxHandleOf(hier))
CloseBlackouts(n) == IF n = 0 THEN <<>> ELSE Patched("blackout", n)

(* The hierarchy: gzip reads it through hier_handle, LZ4 through a mapping  *)
(* of the .hier file, whatever of it has been flushed by then.              *)
CloseHier(hier) ==
  << Op("append", <<"hier", 0, 0>>) >>
  \o (IF "fourpack" \in mode THEN <<>> ELSE << Op("flush_hier", hier) >>)
  \o << Op("pack", Len(hier)), Op("length_last", "hier"), Op("tag_last", "hier"), Op("unlink_hier", "") >>

(* Repacking: a compressed copy under another name takes the file's place.  *)
RepackUnlinksFirst ==               (* Mutant: the file goes before its copy is measured. *)
  << Op("pak", "begun"), Op("unlink", ""), Op("pak", "done"), Op("rename", "") >>
Repack == << Op("pak", "begun"), Op("pak", "done"), Op("unlink", ""), Op("rename", "") >>

(* fstWriterClose behind the flush.                                         *)
CloseRest(hier, blackouts, first, cur) ==
  CloseGeom(hier) \o CloseBlackouts(blackouts)
  \o (IF "compress_hier" \in mode THEN CloseHier(hier) ELSE <<>>)
  \o << Op("times", <<first, cur>>), Op("flush_hier", hier) >>
  \o (IF "repack" \in mode THEN Repack ELSE <<>>)
  \o << Op("closed", "") >>

----------------------------------------------------------------------------
(* What an operation does to the disk.                                      *)
End(d) == Len(d.file)
Write(d, w) ==
  CASE w.op = "header"      -> [d EXCEPT !.file = Append(@, Block("skip", 0, w.arg, w.arg, 0))]
    [] w.op = "body"        -> [d EXCEPT !.file[End(d)].data = w.arg]
    [] w.op = "length"      -> [d EXCEPT !.file[w.arg[1]].len = End(d) + 1 - w.arg[1], !.file[w.arg[1]].end = w.arg[2]]
    [] w.op = "tag"         -> [d EXCEPT !.file[w.arg[1]].tag = w.arg[2]]
    [] w.op = "truncate"    -> [d EXCEPT !.file = SubSeq(@, 1, w.arg)]
    [] w.op = "append"      -> [d EXCEPT !.file = Append(@, Block("skip", w.arg[2], 0, 0, w.arg[3]))]
    [] w.op = "length_last" -> [d EXCEPT !.file[End(d)].len = 1]
    [] w.op = "tag_last"    -> [d EXCEPT !.file[End(d)].tag = w.arg]
    [] w.op = "times"       -> [d EXCEPT !.start = w.arg[1], !.end = w.arg[2]]
    [] w.op = "flush_hier"  -> [d EXCEPT !.hier = w.arg, !.cut = FALSE]
    [] w.op = "pack"        -> [d EXCEPT !.packed = d.hier, !.padded = Len(d.hier) < w.arg]
    [] w.op = "unlink_hier" -> [d EXCEPT !.hier_exists = FALSE]
    [] w.op = "pak"         -> [d EXCEPT !.pak = w.arg]
    [] w.op = "unlink"      -> [d EXCEPT !.named = FALSE]
    [] w.op = "rename"      -> [d EXCEPT !.named = TRUE, !.pak = "none"]
    [] OTHER                -> d

(* ... and to the writer's context.  In the thread, the copy's flags are    *)
(* lost with it: only section_start and the truncation point reach xc.      *)
NoteBehind(c, d, w, own) ==         (* Mutant: the truncation point is one too far. *)
  IF w.op = "section_header_truncpos" THEN [c EXCEPT !.section_header_truncpos = End(d) + 1] ELSE c
Note(c, d, w, own) ==
  CASE w.op = "header" -> [c EXCEPT !.section_start = End(d), !.section_header_only = own \/ @]
    [] w.op = "section_header_truncpos" -> [c EXCEPT !.section_header_truncpos = End(d)]
    [] w.op = "closed" -> [c EXCEPT !.closed = TRUE]
    [] OTHER -> c

----------------------------------------------------------------------------
(* fstWriterCreate: the file header with both times 0.                      *)
Init ==
  /\ mode \in Modes
  /\ xc = [hier |-> <<>>, mapped |-> FALSE, vc_emitted |-> FALSE, is_initial_time |-> TRUE,
           firsttime |-> 0, curtime |-> 0, changed |-> FALSE, section_header_only |-> FALSE,
           section_header_truncpos |-> 0, section_start |-> 0, secnum |-> 0, blackouts |-> 0,
           already_in_close |-> FALSE, closed |-> FALSE]
  /\ main = <<>>
  /\ flusher = [state |-> "none", todo |-> <<>>]
  /\ disk = [file |-> <<>>, start |-> 0, end |-> 0, hier |-> <<>>, cut |-> FALSE, hier_exists |-> TRUE,
             packed |-> <<>>, padded |-> FALSE, named |-> TRUE, pak |-> "none"]
  /\ alive = TRUE

Idle == alive /\ main = <<>> /\ ~xc.already_in_close
Patient == "hasty" \in Usage \/ flusher.state \in {"none", "locked"}

(* fstWriterCreateVar, and any other record of the hierarchy.               *)
Declare(record) ==
  /\ Idle /\ Len(xc.hier) < MaxHier
  /\ "late" \in Usage \/ ~xc.mapped
  /\ xc' = [xc EXCEPT !.hier = Append(@, record), !.mapped = @ /\ ~Var(record)]
  /\ UNCHANGED <<mode, main, flusher, disk, alive>>

(* stdio writes the buffered hierarchy whenever its buffer is full: up to   *)
(* any record, or into the middle of one.                                   *)
SpillHier ==
  /\ Idle
  /\ \E n \in Len(disk.hier) .. Len(xc.hier), cut \in BOOLEAN :
       /\ cut => n < Len(xc.hier)
       /\ n > Len(disk.hier) \/ (cut /\ ~disk.cut)
       /\ disk' = [disk EXCEPT !.hier = SubSeq(xc.hier, 1, n), !.cut = cut]
  /\ UNCHANGED <<mode, xc, main, flusher, alive>>

(* fstWriterEmitValueChange.                                                *)
EmitValueChange ==
  /\ Idle /\ MaxHandleOf(xc.hier) > 0
  /\ ~xc.mapped \/ (~xc.changed /\ ~xc.is_initial_time)
  /\ main' = IF xc.mapped THEN <<>> ELSE CreateMmaps(xc.hier, xc.firsttime, xc.curtime)
  /\ xc' = [xc EXCEPT !.mapped = TRUE, !.vc_emitted = @ \/ ~xc.mapped,
                      !.changed = @ \/ ~xc.is_initial_time]
  /\ UNCHANGED <<mode, flusher, disk, alive>>

(* fstWriterEmitDumpActive.                                                 *)
EmitDumpActive ==
  /\ Idle /\ xc.blackouts < MaxBlackouts
  /\ xc' = [xc EXCEPT !.blackouts = @ + 1]
  /\ UNCHANGED <<mode, main, flusher, disk, alive>>

(* fstWriterEmitTimeChange, the first time.                                 *)
FirstTimeChange(tim) ==
  /\ Idle /\ xc.is_initial_time
  /\ LET first == IF xc.vc_emitted THEN 0 ELSE tim IN
       /\ main' = (IF xc.mapped THEN <<>> ELSE CreateMmaps(xc.hier, xc.firsttime, xc.curtime))
                  \o EmitSectionHeader(first)
       /\ xc' = [xc EXCEPT !.mapped = TRUE, !.firsttime = first, !.curtime = tim,
                           !.is_initial_time = FALSE, !.changed = FALSE]
  /\ UNCHANGED <<mode, flusher, disk, alive>>

PlainTimeChange(tim) ==
  /\ Idle /\ ~xc.is_initial_time /\ tim > xc.curtime
  /\ xc' = [xc EXCEPT !.curtime = tim]
  /\ UNCHANGED <<mode, main, flusher, disk, alive>>

(* The flush of a time change, by the build without threads; valpos_mem is  *)
(* NULL after a late variable, and the flush reads through it.              *)
FlushTimeChange(tim) ==
  /\ Idle /\ ~Parallel /\ ~xc.is_initial_time /\ tim > xc.curtime /\ xc.changed /\ xc.mapped
  /\ main' = Flush(xc.secnum + 1, xc.section_start, xc.curtime, TRUE)
  /\ xc' = [xc EXCEPT !.curtime = tim, !.secnum = @ + 1, !.changed = FALSE, !.section_header_only = FALSE]
  /\ UNCHANGED <<mode, flusher, disk, alive>>

(* fstWriterFlushContextPrivate with threads: the mutex is taken and left,  *)
(* the context copied, and only then the last thread waited for.            *)
Spawn(more) == << Op("spawn", Flush(xc.secnum + 1, xc.section_start, xc.curtime, more)) >>
ParallelTimeChange(tim) ==
  /\ Idle /\ Parallel /\ ~xc.is_initial_time /\ tim > xc.curtime /\ xc.changed /\ xc.mapped
  /\ flusher.state # "locked" /\ Patient
  /\ main' = Spawn(TRUE)
  /\ xc' = [xc EXCEPT !.curtime = tim, !.secnum = @ + 1, !.changed = FALSE, !.section_header_only = FALSE]
  /\ UNCHANGED <<mode, flusher, disk, alive>>

(* fstWriterClose: the open section is cut off, flushed, or, if the time    *)
(* never advanced, started with the changes cloned into it.                 *)
BeginClose ==
  /\ Idle /\ flusher.state # "locked" /\ Patient
  /\ Parallel /\ "hasty" \notin Usage => xc.changed \/ xc.is_initial_time
CloseTruncate ==
  /\ BeginClose
  /\ xc.section_header_only /\ xc.section_header_truncpos # 0 /\ ~xc.changed /\ ~xc.is_initial_time
  /\ main' = << Op("truncate", xc.section_header_truncpos) >>
             \o CloseRest(xc.hier, xc.blackouts, xc.firsttime, xc.curtime)
  /\ xc' = [xc EXCEPT !.already_in_close = TRUE]
  /\ UNCHANGED <<mode, flusher, disk, alive>>
FlushUnwaited(n, at, cur) ==        (* Mutant: close does not wait for the thread. *)
  IF Parallel THEN << Op("spawn", Flush(n, at, cur, FALSE)) >> ELSE Flush(n, at, cur, FALSE)
FlushOfClose(n, at, cur) ==
  IF Parallel THEN << Op("spawn", Flush(n, at, cur, FALSE)), Op("wait", "") >> ELSE Flush(n, at, cur, FALSE)
CloseFlush ==
  /\ BeginClose /\ ~xc.is_initial_time /\ xc.changed /\ xc.mapped
  /\ main' = FlushOfClose(xc.secnum + 1, xc.section_start, xc.curtime)
             \o CloseRest(xc.hier, xc.blackouts, xc.firsttime, xc.curtime)
  /\ xc' = [xc EXCEPT !.already_in_close = TRUE, !.secnum = @ + 1, !.changed = FALSE]
  /\ UNCHANGED <<mode, flusher, disk, alive>>
CloseEmpty ==                       (* The flush returns early.             *)
  /\ BeginClose /\ ~xc.is_initial_time /\ ~xc.changed
  /\ ~xc.section_header_only \/ xc.section_header_truncpos = 0
  /\ main' = (IF Parallel THEN << Op("wait", "") >> ELSE <<>>)
             \o CloseRest(xc.hier, xc.blackouts, xc.firsttime, xc.curtime)
  /\ xc' = [xc EXCEPT !.already_in_close = TRUE]
  /\ UNCHANGED <<mode, flusher, disk, alive>>
CloseInitial ==
  /\ BeginClose /\ xc.is_initial_time
  /\ LET cloned == MaxHandleOf(xc.hier) > 0 IN
       /\ main' = (IF xc.mapped THEN <<>> ELSE CreateMmaps(xc.hier, xc.firsttime, xc.curtime))
                  \o EmitSectionHeader(0)
                  \o (IF cloned THEN FlushOfClose(1, 1, 0) ELSE <<>>)
                  \o CloseRest(xc.hier, xc.blackouts, 0, 0)
       /\ xc' = [xc EXCEPT !.already_in_close = TRUE, !.mapped = TRUE, !.is_initial_time = FALSE,
                           !.secnum = IF cloned THEN 1 ELSE 0]
  /\ UNCHANGED <<mode, flusher, disk, alive>>

----------------------------------------------------------------------------
(* The call in progress goes on.                                            *)
MainWrites ==
  /\ alive /\ main # <<>> /\ Head(main).op \notin {"spawn", "wait"}
  /\ disk' = Write(disk, Head(main))
  /\ xc' = Note(xc, disk', Head(main), TRUE)
  /\ main' = Tail(main)
  /\ UNCHANGED <<mode, flusher, alive>>
MainSpawns ==
  /\ alive /\ main # <<>> /\ Head(main).op = "spawn" /\ flusher.state = "none"
  /\ flusher' = [state |-> "created", todo |-> Head(main).arg]
  /\ main' = Tail(main)
  /\ UNCHANGED <<mode, xc, disk, alive>>
MainWaits ==
  /\ alive /\ main # <<>> /\ Head(main).op = "wait" /\ flusher.state = "none"
  /\ main' = Tail(main)
  /\ UNCHANGED <<mode, xc, flusher, disk, alive>>

(* fstWriterFlushContextPrivate1: the thread.                               *)
FlusherLocks ==
  /\ alive /\ flusher.state = "created"
  /\ flusher' = [flusher EXCEPT !.state = "locked"]
  /\ UNCHANGED <<mode, xc, main, disk, alive>>
FlusherWrites ==
  /\ alive /\ flusher.state = "locked" /\ flusher.todo # <<>>
  /\ disk' = Write(disk, Head(flusher.todo))
  /\ xc' = Note(xc, disk', Head(flusher.todo), FALSE)
  /\ flusher' = [flusher EXCEPT !.todo = Tail(@)]
  /\ UNCHANGED <<mode, main, alive>>
ExitKeepsFlag(f) == [f EXCEPT !.state = "created"]      (* Mutant: in_pthread is left set. *)
ThreadExit(f) == [f EXCEPT !.state = "none"]
FlusherExits ==
  /\ alive /\ flusher.state = "locked" /\ flusher.todo = <<>>
  /\ flusher' = ThreadExit(flusher)
  /\ UNCHANGED <<mode, xc, main, disk, alive>>

(* The process is killed; or a control-c handler ends it after its call of  *)
(* fstWriterClose was turned away by already_in_flush or already_in_close.  *)
Stop ==
  /\ alive /\ ~xc.closed
  /\ alive' = FALSE
  /\ UNCHANGED <<mode, xc, main, flusher, disk>>

Time == 0 .. MaxTime
Next ==
  \/ \E record \in {"var", "other"} : Declare(record)
  \/ SpillHier
  \/ EmitValueChange \/ EmitDumpActive
  \/ \E tim \in Time : FirstTimeChange(tim) \/ PlainTimeChange(tim)
                       \/ FlushTimeChange(tim) \/ ParallelTimeChange(tim)
  \/ CloseTruncate \/ CloseFlush \/ CloseEmpty \/ CloseInitial
  \/ MainWrites \/ MainSpawns \/ MainWaits
  \/ FlusherLocks \/ FlusherWrites \/ FlusherExits
  \/ Stop

(* A call that has begun goes on, and so does a thread that was created.    *)
Fairness ==
  /\ WF_vars(MainWrites) /\ WF_vars(MainSpawns) /\ WF_vars(MainWaits)
  /\ WF_vars(FlusherLocks) /\ WF_vars(FlusherWrites) /\ WF_vars(FlusherExits)
Spec == Init /\ [][Next]_vars /\ Fairness

----------------------------------------------------------------------------
(* fstReaderInit walks over the blocks by their lengths.  It stops at a     *)
(* length of 0, but only if the file header looks incomplete; otherwise it  *)
(* goes on one byte further, and reads whatever it finds there as a tag.    *)
HdrIncomplete(d) == d.start = 0 /\ d.end = 0
Scan(d) ==
  LET scan[p \in Nat \ {0}] ==
        IF p > End(d) THEN [blocks |-> <<>>, misread |-> FALSE]
        ELSE IF d.file[p].len = 0 THEN [blocks |-> <<>>, misread |-> ~HdrIncomplete(d)]
        ELSE [scan[p + d.file[p].len] EXCEPT !.blocks = <<d.file[p]>> \o @]
  IN scan[1]
Tagged(blocks, tag) ==
  LET found[i \in 0 .. Len(blocks)] ==
        IF i = 0 THEN <<>>
        ELSE IF blocks[i].tag = tag THEN Append(found[i - 1], blocks[i]) ELSE found[i - 1]
  IN found[Len(blocks)]

(* Where the hierarchy is read from: the .hier file if there is one, else   *)
(* the section (fstReaderRecreateHierFile).  A record that ends in the      *)
(* middle of a name is read forever: fgetc never returns the closing 0.     *)
Hierarchy(d, blocks) ==
  IF d.hier_exists THEN [records |-> d.hier, cut |-> d.cut]
  ELSE IF Tagged(blocks, "hier") # <<>> THEN [records |-> d.packed, cut |-> d.padded]
  ELSE [records |-> <<>>, cut |-> FALSE]

(* fstReaderOpen: what it makes of the disk.  The geometry section is not   *)
(* looked at if the header is incomplete, fstReaderProcessHier counts the   *)
(* handles then.                                                            *)
Opened(d) ==
  LET blocks   == Scan(d).blocks
      sections == Tagged(blocks, "vc")
      geom     == Tagged(blocks, "geom")
      hier     == Hierarchy(d, blocks)
      by_geom  == geom # <<>> /\ ~HdrIncomplete(d)
      handles  == IF by_geom THEN geom[1].data ELSE MaxHandleOf(hier.records)
  IN [outcome |-> IF ~d.named THEN "absent"
                  ELSE IF Scan(d).misread THEN "misread"
                  ELSE IF ~by_geom /\ hier.cut THEN "hangs"
                  ELSE IF sections # <<>> /\ handles # 0 /\ (d.hier_exists \/ Tagged(blocks, "hier") # <<>>)
                       THEN "open" ELSE "refused",
      sections  |-> sections,
      maxhandle |-> handles,
      hier      |-> hier,
      blackouts |-> IF Tagged(blocks, "blackout") = <<>> THEN 0 ELSE Tagged(blocks, "blackout")[1].data,
      start     |-> IF HdrIncomplete(d) /\ sections # <<>> THEN sections[1].begin ELSE d.start,
      end       |-> IF HdrIncomplete(d) /\ sections # <<>> THEN sections[Len(sections)].end ELSE d.end]

----------------------------------------------------------------------------
Queued(todo) == \E i \in 1 .. Len(todo) : todo[i].op = "spawn" \/ (todo[i].op = "tag" /\ todo[i].arg[2] = "vc")
(* Flushes asked for whose section may not be complete on disk yet.         *)
Unfinished == (IF Queued(main) THEN 1 ELSE 0)
              + (IF flusher.state # "none" /\ (Queued(flusher.todo) \/ flusher.state = "created") THEN 1 ELSE 0)
Safe == xc.secnum - Unfinished
Numbers(sections) == [i \in 1 .. Len(sections) |-> sections[i].data]
Chained(sections) == \A i \in 2 .. Len(sections) : sections[i].begin = sections[i - 1].end

TypeOK ==
  /\ mode \in Modes /\ alive \in BOOLEAN
  /\ disk.hier = SubSeq(xc.hier, 1, Len(disk.hier))
  /\ xc.section_start \in 0 .. End(disk) + 1 /\ xc.section_header_truncpos \in 0 .. End(disk)
  /\ flusher.state \in {"none", "created", "locked"} /\ Unfinished <= xc.secnum

(* Wherever the process stops, or a viewer opens the file meanwhile, the    *)
(* reader finds every completed section and nothing else, in order, with    *)
(* their times: the section header that is open, the geometry, blackouts    *)
(* and hierarchy being appended hide none (fstapi.c:1757-1806, 4683).  Only *)
(* closing a file in which nothing ever changed leaves an open section.     *)
RecoversCompleted ==
  disk.named =>
    LET r == Opened(disk) IN
      /\ r.outcome = "misread" => xc.already_in_close /\ xc.secnum = 0
      /\ \E k \in Safe .. xc.secnum : Numbers(r.sections) = [i \in 1 .. k |-> i]
      /\ Chained(r.sections)
      /\ r.sections # <<>> => r.start = xc.firsttime /\ r.end >= r.sections[Len(r.sections)].end

(* A file with a completed section opens, without a header, a geometry or a *)
(* hierarchy section if need be, and knows every handle of its sections:    *)
(* fstWriterCreateMmaps flushes the hierarchy before anything refers to it  *)
(* (fstapi.c:1016), and close unlinks .hier behind the copy (2150).         *)
OpensWithHandles ==
  disk.named /\ Safe > 0 =>
    LET r == Opened(disk) IN r.outcome = "open" /\ r.maxhandle = MaxHandleOf(xc.hier)

(* While a section exists, one of the two names leads to a whole file, also *)
(* when close replaces it by a compressed copy (fstapi.c:2193-2241).        *)
AlwaysUnderOneName ==
  Safe > 0 => (disk.named /\ Opened(disk).outcome = "open") \/ disk.pak = "done"

(* What close leaves is what the simulator said: sections, times, handles,  *)
(* blackouts, and the hierarchy, record by record (fstapi.c:1990-2176).     *)
ClosedFileIsWhole ==
  xc.closed /\ xc.secnum > 0 =>
    LET r == Opened(disk) IN
      /\ r.outcome = "open"
      /\ Numbers(r.sections) = [i \in 1 .. xc.secnum |-> i]
      /\ r.maxhandle = MaxHandleOf(xc.hier) /\ r.blackouts = xc.blackouts
      /\ r.hier = [records |-> xc.hier, cut |-> FALSE]
      /\ r.start = xc.firsttime /\ r.end = xc.curtime

(* fstWriterClose returns: no thread and no mutex keeps it, unless the      *)
(* process is stopped (fstapi.c:1972-1981, 1826-1829).                      *)
CloseReturns == xc.already_in_close ~> (xc.closed \/ ~alive)
=============================================================================
