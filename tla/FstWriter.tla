----------------------------- MODULE FstWriter -----------------------------
(***************************************************************************)
(* The serial FST writer (the fstWriter functions of fstapi.c): a simulator*)
(* declares variables, emits times and value changes, the writer collects  *)
(* them in memory and writes them out section by section.                  *)
(*                                                                         *)
(* A section on disk is a frame (the value of every variable when the      *)
(* section begins), for every handle a chain of changes whose times are    *)
(* given as differences of indices into the section's time table, and that *)
(* time table, itself written as differences.  The next section's header   *)
(* is written as soon as a section ends, tagged FST_BL_SKIP until it is    *)
(* completed: it is the variable tail.                                     *)
(*                                                                         *)
(* Sizes in bytes are abstracted: every change record takes one unit of    *)
(* vchg_mem, and whether the file has reached dump_size_limit is a choice. *)
(* FST_REMOVE_DUPLICATE_VC is off, as in the Makefile.                     *)
(***************************************************************************)
EXTENDS Integers, Sequences, FiniteSets

CONSTANTS
  MaxHandle,    (* Bound on the handles fstWriterCreateVar allocates.       *)
  MaxSigs,      (* Bound on the calls of fstWriterCreateVar.                *)
  VarLen,       (* Handles created with length 0 (FST_VT_GEN_STRING).       *)
  Value,        (* Values of a variable.                                    *)
  Unset,        (* The value a variable is created with: 'x' or NaN.        *)
  MaxTime,      (* Bound on the times the simulator emits.                  *)
  MaxCalls,     (* Bound on the time and value changes it emits.            *)
  BreakSize,    (* fst_break_size, in change records.                       *)
  Usage,        (* What the simulator makes use of: "late_vars" declares    *)
                (* variables after the first time, "flush_empty" asks for   *)
                (* flushes when nothing has changed, "flush_unmapped" lets  *)
                (* a flush happen between a late variable and the next      *)
                (* value change, "size_limit" sets a limit.                 *)
  NoSection     (* No section header at the end of the file.                *)

Handle == 1 .. MaxHandle
AllUsage == {"late_vars", "flush_empty", "flush_unmapped", "size_limit"}

Change == [delta : Nat, val : Value]
SectionHeader == [begin : Nat, frame : [Handle -> Value], maxhandle : 0 .. MaxHandle]

ASSUME BoundsAssumption ==
  /\ MaxHandle \in Nat /\ MaxSigs \in Nat /\ MaxTime \in Nat /\ MaxCalls \in Nat
  /\ BreakSize \in Nat /\ BreakSize >= 2
ASSUME DataAssumption ==
  /\ VarLen \subseteq Handle
  /\ Unset \in Value
  /\ Usage \subseteq AllUsage
  /\ NoSection \notin SectionHeader

VARIABLES
  phase,                    (* "open", "closed" or "crashed".               *)
  maxhandle, numsigs,
  mapped,                   (* valpos_mem and curval_mem are mapped.        *)
  vc_emitted, is_initial_time,
  vchg_siz,                 (* 1 + records in vchg_mem (0: not started).    *)
  chain,                    (* Per handle, its records in vchg_mem, oldest  *)
                            (* first: the list that starts at valpos[2].    *)
  lastidx,                  (* valpos[3]: tchn_idx of the latest record.    *)
  curval,                   (* The .bits file: values as of the last        *)
                            (* checkpoint.                                  *)
  tchn, tchn_idx,           (* Time differences; tchn_cnt is Len(tchn).     *)
  curtime, firsttime,
  flush_context_pending,
  section_header_only,
  section_header_truncpos,  (* Sections in front of the truncation point.   *)
  size_limit_locked,        (* With skip_writing_section_hdr: set together. *)
  dump_size_limit,          (* Whether a limit is set.                      *)
  secnum,
  blocks,                   (* Completed sections of the file.              *)
  tail,                     (* The header tagged FST_BL_SKIP after them.    *)
  hdr,                      (* The file header's fields.                    *)
  calls                     (* Calls that count towards MaxCalls.           *)

(* History variables: what the simulator emitted, for the properties.       *)
VARIABLES
  times,                    (* Absolute time of every tchn_idx, from 0.     *)
  marks,                    (* Per handle, index, time and value of each    *)
                            (* change in chain.                             *)
  past                      (* times and marks of every completed section.  *)

ctx   == <<maxhandle, numsigs, mapped, vc_emitted>>
vchg  == <<vchg_siz, chain, lastidx, marks>>
clock == <<tchn, tchn_idx, curtime, firsttime, times>>
file  == <<section_header_only, section_header_truncpos, size_limit_locked,
           is_initial_time, secnum, blocks, past, tail, curval>>
vars  == <<phase, ctx, vchg, clock, file, flush_context_pending,
           dump_size_limit, hdr, calls>>

----------------------------------------------------------------------------
EmptyChains == [h \in Handle |-> <<>>]
Fixed == (1 .. maxhandle) \ VarLen

(* vchg_mem starts over: no chains, and every distance counts from index 0. *)
EmptyBufferKeepsIndex ==      (* Mutant: valpos[3] is not reset.            *)
  /\ vchg_siz' = 1 /\ chain' = EmptyChains /\ marks' = EmptyChains
  /\ UNCHANGED lastidx
EmptyBuffer ==
  /\ vchg_siz' = 1 /\ chain' = EmptyChains /\ marks' = EmptyChains
  /\ lastidx' = [h \in Handle |-> 0]

(* fstWriterEmitSectionHeader.                                              *)
HeaderFromStart(begin, frame) ==    (* Mutant: later sections begin at firsttime. *)
  [begin |-> IF is_initial_time THEN begin ELSE firsttime, frame |-> frame, maxhandle |-> maxhandle]
HeaderUnchecked(begin, frame) ==    (* Mutant: .bits was not checkpointed.  *)
  [begin |-> begin, frame |-> curval, maxhandle |-> maxhandle]
EmitSectionHeader(begin, frame) ==
  [begin |-> begin, frame |-> frame, maxhandle |-> maxhandle]

(* The header fields fstWriterCreateMmaps and fstWriterClose write.         *)
HdrFields(start, end, sections) ==
  [start |-> start, end |-> end, vars |-> numsigs, maxhandle |-> maxhandle,
   sections |-> sections]

Init ==
  /\ phase = "open"
  /\ maxhandle = 0 /\ numsigs = 0
  /\ mapped = FALSE /\ vc_emitted = FALSE /\ is_initial_time = TRUE
  /\ vchg_siz = 0 /\ chain = EmptyChains /\ lastidx = [h \in Handle |-> 0]
  /\ curval = [h \in Handle |-> Unset]
  /\ tchn = <<>> /\ tchn_idx = 0 /\ curtime = 0 /\ firsttime = 0
  /\ flush_context_pending = FALSE
  /\ section_header_only = FALSE /\ section_header_truncpos = 0
  /\ size_limit_locked = FALSE /\ dump_size_limit = FALSE
  /\ secnum = 0 /\ blocks = <<>> /\ tail = NoSection
  /\ hdr = [start |-> 0, end |-> 0, vars |-> 0, maxhandle |-> 0, sections |-> 0]
  /\ calls = 0
  /\ times = <<>> /\ marks = EmptyChains /\ past = <<>>

----------------------------------------------------------------------------
(* fstWriterCreateVar: a new handle, or one more name for an existing one.  *)
(* It unmaps the tables; nothing maps them again before a value change.     *)
CreateVar(alias) ==
  /\ phase = "open" /\ numsigs < MaxSigs
  /\ is_initial_time \/ "late_vars" \in Usage
  /\ mapped' = FALSE
  /\ numsigs' = numsigs + 1
  /\ IF alias \in 1 .. maxhandle
     THEN UNCHANGED maxhandle
     ELSE maxhandle < MaxHandle /\ maxhandle' = maxhandle + 1
  /\ UNCHANGED <<phase, vc_emitted, vchg, clock, file, flush_context_pending,
                 dump_size_limit, hdr, calls>>

(* fstWriterCreateMmaps, when the tables are not mapped.                    *)
CreateMmaps ==
  /\ mapped' = (maxhandle > 0)
  /\ hdr' = IF mapped THEN hdr ELSE HdrFields(firsttime, curtime, secnum)

(* Mutant: valpos[3] is the index of the next time, not of this record.     *)
AppendChangeAhead(h, v) ==
  /\ chain' = [chain EXCEPT ![h] =
                 Append(@, [delta |-> tchn_idx - lastidx[h], val |-> v])]
  /\ marks' = [marks EXCEPT ![h] =
                 Append(@, [idx |-> tchn_idx, time |-> curtime, val |-> v])]
  /\ lastidx' = [lastidx EXCEPT ![h] = tchn_idx + 1]
  /\ vchg_siz' = vchg_siz + 1

(* One more record of h, with the distance to its previous one.             *)
AppendChange(h, v) ==
  /\ chain' = [chain EXCEPT ![h] =
                 Append(@, [delta |-> tchn_idx - lastidx[h], val |-> v])]
  /\ marks' = [marks EXCEPT ![h] =
                 Append(@, [idx |-> tchn_idx, time |-> curtime, val |-> v])]
  /\ lastidx' = [lastidx EXCEPT ![h] = tchn_idx]
  /\ vchg_siz' = vchg_siz + 1

(* What both kinds of value change do first: count the call and map.        *)
BeginChange(h) ==
  /\ phase = "open" /\ calls < MaxCalls /\ calls' = calls + 1
  /\ h <= maxhandle
  /\ CreateMmaps
  /\ vc_emitted' = (vc_emitted \/ ~mapped)
  /\ UNCHANGED <<phase, maxhandle, numsigs, clock, flush_context_pending,
                 dump_size_limit, section_header_only, section_header_truncpos,
                 size_limit_locked, is_initial_time, secnum, blocks, past, tail>>

(* fstWriterEmitValueChange; a variable-length handle is ignored.  Before   *)
(* the first time, and once the size limit is reached, only the .bits file  *)
(* is updated.                                                              *)
EmitValueChange(h, v) ==
  /\ BeginChange(h)
  /\ IF h \in VarLen THEN UNCHANGED <<vchg, curval>>
     ELSE IF is_initial_time
          THEN curval' = [curval EXCEPT ![h] = v] /\ UNCHANGED vchg
          ELSE AppendChange(h, v) /\ UNCHANGED curval

(* fstWriterEmitVariableLengthValueChange: no initial value, and no look at *)
(* is_initial_time.                                                         *)
EmitVariableLengthValueChange(h, v) ==
  /\ BeginChange(h)
  /\ IF h \in VarLen THEN AppendChange(h, v) ELSE UNCHANGED vchg
  /\ UNCHANGED curval

----------------------------------------------------------------------------
(* The values the next section starts from: fstWriterFlushContextPrivate    *)
(* copies the latest value of each fixed-length chain into .bits.           *)
Checkpoint ==
  [h \in Handle |-> IF h \in Fixed /\ chain[h] # <<>>
                    THEN chain[h][Len(chain[h])].val ELSE curval[h]]

(* Mutant: a variable declared since the header is not counted.             *)
SectionOfHeader(header, end, chains, deltas) ==
  [begin |-> header.begin, end |-> end,
   frame |-> header.frame, frame_maxhandle |-> header.maxhandle,
   maxhandle |-> header.maxhandle, chain |-> chains, tchn |-> deltas]
(* A section, completed at time end.                                        *)
Section(header, end, chains, deltas) ==
  [begin |-> header.begin, end |-> end,
   frame |-> header.frame, frame_maxhandle |-> header.maxhandle,
   maxhandle |-> maxhandle, chain |-> chains, tchn |-> deltas]

(* At dump_size_limit is_initial_time is set again, so that value and time  *)
(* changes go nowhere.                                                      *)
LimitLocksOnly(full) ==       (* Mutant: is_initial_time is not set.        *)
  size_limit_locked' = (size_limit_locked \/ full) /\ UNCHANGED is_initial_time
LimitReached(full) ==
  /\ size_limit_locked' = (size_limit_locked \/ full)
  /\ is_initial_time' = (is_initial_time \/ full)

(* fstWriterFlushContextPrivate beyond its early return: completes the      *)
(* section at the end of the file, empties the buffers and, unless told to  *)
(* stop or at the size limit (full), writes the next section's header.      *)
WriteSection(full, stop) ==
  /\ blocks' = Append(blocks, Section(tail, curtime, chain, tchn))
  /\ past' = Append(past, [times |-> times, marks |-> marks])
  /\ curval' = Checkpoint
  /\ EmptyBuffer
  /\ secnum' = secnum + 1
  /\ section_header_truncpos' = Len(blocks) + 1
  /\ LimitReached(full)
  /\ section_header_only' = ~(full \/ stop)
  /\ tail' = IF full \/ stop THEN NoSection
             ELSE EmitSectionHeader(curtime, Checkpoint)

(* The comparison of the file's length with dump_size_limit.                *)
LimitOutcomes == IF dump_size_limit THEN BOOLEAN ELSE {FALSE}

Dirty == vchg_siz > 1        (* The early return is not taken.              *)
NullFlush == Dirty /\ ~mapped  (* The flush would read through valpos_mem,  *)
                               (* which fstWriterCreateVar set to NULL.     *)

----------------------------------------------------------------------------
(* fstWriterEmitTimeChange.  The simulator never goes back in time.  At the *)
(* size limit it returns at once, so it has no action here.                 *)
BeginTime(tim) ==
  /\ phase = "open" /\ calls < MaxCalls /\ calls' = calls + 1
  /\ curtime <= tim
  /\ curtime' = tim
  /\ UNCHANGED <<phase, maxhandle, numsigs, vc_emitted, dump_size_limit>>

(* The first time: everything buffered so far is forgotten.                 *)
FirstTimeChange(tim) ==
  /\ BeginTime(tim)
  /\ is_initial_time /\ ~size_limit_locked
  /\ CreateMmaps
  /\ firsttime' = IF vc_emitted THEN 0 ELSE tim
  /\ EmptyBuffer
  /\ tail' = EmitSectionHeader(firsttime', curval)
  /\ section_header_only' = TRUE
  /\ is_initial_time' = FALSE
  /\ tchn' = Append(tchn, tim) /\ times' = Append(times, tim)
  /\ UNCHANGED <<tchn_idx, section_header_truncpos, size_limit_locked, secnum,
                 blocks, past, curval, flush_context_pending>>

FlushDue == vchg_siz >= BreakSize \/ flush_context_pending

PlainTimeChange(tim) ==
  /\ BeginTime(tim)
  /\ ~is_initial_time /\ ~FlushDue
  /\ tchn_idx' = tchn_idx + 1
  /\ tchn' = Append(tchn, tim - curtime) /\ times' = Append(times, tim)
  /\ UNCHANGED <<mapped, hdr, firsttime, vchg, file, flush_context_pending>>

(* The flush completes a section; the next time table starts with curtime.  *)
FlushTimeChange(tim) ==
  /\ BeginTime(tim)
  /\ ~is_initial_time /\ FlushDue /\ Dirty /\ mapped
  /\ flush_context_pending' = FALSE
  /\ \E full \in LimitOutcomes : WriteSection(full, FALSE)
  /\ tchn_idx' = 1
  /\ tchn' = <<curtime, tim - curtime>> /\ times' = <<curtime, tim>>
  /\ UNCHANGED <<mapped, hdr, firsttime>>

(* The flush returns early, and curtime is written all the same.            *)
EmptyFlushTimeChange(tim) ==
  /\ BeginTime(tim)
  /\ ~is_initial_time /\ FlushDue /\ ~Dirty
  /\ flush_context_pending' = FALSE
  /\ tchn_idx' = tchn_idx + 1
  /\ tchn' = tchn \o <<curtime, tim - curtime>> /\ times' = Append(times, tim)
  /\ UNCHANGED <<mapped, hdr, firsttime, vchg, file>>

EmitTimeChange(tim) ==
  \/ FirstTimeChange(tim)
  \/ PlainTimeChange(tim)
  \/ FlushTimeChange(tim)
  \/ EmptyFlushTimeChange(tim)

(* A flush, by time change or by close, with valpos_mem = NULL.             *)
CrashInFlush ==
  /\ phase = "open" /\ ~is_initial_time /\ NullFlush
  /\ "flush_unmapped" \in Usage
  /\ phase' = "crashed"
  /\ UNCHANGED <<ctx, vchg, clock, file, flush_context_pending,
                 dump_size_limit, hdr, calls>>

(* fstWriterFlushContext queues a flush for the next time change.           *)
FlushContext ==
  /\ phase = "open" /\ tchn_idx > 1
  /\ Dirty \/ "flush_empty" \in Usage
  /\ flush_context_pending' = TRUE
  /\ UNCHANGED <<phase, ctx, vchg, clock, file, dump_size_limit, hdr, calls>>

SetDumpSizeLimit(limit) ==
  /\ phase = "open" /\ "size_limit" \in Usage
  /\ dump_size_limit' = limit
  /\ UNCHANGED <<phase, ctx, vchg, clock, file, flush_context_pending, hdr, calls>>

----------------------------------------------------------------------------
(* fstWriterClose: what becomes of the open section, then the header.  The  *)
(* sections of other kinds that follow are not modelled here.               *)
FinalizeKeepsHeader(start, end, sections) ==  (* Mutant: no final header.   *)
  /\ phase = "open" /\ phase' = "closed" /\ mapped' = FALSE
  /\ UNCHANGED <<hdr, maxhandle, numsigs, flush_context_pending, dump_size_limit, calls>>
Finalize(start, end, sections) ==
  /\ phase = "open" /\ phase' = "closed"
  /\ mapped' = FALSE
  /\ hdr' = HdrFields(start, end, sections)
  /\ UNCHANGED <<maxhandle, numsigs, flush_context_pending, dump_size_limit, calls>>

(* Nothing but its header was written: it is cut off.                       *)
TruncatableDirty ==           (* Mutant: vchg_siz is not looked at.         *)
  section_header_only /\ section_header_truncpos # 0 /\ ~is_initial_time
TruncatableUnstarted ==       (* Mutant: vchg_siz is 1 after a flush, not 0. *)
  section_header_only /\ section_header_truncpos # 0 /\ vchg_siz < 1 /\ ~is_initial_time
Truncatable ==
  section_header_only /\ section_header_truncpos # 0 /\ ~Dirty /\ ~is_initial_time

CloseTruncate ==
  /\ Finalize(firsttime, curtime, secnum) /\ Truncatable
  /\ blocks' = SubSeq(blocks, 1, section_header_truncpos)
  /\ tail' = NoSection
  /\ section_header_only' = FALSE
  /\ UNCHANGED <<vc_emitted, vchg, clock, section_header_truncpos, secnum, past,
                 curval, size_limit_locked, is_initial_time>>

CloseLocked ==
  /\ Finalize(firsttime, curtime, secnum)
  /\ ~Truncatable /\ size_limit_locked
  /\ UNCHANGED <<vc_emitted, vchg, clock, file>>

CloseFlush ==
  /\ Finalize(firsttime, curtime, secnum + 1)
  /\ ~Truncatable /\ ~size_limit_locked /\ ~is_initial_time
  /\ Dirty /\ mapped
  /\ \E full \in LimitOutcomes : WriteSection(full, TRUE)
  /\ tchn' = <<>> /\ tchn_idx' = 0 /\ times' = <<>>
  /\ UNCHANGED <<vc_emitted, curtime, firsttime>>

(* The flush returns early and the header stays in the file.                *)
CloseEmpty ==
  /\ Finalize(firsttime, curtime, secnum)
  /\ ~Truncatable /\ ~size_limit_locked /\ ~is_initial_time
  /\ ~Dirty
  /\ UNCHANGED <<vc_emitted, vchg, clock, file>>

(* Time never advanced: the values in .bits become changes at time 0.  With *)
(* no fixed-length variable there is nothing to flush either.               *)
CloseInitial ==
  /\ Finalize(0, 0, IF Fixed = {} THEN secnum ELSE secnum + 1)
  /\ is_initial_time /\ ~size_limit_locked
  /\ firsttime' = 0 /\ curtime' = 0
  /\ LET at0 == EmitSectionHeader(0, curval)
         cloned == [h \in Handle |-> IF h \in Fixed
                      THEN <<[delta |-> 0, val |-> curval[h]]>> ELSE <<>>]
     IN IF Fixed = {}
        THEN /\ tail' = at0 /\ section_header_only' = TRUE
             /\ is_initial_time' = FALSE
             /\ tchn' = <<0>> /\ times' = <<0>>
             /\ UNCHANGED <<blocks, past, secnum, section_header_truncpos,
                            size_limit_locked>>
        ELSE /\ blocks' = <<Section(at0, 0, cloned, <<0>>)>>
             /\ past' = <<[times |-> <<0>>, marks |-> [h \in Handle |->
                  IF h \in Fixed THEN <<[idx |-> 0, time |-> 0, val |-> curval[h]]>>
                  ELSE <<>>]]>>
             /\ secnum' = secnum + 1 /\ section_header_truncpos' = 1
             /\ tail' = NoSection /\ section_header_only' = FALSE
             /\ \E full \in LimitOutcomes :
                  size_limit_locked' = full /\ is_initial_time' = full
             /\ tchn' = <<>> /\ times' = <<>>
  /\ EmptyBuffer
  /\ UNCHANGED <<vc_emitted, tchn_idx, curval>>

Close ==
  CloseTruncate \/ CloseLocked \/ CloseFlush \/ CloseEmpty \/ CloseInitial

----------------------------------------------------------------------------
Next ==
  \/ \E alias \in 0 .. MaxHandle : CreateVar(alias)
  \/ \E h \in Handle, v \in Value :
       EmitValueChange(h, v) \/ EmitVariableLengthValueChange(h, v)
  \/ \E tim \in 0 .. MaxTime : EmitTimeChange(tim)
  \/ FlushContext
  \/ \E limit \in BOOLEAN : SetDumpSizeLimit(limit)
  \/ CrashInFlush
  \/ Close

Spec == Init /\ [][Next]_vars

----------------------------------------------------------------------------
Mark == [idx : Nat, time : Nat, val : Value]
Block == [begin : Nat, end : Nat, frame : [Handle -> Value],
          frame_maxhandle : 0 .. MaxHandle, maxhandle : 0 .. MaxHandle,
          chain : [Handle -> Seq(Change)], tchn : Seq(Nat)]

FlagType ==
  /\ phase \in {"open", "closed", "crashed"}
  /\ mapped \in BOOLEAN /\ vc_emitted \in BOOLEAN /\ is_initial_time \in BOOLEAN
  /\ flush_context_pending \in BOOLEAN /\ section_header_only \in BOOLEAN
  /\ size_limit_locked \in BOOLEAN /\ dump_size_limit \in BOOLEAN

CounterType ==
  /\ maxhandle \in 0 .. MaxHandle /\ numsigs \in 0 .. MaxSigs
  /\ curtime \in 0 .. MaxTime /\ firsttime \in 0 .. MaxTime
  /\ section_header_truncpos \in Nat /\ secnum \in Nat
  /\ calls \in 0 .. MaxCalls

BufferType ==
  /\ vchg_siz \in Nat
  /\ chain \in [Handle -> Seq(Change)] /\ marks \in [Handle -> Seq(Mark)]
  /\ lastidx \in [Handle -> Nat]
  /\ tchn \in Seq(Nat) /\ times \in Seq(Nat) /\ tchn_idx \in Nat

FileType ==
  /\ curval \in [Handle -> Value]
  /\ blocks \in Seq(Block)
  /\ past \in Seq([times : Seq(Nat), marks : [Handle -> Seq(Mark)]])
  /\ tail \in SectionHeader \cup {NoSection}
  /\ hdr \in [start : Nat, end : Nat, vars : Nat, maxhandle : Nat, sections : Nat]

(* The types of the writer's state, and of the file: no distance between    *)
(* records and no difference of times is negative.                          *)
TypeOK == FlagType /\ CounterType /\ BufferType /\ FileType

Dumping == phase = "open" /\ ~is_initial_time

(* The reader's two running sums: deltas gives back the times ts ...        *)
DecodesTimes(deltas, ts) ==
  /\ Len(ts) = Len(deltas)
  /\ \A k \in 1 .. Len(deltas) :
       ts[k] = deltas[k] + (IF k = 1 THEN 0 ELSE ts[k - 1])

(* ... and a chain, with them, the index, time and value of every change.   *)
DecodesChain(records, ms, ts) ==
  /\ Len(ms) = Len(records)
  /\ \A k \in 1 .. Len(records) :
       /\ ms[k].idx = records[k].delta + (IF k = 1 THEN 0 ELSE ms[k - 1].idx)
       /\ ms[k].val = records[k].val
       /\ ms[k].idx < Len(ts) /\ ms[k].time = ts[ms[k].idx + 1]

(* What a reader computes from a completed section is what the simulator    *)
(* emitted: the flush resets every index and difference the next section    *)
(* starts from, and fstWriterEmitTimeChange repeats curtime in its table.   *)
SectionsDecode ==
  /\ Len(past) = Len(blocks)
  /\ \A i \in 1 .. Len(blocks) :
       /\ DecodesTimes(blocks[i].tchn, past[i].times)
       /\ \A h \in Handle :
            DecodesChain(blocks[i].chain[h], past[i].marks[h], past[i].times)

(* The same of the section still in memory.                                 *)
BufferDecodes ==
  Dumping =>
    /\ DecodesTimes(tchn, times)
    /\ \A h \in Handle : DecodesChain(chain[h], marks[h], times)

(* A reader that starts at any section sees the values a reader of the      *)
(* previous ones has arrived at: each frame is the previous frame with the  *)
(* previous section's changes applied.                                      *)
NextFrame(b) ==
  [h \in Handle |-> IF h \in VarLen \/ b.chain[h] = <<>> THEN b.frame[h]
                    ELSE b.chain[h][Len(b.chain[h])].val]
FramesChain ==
  /\ \A i \in 1 .. Len(blocks) - 1 : blocks[i + 1].frame = NextFrame(blocks[i])
  /\ tail # NoSection /\ blocks # <<>> =>
       tail.frame = NextFrame(blocks[Len(blocks)])

(* Sections follow each other without gap or overlap and contain their own  *)
(* times, so that fstReaderGetValueFromHandleAtTime finds the one section   *)
(* to look in.                                                              *)
SectionsTile ==
  /\ \A i \in 1 .. Len(blocks) :
       /\ blocks[i].begin = IF i = 1 THEN firsttime ELSE blocks[i - 1].end
       /\ blocks[i].begin <= blocks[i].end
       /\ \A k \in 1 .. Len(past[i].times) :
            past[i].times[k] \in blocks[i].begin .. blocks[i].end
  /\ tail # NoSection =>
       tail.begin = IF blocks = <<>> THEN firsttime ELSE blocks[Len(blocks)].end

(* Closing loses no change of the last section: it is flushed or was empty. *)
NothingLeftBehind ==
  phase = "closed" /\ ~size_limit_locked => \A h \in Handle : chain[h] = <<>>

(* The header a reader goes by describes the sections that are there.       *)
HeaderDescribesFile ==
  phase = "closed" =>
    /\ hdr.sections = Len(blocks)
    /\ hdr.start = firsttime
    /\ \A i \in 1 .. Len(blocks) :
         blocks[i].end <= hdr.end /\ blocks[i].maxhandle <= hdr.maxhandle

(* A section tagged FST_BL_SKIP with length 0 at the end of a closed file   *)
(* hides the geometry and the hierarchy behind it from fstReaderInit: once  *)
(* a section was completed, closing leaves none.                            *)
ClosedFileIsComplete ==
  phase = "closed" /\ blocks # <<>> => tail = NoSection

(* Once the size limit is reached the sections and the clock are final.     *)
LimitIsFinal ==
  [][size_limit_locked =>
       size_limit_locked' /\ UNCHANGED <<blocks, curtime, firsttime, secnum>>]_vars

(* A queued flush leaves the recorded times alone: the time table gives     *)
(* back every time the simulator emitted.                                   *)
FlushKeepsTimes ==
  Dumping => \A k \in 1 .. Len(times) :
    times[k] = tchn[k] + (IF k = 1 THEN 0 ELSE times[k - 1])
=============================================================================
