----------------------------- MODULE FstReader -----------------------------
(***************************************************************************)
(* The FST reader (the fstReader functions of fstapi.c) on a closed file:  *)
(* a viewer chooses handles (the process mask) and a range of times, has   *)
(* the changes called back section by section (fstReaderIterBlocks2), or   *)
(* asks for the value of one handle at one time                            *)
(* (fstReaderGetValueFromHandleAtTime), in any order.                      *)
(*                                                                         *)
(* The latter keeps the section it found last, the chain it looked in last *)
(* and the place in it where it stopped, the cursor.  The former unlinks   *)
(* and relinks the masked chains in one list per time of the section.      *)
(*                                                                         *)
(* A file is a sequence of decoded sections (FstSections);                 *)
(* bytes, compression and the index (FstChainIndex) are left out.  A call  *)
(* returns before the next one: no callback calls the reader.              *)
(***************************************************************************)
EXTENDS FstSections

CONSTANTS
  Files,        (* The files that may be opened.                            *)
  MaxTime,      (* Bound on the times asked for.                            *)
  Limits,       (* The ranges of times set, [start, end].                   *)
  Unlimited,    (* No range is set.                                         *)
  Usage         (* What the viewer does: "boundary" asks for the end of a   *)
                (* section that is not the last; "rewind" goes back in the  *)
                (* section, to before the first change of the handle.       *)

Mode == {"callback", "callback2", "fv"}   (* IterBlocks, IterBlocks2, VCD output. *)

(* The elements of s at some of its places.                                 *)
Among(s, places) ==
  LET upto[i \in 0 .. Len(s)] ==
        IF i = 0 THEN <<>>
        ELSE IF i \in places THEN Append(upto[i - 1], s[i]) ELSE upto[i - 1]
  IN upto[Len(s)]

ASSUME FilesAssumption ==
  /\ MaxHandle \in Nat /\ MaxTime \in Nat /\ NoValue \notin Value
  /\ \A f \in Files : WellFormed(f)
  /\ \A range \in Limits : range \in [start : Nat, end : Nat]

VARIABLES
  file,                     (* What fstReaderOpen found.                    *)
  phase,                    (* "idle"; inside an iteration "sections" or    *)
                            (* "times"; "misread": bytes of one field were  *)
                            (* taken for another's.                         *)
  process_mask, limit,
  section,                  (* The section behind the rvat data (0: none).  *)
  chain_facidx,             (* The chain in rvat_chain_mem (0: none).       *)
  pos_valid, pos_idx, pos_tidx, pos_time,   (* rvat_chain_pos.              *)
  mode, blkpos, secnum, blocks_skipped,     (* Of an iteration.             *)
  ti,                       (* Place in the time table, from 1.             *)
  tc_head,                  (* Per place, the handles linked there.         *)
  headptr,                  (* Per handle, its next record.                 *)
  called,                   (* The callbacks so far.                        *)
  result                    (* What the latest call was, and returned.      *)

rvat == <<section, chain_facidx, pos_valid, pos_idx, pos_tidx, pos_time>>
locals == <<mode, blkpos, secnum, blocks_skipped, ti, tc_head, headptr>>
settings == <<file, process_mask, limit>>
vars == <<phase, settings, rvat, locals, called, result>>

----------------------------------------------------------------------------
Block(k) == file.blocks[k]
Table(k) == TimeTable(Block(k).tchn)
Limited == limit # Unlimited

NoResult == [call |-> "other"]
Returned(h, tim, val) == [call |-> "value", handle |-> h, time |-> tim, val |-> val]

Init ==
  /\ file \in Files
  /\ phase = "idle" /\ process_mask = {} /\ limit = Unlimited
  /\ section = 0 /\ chain_facidx = 0
  /\ pos_valid = FALSE /\ pos_idx = 0 /\ pos_tidx = 0 /\ pos_time = 0
  /\ mode = "callback" /\ blkpos = 1 /\ secnum = 0 /\ blocks_skipped = FALSE
  /\ ti = 0 /\ tc_head = <<>> /\ headptr = [h \in Handle |-> 1] /\ called = <<>>
  /\ result = NoResult

SetMask(mask) ==
  /\ phase = "idle"
  /\ process_mask' = mask
  /\ result' = NoResult /\ called' = <<>>
  /\ UNCHANGED <<file, phase, limit, rvat, locals>>

SetFacProcessMask(h) == h <= file.maxhandle /\ SetMask(process_mask \cup {h})
ClrFacProcessMask(h) == h <= file.maxhandle /\ SetMask(process_mask \ {h})
SetFacProcessMaskAll == SetMask(1 .. file.maxhandle)
ClrFacProcessMaskAll == SetMask({})

(* fstReaderSetLimitTimeRange, fstReaderSetUnlimitedTimeRange.              *)
SetTimeRange(range) ==
  /\ phase = "idle"
  /\ limit' = range
  /\ result' = NoResult /\ called' = <<>>
  /\ UNCHANGED <<file, phase, process_mask, rvat, locals>>

----------------------------------------------------------------------------
Return(h, tim, val) ==
  /\ result' = Returned(h, tim, val) /\ called' = <<>>
  /\ UNCHANGED <<phase, settings, locals>>

(* Mutant: the index in front of the record found is not kept.              *)
StopAnew(k, h, tim, sum, j) ==
  /\ pos_valid' = TRUE /\ pos_time' = tim
  /\ pos_idx' = j /\ pos_tidx' = 0
  /\ Return(h, tim, Block(k).chain[h][j].val)

(* Found: record j is the latest.  The cursor keeps the place in front of   *)
(* it, whose difference is added again when the search is taken up there.   *)
StopAt(k, h, tim, sum, j) ==
  /\ pos_valid' = TRUE /\ pos_time' = tim
  /\ pos_idx' = j
  /\ pos_tidx' = sum[j] - Block(k).chain[h][j].delta
  /\ Return(h, tim, Block(k).chain[h][j].val)

(* Nothing found: no record, from where the search started, is due by tim.  *)
StopAtFrame(k, h, tim, valid, resumed) ==
  /\ valid /\ ~resumed => "rewind" \in Usage
  /\ pos_valid' = valid
  /\ pos_time' = IF resumed THEN pos_time ELSE Block(k).begin
  /\ UNCHANGED <<pos_idx, pos_tidx>>
  /\ Return(h, tim, FrameValue(Block(k), h))

(* The search in the chain, from the cursor if it is not behind tim.        *)
SearchChain(k, h, tim, loaded, valid) ==
  LET records == Block(k).chain[h]
      mine    == valid /\ loaded = h    (* Another chain resets the cursor. *)
      resumed == mine /\ tim >= pos_time
      first   == IF resumed THEN pos_idx ELSE 1
      before  == IF resumed THEN pos_tidx ELSE 0
      deltas  == [j \in first .. Len(records) |-> records[j].delta]
      sum[j \in first - 1 .. Len(records)] ==
                 IF j < first THEN before ELSE sum[j - 1] + deltas[j]
      due(j)  == \A m \in first .. j : Table(k)[sum[m] + 1] <= tim
      found   == {j \in first .. Len(records) : due(j)}
  IN /\ chain_facidx' = h
     /\ IF found = {} THEN StopAtFrame(k, h, tim, mine, resumed)
        ELSE \E j \in found : j + 1 \notin found /\ StopAt(k, h, tim, sum, j)

(* process_value, with the chain and the cursor left by the calls before.   *)
ProcessValue(k, h, tim, loaded, valid) ==
  IF h <= Block(k).maxhandle /\ Block(k).chain[h] # <<>>
  THEN SearchChain(k, h, tim, loaded, valid)
  ELSE /\ chain_facidx' = loaded /\ pos_valid' = valid
       /\ UNCHANGED <<pos_idx, pos_tidx, pos_time>>
       /\ Return(h, tim, IF h <= Block(k).maxhandle THEN FrameValue(Block(k), h)
                         ELSE NoValue)

Covers(k, tim) == Block(k).begin <= tim /\ tim <= Block(k).end
Covering(tim) == {k \in DOMAIN file.blocks : Covers(k, tim)}

HasValues(h) == h <= file.maxhandle /\ h \notin file.varlen
Cached(tim) == section # 0 /\ Covers(section, tim)

RefuseHandle(h, tim) ==
  /\ phase = "idle" /\ ~HasValues(h)
  /\ Return(h, tim, NoValue) /\ UNCHANGED rvat

GetFromCached(h, tim) ==
  /\ phase = "idle" /\ HasValues(h) /\ Cached(tim)
  /\ ProcessValue(section, h, tim, chain_facidx, pos_valid)
  /\ UNCHANGED section

(* The scan of the sections; the tables of the previous one are freed.      *)
ScanToEnd(h, tim) ==
  /\ phase = "idle" /\ HasValues(h) /\ ~Cached(tim) /\ Covering(tim) = {}
  /\ section' = 0 /\ chain_facidx' = 0 /\ pos_valid' = FALSE
  /\ UNCHANGED <<pos_idx, pos_tidx, pos_time>>
  /\ Return(h, tim, NoValue)

FirstCovering(tim, k) ==
  Covers(k, tim) /\ \A m \in Covering(tim) : k <= m

(* At the end of a section the next one is looked at, but from blkpos, one  *)
(* byte into this one: its tag is then a byte of the length, no tag of a    *)
(* value change section, and both blkpos and seclen are wrong from there.   *)
AtBoundary(k, tim) == tim = Block(k).end /\ tim # file.end

(* Mutant: a cursor in the previous section is kept.                        *)
ScanKeepsCursor(h, tim) ==
  /\ phase = "idle" /\ HasValues(h) /\ ~Cached(tim)
  /\ \E k \in Covering(tim) :
       /\ FirstCovering(tim, k) /\ ~AtBoundary(k, tim)
       /\ section' = k
       /\ ProcessValue(k, h, tim, chain_facidx, pos_valid)

ScanToSection(h, tim) ==
  /\ phase = "idle" /\ HasValues(h) /\ ~Cached(tim)
  /\ \E k \in Covering(tim) :
       /\ FirstCovering(tim, k) /\ ~AtBoundary(k, tim)
       /\ section' = k
       /\ ProcessValue(k, h, tim, 0, FALSE)

ScanMisreads(h, tim) ==
  /\ phase = "idle" /\ HasValues(h) /\ ~Cached(tim)
  /\ "boundary" \in Usage
  /\ \E k \in Covering(tim) : FirstCovering(tim, k) /\ AtBoundary(k, tim)
  /\ phase' = "misread"
  /\ result' = NoResult /\ called' = <<>>
  /\ UNCHANGED <<settings, rvat, locals>>

GetValueFromHandleAtTime(h, tim) ==
  \/ RefuseHandle(h, tim)
  \/ GetFromCached(h, tim)
  \/ ScanToEnd(h, tim)
  \/ ScanToSection(h, tim)
  \/ ScanMisreads(h, tim)

----------------------------------------------------------------------------
(* fstReaderIterBlocks2, and fstReaderIterBlocks, which passes no callback  *)
(* for variable-length handles.                                             *)
IterBlocks(m) ==
  /\ phase = "idle"
  /\ phase' = "sections"
  /\ mode' = m /\ blkpos' = 1 /\ secnum' = 0 /\ blocks_skipped' = FALSE
  /\ called' = <<>> /\ result' = NoResult
  /\ UNCHANGED <<settings, rvat, ti, tc_head, headptr>>

(* The locals are gone; the time range and the mask stay.                   *)
IterationReturns ==
  /\ phase' = "idle"
  /\ result' = [call |-> "iteration", mode |-> mode]
  /\ mode' = "callback" /\ blkpos' = 1 /\ secnum' = 0 /\ blocks_skipped' = FALSE
  /\ ti' = 0 /\ tc_head' = <<>> /\ headptr' = [h \in Handle |-> 1]
  /\ UNCHANGED <<settings, rvat, called>>

InEarlierSection == Limited /\ Block(blkpos).end < limit.start
InLaterSection == Limited /\ Block(blkpos).begin > limit.end

SkipSection ==
  /\ phase = "sections" /\ blkpos <= Len(file.blocks) /\ InEarlierSection
  /\ blocks_skipped' = TRUE /\ blkpos' = blkpos + 1
  /\ UNCHANGED <<phase, settings, rvat, mode, secnum, ti, tc_head, headptr,
                 called, result>>

LeaveSections ==
  /\ phase = "sections"
  /\ IF blkpos > Len(file.blocks) THEN TRUE ELSE ~InEarlierSection /\ InLaterSection
  /\ IterationReturns

(* The frame is called back in front of the first section read, unless its  *)
(* changes start at the section's begin.                                    *)
ShowsFrameUnskipped(b, table) ==    (* Mutant: blocks_skipped is not looked at. *)
  secnum = 0 /\ b.begin # table[1]
ShowsFrame(b, table) ==
  secnum = 0 /\ (b.begin # table[1] \/ blocks_skipped)

Ascending(S) == Among([h \in Handle |-> h], S)

FrameCalls(b) ==
  LET hs == Ascending((process_mask \ file.varlen) \cap (1 .. b.frame_maxhandle))
  IN [k \in DOMAIN hs |-> [time |-> b.begin, handle |-> hs[k],
                           val |-> b.frame[hs[k]], frame |-> TRUE]]

(* Every masked chain is linked at the time of its first record; the last   *)
(* one linked comes first.                                                  *)
LinkFirst(b, n) ==
  [i \in 1 .. n |-> Reverse(Ascending(
     {h \in process_mask : b.chain[h] # <<>> /\ b.chain[h][1].delta = i - 1}))]

LoadSection ==
  /\ phase = "sections" /\ blkpos <= Len(file.blocks)
  /\ ~InEarlierSection /\ ~InLaterSection
  /\ LET b == Block(blkpos)
     IN /\ called' = IF ShowsFrame(b, Table(blkpos)) THEN called \o FrameCalls(b) ELSE called
        /\ tc_head' = LinkFirst(b, Len(b.tchn))
  /\ headptr' = [h \in Handle |-> 1]
  /\ phase' = "times" /\ ti' = 0
  /\ UNCHANGED <<settings, rvat, mode, blkpos, secnum, blocks_skipped, result>>

(* Mutant: the next record is linked at its difference, not that far ahead. *)
RelinkAbsolute(heads, h, delta) ==
  [heads EXCEPT ![IF delta = 0 THEN ti ELSE delta + 1] = <<h>> \o @]
Relink(heads, h, delta) == [heads EXCEPT ![ti + delta] = <<h>> \o @]

Reported(m, h) == m # "callback" \/ h \notin file.varlen

(* One turn of the inner loop: the first handle linked at this time.        *)
CallBack ==
  /\ phase = "times" /\ ti > 0 /\ tc_head[ti] # <<>>
  /\ LET h        == Head(tc_head[ti])
         records  == Block(blkpos).chain[h]
         unlinked == [tc_head EXCEPT ![ti] = Tail(@)]
     IN /\ called' = IF Reported(mode, h)
                     THEN Append(called, [time |-> Table(blkpos)[ti], handle |-> h,
                                   val |-> records[headptr[h]].val, frame |-> FALSE])
                     ELSE called
        /\ headptr' = [headptr EXCEPT ![h] = @ + 1]
        /\ tc_head' = IF headptr[h] < Len(records)
                      THEN Relink(unlinked, h, records[headptr[h] + 1].delta)
                      ELSE unlinked
  /\ UNCHANGED <<phase, settings, rvat, mode, blkpos, secnum, blocks_skipped, ti,
                 result>>

(* VCD output stops in the middle of a section, callbacks do not.           *)
StopsAt(t) == mode = "fv" /\ Limited /\ t > limit.end
MoreTimes == ti < Len(tc_head) /\ ~StopsAt(Table(blkpos)[ti + 1])
TimeDone == phase = "times" /\ (ti > 0 => tc_head[ti] = <<>>)

NextTime ==
  /\ TimeDone /\ MoreTimes
  /\ ti' = ti + 1
  /\ UNCHANGED <<phase, settings, rvat, mode, blkpos, secnum, blocks_skipped,
                 tc_head, headptr, called, result>>

(* No more sections are read than there were at fstReaderOpen.              *)
SectionDone ==
  /\ TimeDone /\ ~MoreTimes
  /\ secnum + 1 < Len(file.blocks)
  /\ phase' = "sections" /\ blkpos' = blkpos + 1 /\ secnum' = secnum + 1
  /\ ti' = 0 /\ tc_head' = <<>>
  /\ UNCHANGED <<settings, rvat, mode, blocks_skipped, headptr, called, result>>

LastSectionDone ==
  /\ TimeDone /\ ~MoreTimes
  /\ secnum + 1 = Len(file.blocks)
  /\ IterationReturns

Iteration ==
  \/ SkipSection \/ LoadSection \/ LeaveSections
  \/ CallBack \/ NextTime \/ SectionDone \/ LastSectionDone

----------------------------------------------------------------------------
Next ==
  \/ \E h \in Handle : SetFacProcessMask(h) \/ ClrFacProcessMask(h)
  \/ SetFacProcessMaskAll \/ ClrFacProcessMaskAll
  \/ \E range \in Limits \cup {Unlimited} : SetTimeRange(range)
  \/ \E h \in Handle, tim \in 0 .. MaxTime : GetValueFromHandleAtTime(h, tim)
  \/ \E m \in Mode : IterBlocks(m)
  \/ Iteration

Spec == Init /\ [][Next]_vars

----------------------------------------------------------------------------
CursorType ==
  /\ section \in 0 .. Len(file.blocks) /\ chain_facidx \in 0 .. MaxHandle
  /\ pos_valid \in BOOLEAN /\ pos_idx \in Nat /\ pos_tidx \in Nat /\ pos_time \in 0 .. MaxTime
  /\ chain_facidx # 0 => section # 0
  /\ pos_valid => chain_facidx # 0 /\ pos_idx \in DOMAIN Block(section).chain[chain_facidx]

IterationType ==
  /\ phase \in {"idle", "sections", "times", "misread"} /\ mode \in Mode
  /\ process_mask \subseteq 1 .. file.maxhandle
  /\ blkpos \in 1 .. Len(file.blocks) + 1 /\ secnum \in 0 .. Len(file.blocks)
  /\ ti \in 0 .. Len(tc_head)
  /\ \A i \in DOMAIN tc_head : ToSet(tc_head[i]) \subseteq process_mask

(* The cursor, when there is one, is at a record of the chain that is       *)
(* loaded from the section that is cached.                                  *)
TypeOK == CursorType /\ IterationType

(* The value of h at tim by section k: that of its last change until tim.   *)
ValueIn(k, h, tim) ==
  LET changes == DecodeChain(Block(k).chain[h], Table(k))
      until   == {j \in DOMAIN changes : changes[j].time <= tim}
  IN IF until = {} THEN FrameValue(Block(k), h) ELSE changes[Max(until)].val

(* fstReaderGetValueFromHandleAtTime answers with the value the file gives  *)
(* the handle at that time, whatever was asked for before: its cached       *)
(* section, chain and cursor never show.  At a time two sections share it   *)
(* is the value by either.                                                  *)
AnswerIsTheValue ==
  result.call = "value" =>
    LET h == result.handle  tim == result.time
    IN IF HasValues(h) /\ Covering(tim) # {}
       THEN \E k \in Covering(tim) : result.val = ValueIn(k, h, tim)
       ELSE result.val = NoValue

(* The sections an iteration has to read, and the changes in them of h.     *)
InRange(b) == Limited => b.end >= limit.start /\ b.begin <= limit.end
RangeChanges(h) ==
  LET read == {k \in DOMAIN file.blocks : InRange(Block(k))}
      all  == DecodeSections(Among(file.blocks, read), h)
  IN IF result.mode = "fv" /\ Limited
     THEN Among(all, {j \in DOMAIN all : all[j].time <= limit.end}) ELSE all

CallsOf(h) ==
  LET cs == Among(called, {i \in DOMAIN called : called[i].handle = h /\ ~called[i].frame})
  IN [k \in DOMAIN cs |-> [time |-> cs[k].time, val |-> cs[k].val]]

(* An iteration calls back every change of every masked handle in the       *)
(* sections of the range, once, in order and with its time, and no other.   *)
IterationDecodes ==
  result.call = "iteration" =>
    \A h \in 1 .. file.maxhandle :
      CallsOf(h) = IF h \in process_mask /\ Reported(result.mode, h) THEN RangeChanges(h) ELSE <<>>

(* A viewer that has only the callbacks of a range knows the value of a     *)
(* masked handle at every time of it: the latest one called back.  When     *)
(* none was, it is still that of the first frame with the handle, which is  *)
(* not called back if it is that of a later section, or if the first        *)
(* section begins with its first time.                                      *)
InitialKnown(h, val) ==
  \E k \in DOMAIN file.blocks :
    /\ val = FrameValue(Block(k), h)
    /\ \A m \in 1 .. k - 1 : FrameValue(Block(m), h) = NoValue
    /\ k = 1 => Block(k).begin = Table(k)[1]
IterationReplays ==
  result.call = "iteration" =>
    \A h \in process_mask \ file.varlen, tim \in 0 .. MaxTime :
      LET calls == {i \in DOMAIN called : called[i].handle = h /\ called[i].time <= tim}
          val   == ValueIn(CHOOSE k \in Covering(tim) : k + 1 \notin Covering(tim), h, tim)
      IN (Limited => tim \in limit.start .. limit.end) /\ Covering(tim) # {} =>
           IF calls = {} THEN val = NoValue \/ InitialKnown(h, val)
                         ELSE val = called[Max(calls)].val

(* The scan for a section, of which the code says "if this loop exits on    *)
(* break, it's successful", goes on with the section it found.              *)
ScanIsSuccessful == phase # "misread"
=============================================================================
