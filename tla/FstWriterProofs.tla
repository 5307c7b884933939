-------------------------- MODULE FstWriterProofs --------------------------
(***************************************************************************)
(* Theorems about FstWriter, for any number of handles, times and sections:*)
(* its state is well typed, and what it records can be read back, the      *)
(* latter for a simulator that queues no flush while nothing has changed.  *)
(* Then what is in the file, for every simulator: what closing and the     *)
(* size limit leave, and how the sections continue each other, in their    *)
(* frames and in their times.                                              *)
(***************************************************************************)
EXTENDS FstWriter, TLAPS

(* TypeOK is inductive together with: no record is newer than the current   *)
(* time, a truncation would cut no section, and the section being dumped    *)
(* has its header in the file.                                              *)
IndexBound == \A h \in Handle : lastidx[h] <= tchn_idx
TruncAtEnd == section_header_truncpos = Len(blocks)
TypeInv ==
  /\ TypeOK
  /\ IndexBound
  /\ TruncAtEnd
  /\ Dumping => tail \in SectionHeader

USE DEF FlagType, CounterType, BufferType, FileType, ctx, vchg, clock, file, vars

LEMMA TypeInit == Init => TypeInv
  <1> SUFFICES ASSUME Init PROVE TypeInv
    OBVIOUS
  <1> USE BoundsAssumption, DataAssumption DEF BoundsAssumption, DataAssumption
  <1>1. FlagType
    BY Zenon DEF Init
  <1>2. CounterType
    BY DEF Init
  <1>3. BufferType
    BY DEF Init, EmptyChains
  <1>4. FileType
    BY DEF Init
  <1>5. IndexBound
    BY DEF Init, IndexBound
  <1>6. ~Dumping
    BY Zenon DEF Init, Dumping
  <1>7. TruncAtEnd
    BY DEF Init, TruncAtEnd
  <1> QED
    BY <1>1, <1>2, <1>3, <1>4, <1>5, <1>6, <1>7, Zenon DEF TypeInv, TypeOK

(* The flags stay Boolean.                                                  *)
LEMMA FlagStep == FlagType /\ [Next]_vars => FlagType'
  <1> SUFFICES ASSUME FlagType, [Next]_vars PROVE FlagType'
    OBVIOUS
  <1>0. (maxhandle > 0) \in BOOLEAN
    OBVIOUS
  <1>1. ASSUME NEW full \in LimitOutcomes, NEW stop \in BOOLEAN, WriteSection(full, stop)
        PROVE  section_header_only' \in BOOLEAN /\ size_limit_locked' \in BOOLEAN
               /\ is_initial_time' \in BOOLEAN
    <2>1. full \in BOOLEAN
      BY DEF LimitOutcomes
    <2> QED
      BY <1>1, <2>1, Zenon DEF WriteSection, LimitReached
  <1>2. ASSUME NEW alias \in 0 .. MaxHandle, CreateVar(alias) PROVE FlagType'
    BY <1>2, Zenon DEF CreateVar
  <1>3. ASSUME NEW h \in Handle, NEW v \in Value, EmitValueChange(h, v) PROVE FlagType'
    BY <1>3, <1>0, Zenon DEF EmitValueChange, BeginChange, CreateMmaps
  <1>4. ASSUME NEW h \in Handle, NEW v \in Value, EmitVariableLengthValueChange(h, v)
        PROVE FlagType'
    BY <1>4, <1>0, Zenon DEF EmitVariableLengthValueChange, BeginChange, CreateMmaps
  <1>5. ASSUME NEW tim \in 0 .. MaxTime, EmitTimeChange(tim) PROVE FlagType'
    <2>1. CASE FirstTimeChange(tim)
      BY <2>1, <1>0, Zenon DEF FirstTimeChange, BeginTime, CreateMmaps
    <2>2. CASE PlainTimeChange(tim)
      BY <2>2, Zenon DEF PlainTimeChange, BeginTime
    <2>3. CASE FlushTimeChange(tim)
      BY <2>3, <1>1, Zenon DEF FlushTimeChange, BeginTime
    <2>4. CASE EmptyFlushTimeChange(tim)
      BY <2>4, Zenon DEF EmptyFlushTimeChange, BeginTime
    <2> QED
      BY <1>5, <2>1, <2>2, <2>3, <2>4, Zenon DEF EmitTimeChange
  <1>6. CASE FlushContext
    BY <1>6, Zenon DEF FlushContext
  <1>7. ASSUME NEW limit \in BOOLEAN, SetDumpSizeLimit(limit) PROVE FlagType'
    BY <1>7, Zenon DEF SetDumpSizeLimit
  <1>8. CASE CrashInFlush
    BY <1>8, Zenon DEF CrashInFlush
  <1>9. CASE Close
    <2>1. CASE CloseTruncate
      BY <2>1, Zenon DEF CloseTruncate, Finalize
    <2>2. CASE CloseLocked
      BY <2>2, Zenon DEF CloseLocked, Finalize
    <2>3. CASE CloseFlush
      BY <2>3, <1>1, Zenon DEF CloseFlush, Finalize
    <2>4. CASE CloseEmpty
      BY <2>4, Zenon DEF CloseEmpty, Finalize
    <2>5. CASE CloseInitial
      <3>1. LimitOutcomes \subseteq BOOLEAN
        BY DEF LimitOutcomes
      <3> QED
        BY <2>5, <3>1, Zenon DEF CloseInitial, Finalize
    <2> QED
      BY <1>9, <2>1, <2>2, <2>3, <2>4, <2>5, Zenon DEF Close
  <1>10. CASE UNCHANGED vars
    BY <1>10, Zenon
  <1> QED
    BY <1>2, <1>3, <1>4, <1>5, <1>6, <1>7, <1>8, <1>9, <1>10, Zenon DEF Next

(* Counters, times and handles stay in their ranges.                        *)
LEMMA CounterStep == TypeOK /\ [Next]_vars => CounterType'
  <1> SUFFICES ASSUME TypeOK, [Next]_vars PROVE CounterType'
    OBVIOUS
  <1> USE BoundsAssumption DEF TypeOK, BoundsAssumption
  <1>1. ASSUME NEW full, NEW stop, WriteSection(full, stop)
        PROVE  secnum' \in Nat /\ section_header_truncpos' \in Nat
    BY <1>1 DEF WriteSection
  <1>2. ASSUME NEW alias \in 0 .. MaxHandle, CreateVar(alias) PROVE CounterType'
    BY <1>2 DEF CreateVar
  <1>3. ASSUME NEW h \in Handle, NEW v \in Value, EmitValueChange(h, v) PROVE CounterType'
    BY <1>3 DEF EmitValueChange, BeginChange
  <1>4. ASSUME NEW h \in Handle, NEW v \in Value, EmitVariableLengthValueChange(h, v)
        PROVE CounterType'
    BY <1>4 DEF EmitVariableLengthValueChange, BeginChange
  <1>5. ASSUME NEW tim \in 0 .. MaxTime, EmitTimeChange(tim) PROVE CounterType'
    <2>1. CASE FirstTimeChange(tim)
      BY <2>1 DEF FirstTimeChange, BeginTime
    <2>2. CASE PlainTimeChange(tim)
      BY <2>2 DEF PlainTimeChange, BeginTime
    <2>3. CASE FlushTimeChange(tim)
      <3>1. secnum' \in Nat /\ section_header_truncpos' \in Nat
        BY <2>3, <1>1, Zenon DEF FlushTimeChange
      <3> QED
        BY <2>3, <3>1 DEF FlushTimeChange, BeginTime
    <2>4. CASE EmptyFlushTimeChange(tim)
      BY <2>4 DEF EmptyFlushTimeChange, BeginTime
    <2> QED
      BY <1>5, <2>1, <2>2, <2>3, <2>4 DEF EmitTimeChange
  <1>6. CASE FlushContext
    BY <1>6 DEF FlushContext
  <1>7. ASSUME NEW limit \in BOOLEAN, SetDumpSizeLimit(limit) PROVE CounterType'
    BY <1>7 DEF SetDumpSizeLimit
  <1>8. CASE CrashInFlush
    BY <1>8 DEF CrashInFlush
  <1>9. CASE Close
    <2>1. CASE CloseTruncate
      BY <2>1 DEF CloseTruncate, Finalize
    <2>2. CASE CloseLocked
      BY <2>2 DEF CloseLocked, Finalize
    <2>3. CASE CloseFlush
      BY <2>3, <1>1 DEF CloseFlush, Finalize
    <2>4. CASE CloseEmpty
      BY <2>4 DEF CloseEmpty, Finalize
    <2>5. CASE CloseInitial
      <3>1. UNCHANGED <<maxhandle, numsigs, calls>> /\ firsttime' = 0 /\ curtime' = 0
        BY <2>5, Zenon DEF CloseInitial, Finalize
      <3>2. \/ UNCHANGED <<secnum, section_header_truncpos>>
            \/ secnum' = secnum + 1 /\ section_header_truncpos' = 1
        BY <2>5, Zenon DEF CloseInitial
      <3> QED
        BY <3>1, <3>2
    <2> QED
      BY <1>9, <2>1, <2>2, <2>3, <2>4, <2>5 DEF Close
  <1>10. CASE UNCHANGED vars
    BY <1>10
  <1> QED
    BY <1>2, <1>3, <1>4, <1>5, <1>6, <1>7, <1>8, <1>9, <1>10 DEF Next

(* A record appended to a chain keeps the buffer typed, since the handle's  *)
(* previous record is not newer than the current time.                      *)
LEMMA AppendType ==
  ASSUME TypeOK, IndexBound, NEW h \in Handle, NEW v \in Value,
         AppendChange(h, v), UNCHANGED clock
  PROVE  BufferType' /\ IndexBound'
  <1> USE DEF TypeOK
  <1>1. [delta |-> tchn_idx - lastidx[h], val |-> v] \in Change
    BY DEF Change, IndexBound
  <1>2. [idx |-> tchn_idx, time |-> curtime, val |-> v] \in Mark
    BY BoundsAssumption DEF Mark, BoundsAssumption
  <1>3. chain' \in [Handle -> Seq(Change)]
    BY <1>1 DEF AppendChange
  <1>4. marks' \in [Handle -> Seq(Mark)]
    BY <1>2 DEF AppendChange
  <1>5. /\ vchg_siz' = vchg_siz + 1
        /\ lastidx' = [lastidx EXCEPT ![h] = tchn_idx]
        /\ UNCHANGED <<tchn, times, tchn_idx>>
    BY DEF AppendChange
  <1>6. vchg_siz' \in Nat /\ lastidx' \in [Handle -> Nat]
    BY <1>5 DEF BufferType
  <1>7. IndexBound'
    BY <1>5 DEF BufferType, IndexBound
  <1>8. tchn' \in Seq(Nat) /\ times' \in Seq(Nat) /\ tchn_idx' \in Nat
    BY <1>5 DEF BufferType
  <1> QED
    BY <1>3, <1>4, <1>6, <1>7, <1>8, Zenon DEF BufferType

LEMMA EmptyType ==
  ASSUME EmptyBuffer, tchn_idx' \in Nat
  PROVE  /\ vchg_siz' \in Nat
         /\ chain' \in [Handle -> Seq(Change)] /\ marks' \in [Handle -> Seq(Mark)]
         /\ lastidx' \in [Handle -> Nat] /\ IndexBound'
  BY DEF EmptyBuffer, EmptyChains, IndexBound

(* The latest records of a handle stay where they are and time goes on.     *)
LEMMA IndexMoves ==
  ASSUME lastidx \in [Handle -> Nat], tchn_idx \in Nat, IndexBound,
         UNCHANGED lastidx, tchn_idx' = tchn_idx + 1
  PROVE  IndexBound'
  BY DEF IndexBound

(* The buffer stays typed: in particular no difference of times, and no     *)
(* distance between records, becomes negative.                              *)
LEMMA BufferStep == TypeOK /\ IndexBound /\ [Next]_vars => BufferType' /\ IndexBound'
  <1> SUFFICES ASSUME TypeOK, IndexBound, [Next]_vars PROVE BufferType' /\ IndexBound'
    OBVIOUS
  <1> USE BoundsAssumption DEF TypeOK, BoundsAssumption
  <1>1. ASSUME UNCHANGED <<vchg, clock>> PROVE BufferType' /\ IndexBound'
    BY <1>1 DEF IndexBound
  <1>2. ASSUME NEW alias \in 0 .. MaxHandle, CreateVar(alias)
        PROVE  UNCHANGED <<vchg, clock>>
    BY <1>2, Zenon DEF CreateVar
  <1>3. ASSUME NEW h \in Handle, NEW v \in Value, EmitValueChange(h, v)
        PROVE  BufferType' /\ IndexBound'
    <2>1. UNCHANGED clock /\ (UNCHANGED vchg \/ AppendChange(h, v))
      BY <1>3, Zenon DEF EmitValueChange, BeginChange
    <2> QED
      BY <2>1, <1>1, AppendType
  <1>4. ASSUME NEW h \in Handle, NEW v \in Value, EmitVariableLengthValueChange(h, v)
        PROVE  BufferType' /\ IndexBound'
    <2>1. UNCHANGED clock /\ (UNCHANGED vchg \/ AppendChange(h, v))
      BY <1>4, Zenon DEF EmitVariableLengthValueChange, BeginChange
    <2> QED
      BY <2>1, <1>1, AppendType
  <1>5. ASSUME NEW tim \in 0 .. MaxTime, EmitTimeChange(tim)
        PROVE  BufferType' /\ IndexBound'
    <2>1. CASE FirstTimeChange(tim)
      <3>1. EmptyBuffer /\ tchn_idx' = tchn_idx
            /\ tchn' = Append(tchn, tim) /\ times' = Append(times, tim)
        BY <2>1, Zenon DEF FirstTimeChange
      <3>2. tchn_idx' \in Nat /\ tchn' \in Seq(Nat) /\ times' \in Seq(Nat)
        BY <3>1
      <3> QED
        BY <3>1, <3>2, EmptyType, Zenon
    <2>2. CASE PlainTimeChange(tim)
      <3>1. UNCHANGED vchg /\ tchn_idx' = tchn_idx + 1 /\ curtime <= tim
            /\ tchn' = Append(tchn, tim - curtime) /\ times' = Append(times, tim)
        BY <2>2, Zenon DEF PlainTimeChange, BeginTime
      <3>2. tim \in Nat /\ tim - curtime \in Nat
        BY <3>1 DEF CounterType
      <3>3. tchn' \in Seq(Nat) /\ times' \in Seq(Nat) /\ tchn_idx' \in Nat
        BY <3>1, <3>2 DEF BufferType
      <3>4. IndexBound'
        <4>1. lastidx \in [Handle -> Nat] /\ tchn_idx \in Nat /\ UNCHANGED lastidx
          BY <3>1, Zenon DEF BufferType
        <4> QED
          BY <4>1, <3>1, IndexMoves, Zenon
      <3> QED
        BY <3>1, <3>3, <3>4, Zenon DEF BufferType
    <2>3. CASE FlushTimeChange(tim)
      <3>1. EmptyBuffer /\ tchn_idx' = 1 /\ curtime <= tim
            /\ tchn' = <<curtime, tim - curtime>> /\ times' = <<curtime, tim>>
        BY <2>3, Zenon DEF FlushTimeChange, WriteSection, BeginTime
      <3>2. tchn_idx' \in Nat /\ tchn' \in Seq(Nat) /\ times' \in Seq(Nat)
        BY <3>1
      <3> QED
        BY <3>1, <3>2, EmptyType, Zenon
    <2>4. CASE EmptyFlushTimeChange(tim)
      <3>1. UNCHANGED vchg /\ tchn_idx' = tchn_idx + 1 /\ curtime <= tim
            /\ tchn' = tchn \o <<curtime, tim - curtime>> /\ times' = Append(times, tim)
        BY <2>4, Zenon DEF EmptyFlushTimeChange, BeginTime
      <3>2. tim \in Nat /\ tim - curtime \in Nat /\ curtime \in Nat
        BY <3>1 DEF CounterType
      <3>3. tchn' \in Seq(Nat) /\ times' \in Seq(Nat) /\ tchn_idx' \in Nat
        BY <3>1, <3>2 DEF BufferType
      <3>4. IndexBound'
        <4>1. lastidx \in [Handle -> Nat] /\ tchn_idx \in Nat /\ UNCHANGED lastidx
          BY <3>1, Zenon DEF BufferType
        <4> QED
          BY <4>1, <3>1, IndexMoves, Zenon
      <3> QED
        BY <3>1, <3>3, <3>4, Zenon DEF BufferType
    <2> QED
      BY <1>5, <2>1, <2>2, <2>3, <2>4, Zenon DEF EmitTimeChange
  <1>6. ASSUME FlushContext PROVE UNCHANGED <<vchg, clock>>
    BY <1>6, Zenon DEF FlushContext
  <1>7. ASSUME NEW limit \in BOOLEAN, SetDumpSizeLimit(limit)
        PROVE  UNCHANGED <<vchg, clock>>
    BY <1>7, Zenon DEF SetDumpSizeLimit
  <1>8. ASSUME CrashInFlush PROVE UNCHANGED <<vchg, clock>>
    BY <1>8, Zenon DEF CrashInFlush
  <1>9. CASE Close
    <2>1. CASE CloseTruncate \/ CloseLocked \/ CloseEmpty
      <3>1. UNCHANGED <<vchg, clock>>
        BY <2>1, Zenon DEF CloseTruncate, CloseLocked, CloseEmpty
      <3> QED
        BY <3>1, <1>1
    <2>2. CASE CloseFlush
      <3>1. EmptyBuffer /\ tchn' = <<>> /\ tchn_idx' = 0 /\ times' = <<>>
        BY <2>2, Zenon DEF CloseFlush, WriteSection
      <3>2. tchn_idx' \in Nat /\ tchn' \in Seq(Nat) /\ times' \in Seq(Nat)
        BY <3>1
      <3> QED
        BY <3>1, <3>2, EmptyType, Zenon
    <2>3. CASE CloseInitial
      <3>1. EmptyBuffer /\ tchn_idx' = tchn_idx
            /\ (tchn' = <<0>> \/ tchn' = <<>>) /\ (times' = <<0>> \/ times' = <<>>)
        BY <2>3, Zenon DEF CloseInitial
      <3>a. <<0>> \in Seq(Nat) /\ <<>> \in Seq(Nat)
        OBVIOUS
      <3>2. tchn_idx' \in Nat /\ tchn' \in Seq(Nat) /\ times' \in Seq(Nat)
        BY <3>1, <3>a, Zenon DEF BufferType
      <3> QED
        BY <3>1, <3>2, EmptyType, Zenon
    <2> QED
      BY <1>9, <2>1, <2>2, <2>3, Zenon DEF Close
  <1>10. ASSUME UNCHANGED vars PROVE UNCHANGED <<vchg, clock>>
    BY <1>10, Zenon
  <1> QED
    BY <1>1, <1>2, <1>3, <1>4, <1>5, <1>6, <1>7, <1>8, <1>9, <1>10, Zenon DEF Next

(* What a flush writes is typed: the checkpoint, the section, its header.   *)
LEMMA CheckpointType ==
  ASSUME TypeOK PROVE Checkpoint \in [Handle -> Value]
  <1> SUFFICES ASSUME NEW h \in Handle, chain[h] # <<>>
               PROVE  chain[h][Len(chain[h])].val \in Value
    BY DEF TypeOK, Checkpoint
  <1>1. chain[h] \in Seq(Change)
    BY DEF TypeOK
  <1>2. chain[h][Len(chain[h])] \in Change
    BY <1>1
  <1> QED
    BY <1>2 DEF Change

LEMMA SectionType ==
  ASSUME TypeOK, NEW header \in SectionHeader, NEW end \in Nat,
         NEW chains \in [Handle -> Seq(Change)], NEW deltas \in Seq(Nat)
  PROVE  Section(header, end, chains, deltas) \in Block
  BY DEF TypeOK, Section, SectionHeader, Block

LEMMA HeaderType ==
  ASSUME TypeOK, NEW begin \in Nat, NEW frame \in [Handle -> Value]
  PROVE  EmitSectionHeader(begin, frame) \in SectionHeader
  BY DEF TypeOK, EmitSectionHeader, SectionHeader

LEMMA WriteType ==
  ASSUME TypeOK, tail \in SectionHeader, NEW full, NEW stop, WriteSection(full, stop)
  PROVE  /\ curval' \in [Handle -> Value]
         /\ blocks' \in Seq(Block)
         /\ past' \in Seq([times : Seq(Nat), marks : [Handle -> Seq(Mark)]])
         /\ tail' \in SectionHeader \cup {NoSection}
  <1> USE BoundsAssumption DEF BoundsAssumption
  <1>0. curtime \in Nat
    BY DEF TypeOK
  <1>1. curval' \in [Handle -> Value]
    BY CheckpointType DEF WriteSection
  <1>2. Section(tail, curtime, chain, tchn) \in Block
    BY <1>0, SectionType DEF TypeOK
  <1>3. blocks' \in Seq(Block)
    BY <1>2 DEF WriteSection, TypeOK
  <1>4. past' \in Seq([times : Seq(Nat), marks : [Handle -> Seq(Mark)]])
    BY DEF WriteSection, TypeOK
  <1>5. EmitSectionHeader(curtime, Checkpoint) \in SectionHeader
    BY <1>0, CheckpointType, HeaderType
  <1> QED
    BY <1>1, <1>3, <1>4, <1>5, Zenon DEF WriteSection

LEMMA HdrType ==
  ASSUME TypeOK, NEW start \in Nat, NEW end \in Nat, NEW sections \in Nat
  PROVE  HdrFields(start, end, sections)
           \in [start : Nat, end : Nat, vars : Nat, maxhandle : Nat, sections : Nat]
  BY BoundsAssumption DEF TypeOK, HdrFields, BoundsAssumption

LEMMA MmapsType ==
  ASSUME TypeOK, CreateMmaps
  PROVE  hdr' \in [start : Nat, end : Nat, vars : Nat, maxhandle : Nat, sections : Nat]
  <1>1. firsttime \in Nat /\ curtime \in Nat /\ secnum \in Nat
    BY BoundsAssumption DEF TypeOK, BoundsAssumption
  <1> QED
    BY <1>1, HdrType DEF CreateMmaps, TypeOK

(* The file stays typed, and dumping goes on only with a section header.    *)
HeaderThere == Dumping => tail \in SectionHeader
LEMMA FileStep == TypeInv /\ [Next]_vars => FileType' /\ HeaderThere'
  <1> SUFFICES ASSUME TypeInv, [Next]_vars PROVE FileType' /\ HeaderThere'
    OBVIOUS
  <1> USE DEF TypeInv
  <1>0. TypeOK /\ HeaderThere /\ TruncAtEnd /\ firsttime \in Nat /\ curtime \in Nat /\ secnum \in Nat
    BY BoundsAssumption DEF TypeOK, BoundsAssumption, HeaderThere
  <1>1. ASSUME UNCHANGED <<file, hdr, phase>> PROVE FileType' /\ HeaderThere'
    BY <1>0, <1>1 DEF TypeOK, HeaderThere, Dumping
  <1>2. ASSUME NEW alias \in 0 .. MaxHandle, CreateVar(alias)
        PROVE  UNCHANGED <<file, hdr, phase>>
    BY <1>2, Zenon DEF CreateVar
  <1>3. ASSUME NEW h \in Handle, NEW v \in Value,
               EmitValueChange(h, v) \/ EmitVariableLengthValueChange(h, v)
        PROVE  FileType' /\ HeaderThere'
    <2>1. CreateMmaps /\ UNCHANGED <<phase, is_initial_time, blocks, past, tail>>
      BY <1>3, Zenon DEF EmitValueChange, EmitVariableLengthValueChange, BeginChange
    <2>2. curval' = curval \/ curval' = [curval EXCEPT ![h] = v]
      BY <1>3, Zenon DEF EmitValueChange, EmitVariableLengthValueChange
    <2>3. curval' \in [Handle -> Value]
      BY <2>2, <1>0 DEF TypeOK
    <2> QED
      BY <2>1, <2>3, <1>0, MmapsType, Zenon DEF TypeOK, HeaderThere, Dumping
  <1>4. ASSUME NEW tim \in 0 .. MaxTime, EmitTimeChange(tim)
        PROVE  FileType' /\ HeaderThere'
    <2>1. CASE FirstTimeChange(tim)
      <3>1. CreateMmaps /\ UNCHANGED <<blocks, past, curval>>
            /\ tail' = EmitSectionHeader(firsttime', curval)
        BY <2>1, Zenon DEF FirstTimeChange
      <3>2. firsttime' \in Nat
        BY <2>1, BoundsAssumption DEF FirstTimeChange, BoundsAssumption
      <3>3. curval \in [Handle -> Value]
        BY <1>0, Zenon DEF TypeOK
      <3>4. tail' \in SectionHeader
        BY <3>1, <3>2, <3>3, <1>0, HeaderType
      <3> QED
        BY <3>1, <3>4, <1>0, MmapsType, Zenon DEF TypeOK, HeaderThere
    <2>2. CASE PlainTimeChange(tim)
      BY <2>2, <1>1, Zenon DEF PlainTimeChange, BeginTime
    <2>3. CASE FlushTimeChange(tim)
      <3>1. PICK full \in LimitOutcomes : WriteSection(full, FALSE)
        BY <2>3, Zenon DEF FlushTimeChange
      <3>2. tail \in SectionHeader /\ hdr' = hdr
        BY <2>3, <1>0, Zenon DEF FlushTimeChange, BeginTime, HeaderThere, Dumping
      <3>3. full => is_initial_time'
        BY <3>1, Zenon DEF WriteSection, LimitReached
      <3>4. Dumping' => ~full
        BY <3>3, Zenon DEF Dumping
      <3>5. FileType'
        BY <3>1, <3>2, <1>0, WriteType, Zenon DEF TypeOK
      <3>6. ~full => tail' \in SectionHeader
        <4>1. EmitSectionHeader(curtime, Checkpoint) \in SectionHeader
          BY <1>0, CheckpointType, HeaderType
        <4> QED
          BY <3>1, <4>1, Zenon DEF WriteSection
      <3> QED
        BY <3>4, <3>5, <3>6, Zenon DEF HeaderThere
    <2>4. CASE EmptyFlushTimeChange(tim)
      BY <2>4, <1>1, Zenon DEF EmptyFlushTimeChange, BeginTime
    <2> QED
      BY <1>4, <2>1, <2>2, <2>3, <2>4, Zenon DEF EmitTimeChange
  <1>5. ASSUME FlushContext PROVE UNCHANGED <<file, hdr, phase>>
    BY <1>5, Zenon DEF FlushContext
  <1>6. ASSUME NEW limit \in BOOLEAN, SetDumpSizeLimit(limit)
        PROVE  UNCHANGED <<file, hdr, phase>>
    BY <1>6, Zenon DEF SetDumpSizeLimit
  <1>7. CASE CrashInFlush
    <2>1. UNCHANGED <<file, hdr>> /\ phase' = "crashed"
      BY <1>7, Zenon DEF CrashInFlush
    <2>2. HeaderThere'
      BY <2>1 DEF HeaderThere, Dumping
    <2>3. FileType'
      BY <2>1, <1>0 DEF TypeOK
    <2> QED
      BY <2>2, <2>3
  <1>8. CASE Close
    <2>0. phase' = "closed"
      BY <1>8, Zenon DEF Close, CloseTruncate, CloseLocked, CloseFlush, CloseEmpty,
                         CloseInitial, Finalize
    <2>1. HeaderThere'
      BY <2>0 DEF HeaderThere, Dumping
    <2>2. \E start \in Nat, end \in Nat, sections \in Nat :
            hdr' = HdrFields(start, end, sections)
      <3>1. 0 \in Nat /\ secnum + 1 \in Nat
        BY <1>0
      <3> QED
        BY <1>8, <1>0, <3>1, Zenon DEF Close, CloseTruncate, CloseLocked, CloseFlush,
                                CloseEmpty, CloseInitial, Finalize
    <2>3. hdr' \in [start : Nat, end : Nat, vars : Nat, maxhandle : Nat, sections : Nat]
      BY <2>2, <1>0, HdrType
    <2>4. CASE CloseTruncate
      <3>1. blocks' = SubSeq(blocks, 1, section_header_truncpos) /\ tail' = NoSection
            /\ UNCHANGED <<past, curval>>
        BY <2>4, Zenon DEF CloseTruncate
      <3>2. SubSeq(blocks, 1, section_header_truncpos) \in Seq(Block)
        BY <1>0 DEF TypeOK, TruncAtEnd
      <3> QED
        BY <3>1, <3>2, <2>1, <2>3, <1>0, Zenon DEF TypeOK
    <2>5. CASE CloseLocked \/ CloseEmpty
      <3>1. UNCHANGED file
        BY <2>5, Zenon DEF CloseLocked, CloseEmpty
      <3> QED
        BY <3>1, <2>1, <2>3, <1>0, Zenon DEF TypeOK
    <2>6. CASE CloseFlush
      <3>1. PICK full \in LimitOutcomes : WriteSection(full, TRUE)
        BY <2>6, Zenon DEF CloseFlush
      <3>2. tail \in SectionHeader
        BY <2>6, <1>0, Zenon DEF CloseFlush, Finalize, HeaderThere, Dumping
      <3> QED
        BY <3>1, <3>2, <2>1, <2>3, <1>0, WriteType, Zenon DEF TypeOK
    <2>7. CASE CloseInitial
      <3> DEFINE at0 == EmitSectionHeader(0, curval)
                 cloned == [h \in Handle |-> IF h \in Fixed
                              THEN <<[delta |-> 0, val |-> curval[h]]>> ELSE <<>>]
                 marked == [h \in Handle |-> IF h \in Fixed
                              THEN <<[idx |-> 0, time |-> 0, val |-> curval[h]]>> ELSE <<>>]
      <3>1. at0 \in SectionHeader
        BY <1>0, HeaderType DEF TypeOK
      <3>2. cloned \in [Handle -> Seq(Change)]
        <4>1. \A h \in Handle : [delta |-> 0, val |-> curval[h]] \in Change
          BY <1>0 DEF TypeOK, Change
        <4> QED
          BY <4>1
      <3>3. marked \in [Handle -> Seq(Mark)]
        <4>1. \A h \in Handle : [idx |-> 0, time |-> 0, val |-> curval[h]] \in Mark
          BY <1>0 DEF TypeOK, Mark
        <4> QED
          BY <4>1
      <3>4. <<0>> \in Seq(Nat) /\ 0 \in Nat
        OBVIOUS
      <3>5. Section(at0, 0, cloned, <<0>>) \in Block
        BY <3>1, <3>2, <3>4, <1>0, SectionType
      <3>6. curval' = curval
            /\ \/ tail' = at0 /\ UNCHANGED <<blocks, past>>
               \/ /\ tail' = NoSection
                  /\ blocks' = <<Section(at0, 0, cloned, <<0>>)>>
                  /\ past' = <<[times |-> <<0>>, marks |-> marked]>>
        BY <2>7, Zenon DEF CloseInitial
      <3> HIDE DEF at0, cloned, marked
      <3>7. CASE tail' = at0 /\ UNCHANGED <<blocks, past>>
        BY <3>7, <3>6, <3>1, <2>1, <2>3, <1>0, Zenon DEF TypeOK
      <3>8. CASE /\ tail' = NoSection
                 /\ blocks' = <<Section(at0, 0, cloned, <<0>>)>>
                 /\ past' = <<[times |-> <<0>>, marks |-> marked]>>
        <4>1. blocks' \in Seq(Block)
          BY <3>8, <3>5
        <4>2. past' \in Seq([times : Seq(Nat), marks : [Handle -> Seq(Mark)]])
          BY <3>8, <3>3, <3>4
        <4> QED
          BY <3>6, <3>8, <4>1, <4>2, <2>1, <2>3, <1>0, Zenon DEF TypeOK
      <3> QED
        BY <3>6, <3>7, <3>8, Zenon
    <2> QED
      BY <1>8, <2>4, <2>5, <2>6, <2>7, Zenon DEF Close
  <1>9. ASSUME UNCHANGED vars PROVE UNCHANGED <<file, hdr, phase>>
    BY <1>9, Zenon
  <1> QED
    BY <1>1, <1>2, <1>3, <1>4, <1>5, <1>6, <1>7, <1>8, <1>9, Zenon DEF Next

(* Truncating in fstWriterClose cuts off the header only: the truncation    *)
(* point is always the end of the last completed section.                   *)
LEMMA TruncStep == TypeOK /\ TruncAtEnd /\ [Next]_vars => TruncAtEnd'
  <1> SUFFICES ASSUME TypeOK, TruncAtEnd, [Next]_vars PROVE TruncAtEnd'
    OBVIOUS
  <1> USE DEF TruncAtEnd, TypeOK
  <1>1. ASSUME NEW full, NEW stop, WriteSection(full, stop) PROVE TruncAtEnd'
    BY <1>1 DEF WriteSection
  <1>2. ASSUME UNCHANGED <<blocks, section_header_truncpos>> PROVE TruncAtEnd'
    BY <1>2
  <1>3. CASE CloseTruncate
    <2>1. blocks' = SubSeq(blocks, 1, Len(blocks)) /\ section_header_truncpos' = Len(blocks)
      BY <1>3, Zenon DEF CloseTruncate
    <2>2. Len(blocks) \in Nat /\ Len(SubSeq(blocks, 1, Len(blocks))) = Len(blocks)
      OBVIOUS
    <2> QED
      BY <2>1, <2>2
  <1>4. CASE CloseInitial
    <2>1. CASE UNCHANGED <<blocks, section_header_truncpos>>
      BY <2>1, <1>2, Zenon
    <2>2. CASE section_header_truncpos' = 1 /\ \E b : blocks' = <<b>>
      <3>1. PICK b : blocks' = <<b>>
        BY <2>2
      <3> QED
        BY <3>1, <2>2
    <2> QED
      BY <1>4, <2>1, <2>2, Zenon DEF CloseInitial
  <1> QED
    BY <1>1, <1>2, <1>3, <1>4, Zenon
    DEF Next, CreateVar, EmitValueChange, EmitVariableLengthValueChange, BeginChange,
        EmitTimeChange, FirstTimeChange, PlainTimeChange, FlushTimeChange,
        EmptyFlushTimeChange, BeginTime, FlushContext, SetDumpSizeLimit, CrashInFlush,
        Close, CloseLocked, CloseFlush, CloseEmpty

(* Every reachable state of the writer and its file is well typed: indices, *)
(* time differences and record distances never become negative.             *)
THEOREM TypeCorrect == Spec => []TypeOK
  <1>1. TypeInv /\ [Next]_vars => TypeInv'
    BY FlagStep, CounterStep, BufferStep, FileStep, TruncStep, Zenon DEF TypeInv, TypeOK, HeaderThere
  <1>2. TypeInv => TypeOK
    BY DEF TypeInv
  <1> QED
    BY TypeInit, <1>1, <1>2, PTL DEF Spec

----------------------------------------------------------------------------
(* What is recorded can be read back.                                       *)

(* The size limit stops the writer by the flag it starts with.              *)
LimitStops == size_limit_locked => is_initial_time

(* Before the first time nothing has been written or queued.                *)
Unstarted ==
  is_initial_time /\ ~size_limit_locked =>
    /\ tchn = <<>> /\ times = <<>> /\ tchn_idx = 0 /\ ~flush_context_pending
    /\ blocks = <<>> /\ past = <<>> /\ tail = NoSection

(* A queued flush finds something to flush.                                 *)
PendingDirty == Dumping /\ flush_context_pending => Dirty

(* tchn_idx is the position of curtime in a table that decodes.             *)
TableDecodes ==
  Dumping => /\ Len(times) = tchn_idx + 1 /\ times[tchn_idx + 1] = curtime
             /\ DecodesTimes(tchn, times)

(* valpos[3] is the index of the latest record.                             *)
LatestIdx(ms) == IF ms = <<>> THEN 0 ELSE ms[Len(ms)].idx
LastIsLatest == \A h \in Handle : lastidx[h] = LatestIdx(marks[h])

ChainsDecode == Dumping => \A h \in Handle : DecodesChain(chain[h], marks[h], times)

DecodeInv ==
  /\ LimitStops /\ Unstarted /\ PendingDirty
  /\ TableDecodes /\ LastIsLatest /\ ChainsDecode
  /\ SectionsDecode

----------------------------------------------------------------------------
(* A time appended to a table that decodes, with its difference.            *)
LEMMA TimesGrow ==
  ASSUME NEW deltas \in Seq(Nat), NEW ts \in Seq(Nat), NEW t \in Nat, NEW d \in Nat,
         DecodesTimes(deltas, ts), ts # <<>>, t = d + ts[Len(ts)]
  PROVE  DecodesTimes(Append(deltas, d), Append(ts, t))
  BY DEF DecodesTimes

(* Chains decode with a longer table as they did before.                    *)
LEMMA TableGrows ==
  ASSUME NEW records \in Seq(Change), NEW ms \in Seq(Mark), NEW ts \in Seq(Nat),
         NEW t \in Nat, DecodesChain(records, ms, ts)
  PROVE  DecodesChain(records, ms, Append(ts, t))
  <1>1. ASSUME NEW k \in 1 .. Len(ms) PROVE ms[k].idx \in Nat
    <2>1. ms[k] \in Mark
      OBVIOUS
    <2> QED
      BY <2>1 DEF Mark
  <1>2. \A i \in Nat : i < Len(ts) =>
          i < Len(Append(ts, t)) /\ Append(ts, t)[i + 1] = ts[i + 1]
    OBVIOUS
  <1> QED
    BY <1>1, <1>2 DEF DecodesChain

(* A record appended to a chain that decodes, as far from its predecessor   *)
(* as its delta says.                                                       *)
LEMMA ChainGrows ==
  ASSUME NEW records \in Seq(Change), NEW ms \in Seq(Mark), NEW ts \in Seq(Nat),
         NEW r \in Change, NEW m \in Mark, DecodesChain(records, ms, ts),
         m.idx = r.delta + LatestIdx(ms), m.val = r.val,
         m.idx < Len(ts), m.time = ts[m.idx + 1]
  PROVE  DecodesChain(Append(records, r), Append(ms, m), ts)
  <1>1. Len(Append(records, r)) = Len(records) + 1 /\ Len(Append(ms, m)) = Len(ms) + 1
        /\ Len(records) = Len(ms)
    BY DEF DecodesChain
  <1>2. ASSUME NEW k \in 1 .. Len(records)
        PROVE  Append(records, r)[k] = records[k] /\ Append(ms, m)[k] = ms[k]
    BY <1>1
  <1>3. Append(records, r)[Len(records) + 1] = r /\ Append(ms, m)[Len(records) + 1] = m
    BY <1>1
  <1>4. LatestIdx(ms) = IF Len(ms) = 0 THEN 0 ELSE ms[Len(ms)].idx
    BY DEF LatestIdx
  <1> DEFINE R == Append(records, r)
             M == Append(ms, m)
             Good(k) == /\ M[k].idx = R[k].delta + (IF k = 1 THEN 0 ELSE M[k - 1].idx)
                        /\ M[k].val = R[k].val
                        /\ M[k].idx < Len(ts) /\ M[k].time = ts[M[k].idx + 1]
  <1>5. Good(Len(records) + 1)
    <2>1. CASE Len(records) = 0
      BY <2>1, <1>1, <1>3, <1>4 DEF Change, Mark
    <2>2. CASE Len(records) # 0
      <3>1. Len(records) \in 1 .. Len(records) /\ (Len(records) + 1) - 1 = Len(records)
        BY <2>2
      <3>2. M[(Len(records) + 1) - 1].idx = LatestIdx(ms)
        BY <3>1, <1>1, <1>2, <1>4, <2>2
      <3> QED
        BY <3>2, <2>2, <1>3
    <2> QED
      BY <2>1, <2>2
  <1>6. ASSUME NEW k \in 1 .. Len(records) PROVE Good(k)
    <2>1. R[k] = records[k] /\ M[k] = ms[k]
      BY <1>2
    <2>2. ASSUME k # 1 PROVE M[k - 1] = ms[k - 1]
      <3>1. k - 1 \in 1 .. Len(records)
        BY <2>2
      <3> HIDE DEF M
      <3> QED
        BY <3>1, <1>2 DEF M
    <2>3. /\ ms[k].idx = records[k].delta + (IF k = 1 THEN 0 ELSE ms[k - 1].idx)
          /\ ms[k].val = records[k].val
          /\ ms[k].idx < Len(ts) /\ ms[k].time = ts[ms[k].idx + 1]
      BY DEF DecodesChain
    <2> HIDE DEF R, M
    <2> QED
      BY <2>1, <2>2, <2>3
  <1>7. \A k \in 1 .. Len(R) : Good(k)
    <2>1. \A k \in 1 .. Len(R) : k \in 1 .. Len(records) \/ k = Len(records) + 1
      BY <1>1
    <2> HIDE DEF Good, R, M
    <2> QED
      BY <2>1, <1>5, <1>6
  <1> QED
    BY <1>1, <1>7 DEF DecodesChain

----------------------------------------------------------------------------
(* The cases of a step that matter here: one that changes nothing these     *)
(* invariants speak of, a record appended, and the rest as it is.           *)
Kept == UNCHANGED <<phase, clock, is_initial_time, size_limit_locked, blocks, past, tail>>
Steady == Kept /\ UNCHANGED <<vchg, flush_context_pending>>
Recorded == Kept /\ UNCHANGED flush_context_pending
            /\ \E h \in Handle, v \in Value : AppendChange(h, v)
Queued == Kept /\ UNCHANGED vchg /\ tchn_idx > 1 /\ (Dirty \/ "flush_empty" \in Usage)
Stopped == UNCHANGED <<clock, vchg, is_initial_time, size_limit_locked, blocks, past, tail,
                       flush_context_pending>> /\ phase' = "crashed"
TimeChanged == \E tim \in 0 .. MaxTime : EmitTimeChange(tim)

LEMMA NextCases ==
  [Next]_vars => Steady \/ Recorded \/ Queued \/ Stopped \/ TimeChanged \/ Close
  <1> SUFFICES ASSUME [Next]_vars
               PROVE  Steady \/ Recorded \/ Queued \/ Stopped \/ TimeChanged \/ Close
    OBVIOUS
  <1>1. ASSUME NEW alias \in 0 .. MaxHandle, CreateVar(alias) PROVE Steady
    BY <1>1, Zenon DEF CreateVar, Steady, Kept
  <1>2. ASSUME NEW h \in Handle, NEW v \in Value,
               EmitValueChange(h, v) \/ EmitVariableLengthValueChange(h, v)
        PROVE  Steady \/ Recorded
    BY <1>2, Zenon DEF EmitValueChange, EmitVariableLengthValueChange, BeginChange,
                       Steady, Recorded, Kept
  <1>3. ASSUME FlushContext PROVE Queued
    BY <1>3, Zenon DEF FlushContext, Queued, Kept
  <1>4. ASSUME NEW limit \in BOOLEAN, SetDumpSizeLimit(limit) PROVE Steady
    BY <1>4, Zenon DEF SetDumpSizeLimit, Steady, Kept
  <1>5. ASSUME CrashInFlush PROVE Stopped
    BY <1>5, Zenon DEF CrashInFlush, Stopped
  <1>6. ASSUME UNCHANGED vars PROVE Steady
    BY <1>6, Zenon DEF Steady, Kept
  <1> QED
    BY <1>1, <1>2, <1>3, <1>4, <1>5, <1>6, Zenon DEF Next, TimeChanged

(* Closing ends the dumping.                                                *)
LEMMA CloseEnds == Close => ~Dumping'
  BY Zenon DEF Close, CloseTruncate, CloseLocked, CloseFlush, CloseEmpty, CloseInitial,
               Finalize, Dumping

(* A file closed before the first time is at its limit or is not started.   *)
LEMMA CloseInitialFlags ==
  CloseInitial => (is_initial_time' <=> size_limit_locked')
  <1> SUFFICES ASSUME CloseInitial PROVE is_initial_time' <=> size_limit_locked'
    OBVIOUS
  <1>1. CASE Fixed = {}
    <2>1. ~is_initial_time' /\ size_limit_locked' = size_limit_locked /\ ~size_limit_locked
      BY <1>1, Zenon DEF CloseInitial
    <2> QED
      BY <2>1, Zenon
  <1>2. CASE Fixed # {}
    <2>1. PICK full \in LimitOutcomes : size_limit_locked' = full /\ is_initial_time' = full
      BY <1>2, Zenon DEF CloseInitial
    <2> QED
      BY <2>1, Zenon
  <1> QED
    BY <1>1, <1>2, Zenon

(* A flush that is due finds something to flush.                            *)
LEMMA DueIsDirty ==
  TypeOK /\ Dumping /\ PendingDirty /\ FlushDue => Dirty
  <1> SUFFICES ASSUME TypeOK, Dumping, PendingDirty, FlushDue PROVE Dirty
    OBVIOUS
  <1>1. vchg_siz >= BreakSize => Dirty
    BY BoundsAssumption DEF BoundsAssumption, Dirty, TypeOK
  <1> QED
    BY <1>1, Zenon DEF FlushDue, PendingDirty

LEMMA LimitStep == LimitStops /\ [Next]_vars => LimitStops'
  <1> SUFFICES ASSUME LimitStops, [Next]_vars PROVE LimitStops'
    OBVIOUS
  <1>1. CASE Steady \/ Recorded \/ Queued \/ Stopped
    BY <1>1, Zenon DEF Steady, Recorded, Queued, Stopped, Kept, LimitStops
  <1>2. ASSUME NEW full, NEW stop, WriteSection(full, stop) PROVE LimitStops'
    BY <1>2, Zenon DEF WriteSection, LimitReached, LimitStops
  <1>3. CASE TimeChanged
    BY <1>2, <1>3, Zenon DEF TimeChanged, EmitTimeChange, FirstTimeChange, PlainTimeChange,
         FlushTimeChange, EmptyFlushTimeChange, BeginTime, LimitStops
  <1>4. CASE Close
    <2>1. CASE CloseInitial
      BY <2>1, CloseInitialFlags, Zenon DEF LimitStops
    <2> QED
      BY <1>2, <1>4, <2>1, Zenon DEF Close, CloseTruncate, CloseLocked, CloseFlush,
                                     CloseEmpty, LimitStops
  <1> QED
    BY <1>1, <1>3, <1>4, NextCases, Zenon

LEMMA UnstartedStep == TypeOK /\ LimitStops /\ Unstarted /\ [Next]_vars => Unstarted'
  <1> SUFFICES ASSUME TypeOK, LimitStops, Unstarted, [Next]_vars PROVE Unstarted'
    OBVIOUS
  <1>1. CASE Steady \/ Recorded \/ Stopped
    BY <1>1, Zenon DEF Steady, Recorded, Stopped, Kept, Unstarted
  <1>2. ASSUME NEW full, NEW stop, WriteSection(full, stop), ~is_initial_time
        PROVE  Unstarted'
    BY <1>2, Zenon DEF WriteSection, LimitReached, Unstarted
  <1>3. CASE Queued
    <2>1. tchn_idx # 0
      BY <1>3 DEF Queued
    <2> QED
      BY <1>3, <2>1, Zenon DEF Queued, Kept, Unstarted
  <1>4. CASE TimeChanged
    BY <1>2, <1>4, Zenon DEF TimeChanged, EmitTimeChange, FirstTimeChange, PlainTimeChange,
         FlushTimeChange, EmptyFlushTimeChange, BeginTime, Unstarted
  <1>5. CASE Close
    <2>1. CASE CloseTruncate
      BY <2>1, Zenon DEF CloseTruncate, Truncatable, Unstarted
    <2>2. CASE CloseLocked \/ CloseEmpty
      BY <2>2, Zenon DEF CloseLocked, CloseEmpty, Unstarted
    <2>3. CASE CloseFlush
      BY <2>3, <1>2, Zenon DEF CloseFlush
    <2>4. CASE CloseInitial
      BY <2>4, CloseInitialFlags, Zenon DEF Unstarted
    <2> QED
      BY <1>5, <2>1, <2>2, <2>3, <2>4, Zenon DEF Close
  <1> QED
    BY <1>1, <1>3, <1>4, <1>5, NextCases, Zenon

(* A queued flush stays due: only a flush empties the buffer.               *)
LEMMA PendingStep ==
  ASSUME "flush_empty" \notin Usage
  PROVE  TypeOK /\ Unstarted /\ PendingDirty /\ [Next]_vars => PendingDirty'
  <1> SUFFICES ASSUME TypeOK, Unstarted, PendingDirty, [Next]_vars PROVE PendingDirty'
    OBVIOUS
  <1>1. CASE Steady
    BY <1>1, Zenon DEF Steady, Kept, PendingDirty, Dumping, Dirty
  <1>2. CASE Recorded
    <2>1. vchg_siz' = vchg_siz + 1 /\ (Dumping' => Dumping)
          /\ flush_context_pending' = flush_context_pending
      BY <1>2, Zenon DEF Recorded, Kept, AppendChange, Dumping
    <2>2. Dirty => Dirty'
      BY <2>1 DEF TypeOK, Dirty
    <2> QED
      BY <2>1, <2>2, Zenon DEF PendingDirty
  <1>3. CASE Queued
    BY <1>3, Zenon DEF Queued, Kept, PendingDirty, Dirty
  <1>4. CASE Stopped
    <2>1. ~Dumping'
      BY <1>4 DEF Stopped, Dumping
    <2> QED
      BY <2>1, Zenon DEF PendingDirty
  <1>5. CASE TimeChanged
    <2>1. PICK tim \in 0 .. MaxTime : EmitTimeChange(tim)
      BY <1>5, Zenon DEF TimeChanged
    <2>2. CASE FirstTimeChange(tim)
      BY <2>2, Zenon DEF FirstTimeChange, Unstarted, PendingDirty
    <2>3. CASE PlainTimeChange(tim)
      BY <2>3, Zenon DEF PlainTimeChange, BeginTime, FlushDue, PendingDirty
    <2>4. CASE FlushTimeChange(tim)
      BY <2>4, Zenon DEF FlushTimeChange, PendingDirty
    <2>5. CASE EmptyFlushTimeChange(tim)
      BY <2>5, Zenon DEF EmptyFlushTimeChange, PendingDirty
    <2> QED
      BY <2>1, <2>2, <2>3, <2>4, <2>5, Zenon DEF EmitTimeChange
  <1>6. CASE Close
    BY <1>6, CloseEnds, Zenon DEF PendingDirty
  <1> QED
    BY <1>1, <1>2, <1>3, <1>4, <1>5, <1>6, NextCases, Zenon

(* The time table decodes after every step; a due flush is never empty, so  *)
(* curtime is repeated at the start of a table only.                        *)
LEMMA TableStep ==
  TypeOK /\ Unstarted /\ PendingDirty /\ TableDecodes /\ [Next]_vars => TableDecodes'
  <1> SUFFICES ASSUME TypeOK, Unstarted, PendingDirty, TableDecodes, [Next]_vars
               PROVE  TableDecodes'
    OBVIOUS
  <1>0. curtime \in Nat /\ tchn \in Seq(Nat) /\ times \in Seq(Nat) /\ tchn_idx \in Nat
    BY BoundsAssumption DEF BoundsAssumption, TypeOK
  <1>1. CASE Steady \/ Recorded \/ Queued
    <2>1. Kept
      BY <1>1, Zenon DEF Steady, Recorded, Queued
    <2> QED
      BY <2>1, Zenon DEF Kept, TableDecodes, Dumping, DecodesTimes
  <1>2. CASE Stopped
    <2>1. ~Dumping'
      BY <1>2 DEF Stopped, Dumping
    <2> QED
      BY <2>1, Zenon DEF TableDecodes
  <1>3. CASE TimeChanged
    <2>1. PICK tim \in 0 .. MaxTime : EmitTimeChange(tim)
      BY <1>3, Zenon DEF TimeChanged
    <2>2. tim \in Nat /\ curtime <= tim /\ curtime' = tim
      <3>1. BeginTime(tim)
        BY <2>1, Zenon DEF EmitTimeChange, FirstTimeChange, PlainTimeChange,
           FlushTimeChange, EmptyFlushTimeChange
      <3> QED
        BY <3>1, BoundsAssumption DEF BeginTime, BoundsAssumption
    <2>3. tim - curtime \in Nat /\ tim = (tim - curtime) + curtime
      BY <2>2, <1>0
    <2>4. CASE FirstTimeChange(tim)
      <3>1. tchn' = Append(<<>>, tim) /\ times' = Append(<<>>, tim) /\ tchn_idx' = 0
        BY <2>4, Zenon DEF FirstTimeChange, Unstarted
      <3> QED
        BY <3>1, <2>2 DEF TableDecodes, DecodesTimes
    <2>5. CASE PlainTimeChange(tim)
      <3>1. tchn' = Append(tchn, tim - curtime) /\ times' = Append(times, tim)
            /\ tchn_idx' = tchn_idx + 1 /\ Dumping
        BY <2>5, Zenon DEF PlainTimeChange, BeginTime, Dumping
      <3>2. Len(times) = tchn_idx + 1 /\ times[tchn_idx + 1] = curtime
            /\ DecodesTimes(tchn, times) /\ times # <<>>
        BY <3>1, <1>0 DEF TableDecodes
      <3>3. DecodesTimes(tchn', times')
        BY <3>1, <3>2, <2>2, <2>3, <1>0, TimesGrow
      <3> QED
        BY <3>1, <3>2, <3>3, <2>2, <1>0 DEF TableDecodes
    <2>6. CASE FlushTimeChange(tim)
      <3>1. tchn' = <<curtime, tim - curtime>> /\ times' = <<curtime, tim>> /\ tchn_idx' = 1
        BY <2>6, Zenon DEF FlushTimeChange
      <3>2. DecodesTimes(<<curtime, tim - curtime>>, <<curtime, tim>>)
        <4>1. curtime = curtime + 0
          BY <1>0
        <4>2. \A k \in 1 .. 2 : k = 1 \/ k = 2
          OBVIOUS
        <4> QED
          BY <4>1, <4>2, <2>2, <2>3, <1>0 DEF DecodesTimes
      <3>3. Len(times') = 2 /\ times'[2] = curtime'
        BY <3>1, <2>2
      <3> QED
        BY <3>1, <3>2, <3>3, <2>2 DEF TableDecodes
    <2>7. CASE EmptyFlushTimeChange(tim)
      BY <2>7, DueIsDirty, Zenon DEF EmptyFlushTimeChange, BeginTime, Dumping
    <2> QED
      BY <2>1, <2>4, <2>5, <2>6, <2>7, Zenon DEF EmitTimeChange
  <1>4. CASE Close
    BY <1>4, CloseEnds, Zenon DEF TableDecodes
  <1> QED
    BY <1>1, <1>2, <1>3, <1>4, NextCases, Zenon

(* Time changes and closing keep the buffer or empty it.                    *)
LEMMA BufferCases == TimeChanged \/ Close => UNCHANGED vchg \/ EmptyBuffer
  BY Zenon DEF TimeChanged, EmitTimeChange, FirstTimeChange, PlainTimeChange,
     FlushTimeChange, EmptyFlushTimeChange, Close, CloseTruncate, CloseLocked, CloseFlush,
     CloseEmpty, CloseInitial, WriteSection

LEMMA EmptyLatest == EmptyBuffer => LastIsLatest'
  BY DEF EmptyBuffer, EmptyChains, LastIsLatest, LatestIdx

LEMMA LatestStep == TypeOK /\ LastIsLatest /\ [Next]_vars => LastIsLatest'
  <1> SUFFICES ASSUME TypeOK, LastIsLatest, [Next]_vars PROVE LastIsLatest'
    OBVIOUS
  <1>1. ASSUME UNCHANGED vchg PROVE LastIsLatest'
    BY <1>1 DEF LastIsLatest, LatestIdx
  <1>2. CASE Steady \/ Queued \/ Stopped
    BY <1>1, <1>2, Zenon DEF Steady, Queued, Stopped
  <1>3. CASE Recorded
    <2>1. PICK h \in Handle, v \in Value : AppendChange(h, v)
      BY <1>3, Zenon DEF Recorded
    <2>2. ASSUME NEW g \in Handle, g # h PROVE lastidx'[g] = LatestIdx(marks'[g])
      BY <2>1, <2>2 DEF AppendChange, LastIsLatest, TypeOK
    <2>3. lastidx'[h] = tchn_idx
          /\ marks'[h] = Append(marks[h], [idx |-> tchn_idx, time |-> curtime, val |-> v])
      BY <2>1 DEF AppendChange, TypeOK
    <2>4. marks[h] \in Seq(Mark)
      BY DEF TypeOK
    <2>5. lastidx'[h] = LatestIdx(marks'[h])
      BY <2>3, <2>4 DEF LatestIdx
    <2> QED
      BY <2>2, <2>5 DEF LastIsLatest
  <1>4. CASE TimeChanged \/ Close
    BY <1>1, <1>4, BufferCases, EmptyLatest, Zenon
  <1> QED
    BY <1>2, <1>3, <1>4, NextCases, Zenon

LEMMA EmptyDecodes == ASSUME NEW ts PROVE DecodesChain(<<>>, <<>>, ts)
  BY DEF DecodesChain

(* Every chain of the open section decodes after every step.                *)
LEMMA ChainsStep ==
  TypeOK /\ IndexBound /\ PendingDirty /\ TableDecodes /\ LastIsLatest /\ ChainsDecode
    /\ [Next]_vars => ChainsDecode'
  <1> SUFFICES ASSUME TypeOK, IndexBound, PendingDirty, TableDecodes, LastIsLatest,
                      ChainsDecode, [Next]_vars
               PROVE  ChainsDecode'
    OBVIOUS
  <1>1. CASE Steady \/ Queued
    <2>1. Kept /\ UNCHANGED vchg
      BY <1>1, Zenon DEF Steady, Queued
    <2>2. chain' = chain /\ marks' = marks /\ times' = times /\ (Dumping' => Dumping)
      BY <2>1, Zenon DEF Kept, Dumping
    <2> QED
      BY <2>2, Zenon DEF ChainsDecode, DecodesChain
  <1>2. CASE Recorded
    <2>1. PICK h \in Handle, v \in Value : AppendChange(h, v)
      BY <1>2, Zenon DEF Recorded
    <2>2. times' = times /\ (Dumping' => Dumping)
      BY <1>2, Zenon DEF Recorded, Kept, Dumping
    <2> SUFFICES ASSUME Dumping, NEW g \in Handle
                 PROVE  DecodesChain(chain'[g], marks'[g], times)
      BY <2>2, Zenon DEF ChainsDecode
    <2>3. CASE g # h
      <3>1. chain'[g] = chain[g] /\ marks'[g] = marks[g]
        BY <2>1, <2>3 DEF AppendChange, TypeOK
      <3> QED
        BY <3>1, Zenon DEF ChainsDecode
    <2>4. CASE g = h
      <3> DEFINE r == [delta |-> tchn_idx - lastidx[h], val |-> v]
                 m == [idx |-> tchn_idx, time |-> curtime, val |-> v]
      <3>1. chain'[g] = Append(chain[h], r) /\ marks'[g] = Append(marks[h], m)
        BY <2>1, <2>4 DEF AppendChange, TypeOK
      <3>2. r \in Change /\ m \in Mark
        BY BoundsAssumption DEF BoundsAssumption, TypeOK, IndexBound, Change, Mark
      <3>3. m.idx = r.delta + LatestIdx(marks[h]) /\ m.val = r.val
        <4>1. lastidx[h] = LatestIdx(marks[h]) /\ lastidx[h] \in Nat /\ tchn_idx \in Nat
          BY DEF LastIsLatest, TypeOK
        <4> QED
          BY <4>1
      <3>4. m.idx < Len(times) /\ m.time = times[m.idx + 1]
        BY DEF TableDecodes, TypeOK
      <3>5. chain[h] \in Seq(Change) /\ marks[h] \in Seq(Mark) /\ times \in Seq(Nat)
            /\ DecodesChain(chain[h], marks[h], times)
        BY DEF TypeOK, ChainsDecode
      <3> HIDE DEF r, m
      <3>6. DecodesChain(Append(chain[h], r), Append(marks[h], m), times)
        BY <3>2, <3>3, <3>4, <3>5, ChainGrows
      <3> QED
        BY <3>1, <3>6, Zenon
    <2> QED
      BY <2>3, <2>4
  <1>3. CASE Stopped
    <2>1. ~Dumping'
      BY <1>3 DEF Stopped, Dumping
    <2> QED
      BY <2>1, Zenon DEF ChainsDecode
  <1>4. CASE TimeChanged
    <2>1. PICK tim \in 0 .. MaxTime : EmitTimeChange(tim)
      BY <1>4, Zenon DEF TimeChanged
    <2>2. ASSUME EmptyBuffer PROVE ChainsDecode'
      <3>1. \A h \in Handle : chain'[h] = <<>> /\ marks'[h] = <<>>
        BY <2>2 DEF EmptyBuffer, EmptyChains
      <3> QED
        BY <3>1, EmptyDecodes DEF ChainsDecode
    <2>3. CASE FirstTimeChange(tim)
      BY <2>2, <2>3, Zenon DEF FirstTimeChange
    <2>4. CASE FlushTimeChange(tim)
      BY <2>2, <2>4, Zenon DEF FlushTimeChange, WriteSection
    <2>5. CASE PlainTimeChange(tim)
      <3>1. chain' = chain /\ marks' = marks /\ times' = Append(times, tim) /\ Dumping
        BY <2>5, Zenon DEF PlainTimeChange, BeginTime, Dumping
      <3>2. tim \in Nat /\ times \in Seq(Nat)
        BY BoundsAssumption DEF BoundsAssumption, TypeOK
      <3>3. ASSUME NEW h \in Handle
            PROVE  DecodesChain(chain'[h], marks'[h], times')
        <4>1. chain[h] \in Seq(Change) /\ marks[h] \in Seq(Mark)
              /\ DecodesChain(chain[h], marks[h], times)
          BY <3>1 DEF TypeOK, ChainsDecode
        <4>2. DecodesChain(chain[h], marks[h], Append(times, tim))
          BY <4>1, <3>2, TableGrows
        <4> QED
          BY <3>1, <4>2
      <3> QED
        BY <3>3, Zenon DEF ChainsDecode
    <2>6. CASE EmptyFlushTimeChange(tim)
      BY <2>6, DueIsDirty, Zenon DEF EmptyFlushTimeChange, BeginTime, Dumping
    <2> QED
      BY <2>1, <2>3, <2>4, <2>5, <2>6, Zenon DEF EmitTimeChange
  <1>5. CASE Close
    BY <1>5, CloseEnds, Zenon DEF ChainsDecode
  <1> QED
    BY <1>1, <1>2, <1>3, <1>4, <1>5, NextCases, Zenon

(* A section written out of a buffer that decodes, decodes.                 *)
LEMMA WriteDecodes ==
  ASSUME TypeOK, Dumping, TableDecodes, ChainsDecode, SectionsDecode,
         NEW full, NEW stop, WriteSection(full, stop)
  PROVE  SectionsDecode'
  <1> DEFINE b == Section(tail, curtime, chain, tchn)
             p == [times |-> times, marks |-> marks]
  <1>1. blocks' = Append(blocks, b) /\ past' = Append(past, p)
    BY Zenon DEF WriteSection
  <1>2. b.tchn = tchn /\ b.chain = chain /\ p.times = times /\ p.marks = marks
    BY DEF Section
  <1>3. DecodesTimes(b.tchn, p.times)
        /\ \A h \in Handle : DecodesChain(b.chain[h], p.marks[h], p.times)
    BY <1>2, Zenon DEF TableDecodes, ChainsDecode
  <1> HIDE DEF b, p
  <1>4. Len(past) = Len(blocks) /\ blocks \in Seq(Block)
        /\ past \in Seq([times : Seq(Nat), marks : [Handle -> Seq(Mark)]])
    BY DEF SectionsDecode, TypeOK
  <1>5. Len(past') = Len(blocks') /\ Len(blocks') = Len(blocks) + 1
    BY <1>1, <1>4
  <1>6. ASSUME NEW i \in 1 .. Len(blocks')
        PROVE  /\ DecodesTimes(blocks'[i].tchn, past'[i].times)
               /\ \A h \in Handle :
                    DecodesChain(blocks'[i].chain[h], past'[i].marks[h], past'[i].times)
    <2>1. CASE i \in 1 .. Len(blocks)
      <3>1. blocks'[i] = blocks[i] /\ past'[i] = past[i]
        BY <1>1, <1>4, <2>1
      <3> QED
        BY <2>1, <3>1, Zenon DEF SectionsDecode
    <2>2. CASE i = Len(blocks) + 1
      <3>1. blocks'[i] = b /\ past'[i] = p
        BY <1>1, <1>4, <2>2
      <3> QED
        BY <3>1, <1>3, Zenon
    <2> QED
      BY <2>1, <2>2, <1>5, <1>4
  <1> QED
    BY <1>5, <1>6, Zenon DEF SectionsDecode

LEMMA SectionsStep ==
  TypeOK /\ TruncAtEnd /\ TableDecodes /\ ChainsDecode /\ SectionsDecode /\ [Next]_vars
    => SectionsDecode'
  <1> SUFFICES ASSUME TypeOK, TruncAtEnd, TableDecodes, ChainsDecode, SectionsDecode,
                      [Next]_vars
               PROVE  SectionsDecode'
    OBVIOUS
  <1>1. ASSUME UNCHANGED <<blocks, past>> PROVE SectionsDecode'
    BY <1>1 DEF SectionsDecode
  <1>2. CASE Steady \/ Recorded \/ Queued \/ Stopped
    <2>1. UNCHANGED <<blocks, past>>
      BY <1>2, Zenon DEF Steady, Recorded, Queued, Stopped, Kept
    <2> QED
      BY <1>1, <2>1, Zenon
  <1>3. CASE TimeChanged
    <2>1. PICK tim \in 0 .. MaxTime : EmitTimeChange(tim)
      BY <1>3, Zenon DEF TimeChanged
    <2>2. CASE FlushTimeChange(tim)
      <3>1. Dumping
        BY <2>2, Zenon DEF FlushTimeChange, BeginTime, Dumping
      <3> QED
        BY <2>2, <3>1, WriteDecodes, Zenon DEF FlushTimeChange
    <2>3. CASE ~FlushTimeChange(tim)
      BY <2>1, <2>3, <1>1, Zenon DEF EmitTimeChange, FirstTimeChange, PlainTimeChange,
         EmptyFlushTimeChange
    <2> QED
      BY <2>2, <2>3
  <1>4. CASE Close
    <2>1. CASE CloseTruncate
      <3>1. blocks' = SubSeq(blocks, 1, Len(blocks)) /\ past' = past
        BY <2>1, Zenon DEF CloseTruncate, TruncAtEnd
      <3>2. blocks \in Seq(Block)
        BY DEF TypeOK
      <3>3. SubSeq(blocks, 1, Len(blocks)) = blocks
        BY <3>2
      <3> QED
        BY <1>1, <3>1, <3>3, Zenon
    <2>2. CASE CloseLocked \/ CloseEmpty
      BY <2>2, <1>1, Zenon DEF CloseLocked, CloseEmpty
    <2>3. CASE CloseFlush
      <3>1. Dumping
        BY <2>3, Zenon DEF CloseFlush, Finalize, Dumping
      <3> QED
        BY <2>3, <3>1, WriteDecodes, Zenon DEF CloseFlush
    <2>4. CASE CloseInitial
      <3> DEFINE cloned == [h \in Handle |-> IF h \in Fixed
                              THEN <<[delta |-> 0, val |-> curval[h]]>> ELSE <<>>]
                 marked == [h \in Handle |-> IF h \in Fixed
                              THEN <<[idx |-> 0, time |-> 0, val |-> curval[h]]>> ELSE <<>>]
                 b == Section(EmitSectionHeader(0, curval), 0, cloned, <<0>>)
                 p == [times |-> <<0>>, marks |-> marked]
      <3>1. \/ UNCHANGED <<blocks, past>>
            \/ blocks' = <<b>> /\ past' = <<p>>
        BY <2>4, Zenon DEF CloseInitial
      <3>2. DecodesTimes(<<0>>, <<0>>)
        BY DEF DecodesTimes
      <3>3. ASSUME NEW h \in Handle PROVE DecodesChain(cloned[h], marked[h], <<0>>)
        BY DEF DecodesChain
      <3>4. b.tchn = <<0>> /\ b.chain = cloned /\ p.times = <<0>> /\ p.marks = marked
        BY DEF Section
      <3> HIDE DEF cloned, marked, b, p
      <3>5. ASSUME blocks' = <<b>>, past' = <<p>> PROVE SectionsDecode'
        <4>1. Len(blocks') = 1 /\ Len(past') = 1 /\ blocks'[1] = b /\ past'[1] = p
          BY <3>5
        <4>2. \A i \in 1 .. 1 : i = 1
          OBVIOUS
        <4> QED
          BY <4>1, <4>2, <3>2, <3>3, <3>4, Zenon DEF SectionsDecode
      <3> QED
        BY <3>1, <3>5, <1>1, Zenon
    <2> QED
      BY <1>4, <2>1, <2>2, <2>3, <2>4, Zenon DEF Close
  <1> QED
    BY <1>2, <1>3, <1>4, NextCases, Zenon

----------------------------------------------------------------------------
LEMMA DecodeInit == Init => DecodeInv
  <1> SUFFICES ASSUME Init PROVE DecodeInv
    OBVIOUS
  <1>1. LimitStops /\ Unstarted
    BY Zenon DEF Init, LimitStops, Unstarted
  <1>2. ~Dumping
    BY Zenon DEF Init, Dumping
  <1>3. LastIsLatest
    BY DEF Init, LastIsLatest, LatestIdx, EmptyChains
  <1>4. SectionsDecode
    BY DEF Init, SectionsDecode
  <1> QED
    BY <1>1, <1>2, <1>3, <1>4, Zenon DEF DecodeInv, PendingDirty, TableDecodes, ChainsDecode

LEMMA DecodeStep ==
  ASSUME "flush_empty" \notin Usage
  PROVE  TypeInv /\ DecodeInv /\ [Next]_vars => DecodeInv'
  BY LimitStep, UnstartedStep, PendingStep, TableStep, LatestStep, ChainsStep, SectionsStep,
     Zenon DEF TypeInv, DecodeInv

LEMMA TypeInvCorrect == Spec => []TypeInv
  <1>1. TypeInv /\ [Next]_vars => TypeInv'
    BY FlagStep, CounterStep, BufferStep, FileStep, TruncStep, Zenon
    DEF TypeInv, TypeOK, HeaderThere
  <1> QED
    BY TypeInit, <1>1, PTL DEF Spec

(* Whatever the simulator emits, in whatever sections it ends up, the       *)
(* readers' running sums of every completed section give back the times, the*)
(* positions and the values that were emitted.                              *)
THEOREM SectionsAlwaysDecode ==
  ASSUME "flush_empty" \notin Usage
  PROVE  Spec => []SectionsDecode
  <1>1. DecodeInv => SectionsDecode
    BY DEF DecodeInv
  <1> QED
    BY TypeInvCorrect, DecodeInit, DecodeStep, <1>1, PTL DEF Spec

(* The same of the section in memory, at every moment: whenever it is       *)
(* written, it decodes.                                                     *)
THEOREM BufferAlwaysDecodes ==
  ASSUME "flush_empty" \notin Usage
  PROVE  Spec => []BufferDecodes
  <1>1. DecodeInv => BufferDecodes
    BY Zenon DEF DecodeInv, TableDecodes, ChainsDecode, BufferDecodes
  <1> QED
    BY TypeInvCorrect, DecodeInit, DecodeStep, <1>1, PTL DEF Spec

----------------------------------------------------------------------------
(* A header is the last thing in the file whenever sections are written.    *)
HeaderAtEnd == Dumping => section_header_only

(* Without a record in vchg_mem no handle has a chain.                      *)
CleanIsEmpty ==
  Dumping => vchg_siz >= 1 /\ (vchg_siz = 1 => chain = EmptyChains)

SectionsCounted == phase = "open" => secnum = Len(blocks)

(* No section is written to any more when the limit is reached.             *)
LimitEndsFile == phase = "open" /\ size_limit_locked => tail = NoSection

(* Sections end before the current time, and handles are only added.        *)
SectionsBehind ==
  phase = "open" => \A i \in 1 .. Len(blocks) :
    blocks[i].end <= curtime /\ blocks[i].maxhandle <= maxhandle

CloseInv ==
  /\ HeaderAtEnd /\ CleanIsEmpty /\ SectionsCounted /\ LimitEndsFile /\ SectionsBehind
  /\ NothingLeftBehind /\ HeaderDescribesFile /\ ClosedFileIsComplete

----------------------------------------------------------------------------
(* The cases of a step that matter here: declarations, value changes and    *)
(* requests leave the file alone, and the rest as it is.                    *)
Written == <<section_header_only, section_header_truncpos, size_limit_locked,
             is_initial_time, secnum, blocks, tail>>
Asked ==
  /\ phase = "open" /\ phase' = phase /\ UNCHANGED Written /\ UNCHANGED <<curtime, firsttime>>
  /\ maxhandle' \in {maxhandle, maxhandle + 1}
  /\ UNCHANGED vchg \/ vchg_siz' = vchg_siz + 1
Idle == UNCHANGED vars

LEMMA CloseCases == [Next]_vars => Idle \/ Asked \/ CrashInFlush \/ TimeChanged \/ Close
  <1> SUFFICES ASSUME [Next]_vars
               PROVE  Idle \/ Asked \/ CrashInFlush \/ TimeChanged \/ Close
    OBVIOUS
  <1>1. ASSUME NEW alias \in 0 .. MaxHandle, CreateVar(alias) PROVE Asked
    <2>1. maxhandle' = maxhandle \/ maxhandle' = maxhandle + 1
      BY <1>1, Zenon DEF CreateVar
    <2> QED
      BY <1>1, <2>1, Zenon DEF CreateVar, Asked, Written
  <1>2. ASSUME NEW h \in Handle, NEW v \in Value,
               EmitValueChange(h, v) \/ EmitVariableLengthValueChange(h, v)
        PROVE  Asked
    BY <1>2, Zenon DEF EmitValueChange, EmitVariableLengthValueChange, BeginChange,
                       AppendChange, Asked, Written
  <1>3. ASSUME FlushContext PROVE Asked
    BY <1>3, Zenon DEF FlushContext, Asked, Written
  <1>4. ASSUME NEW limit \in BOOLEAN, SetDumpSizeLimit(limit) PROVE Asked
    BY <1>4, Zenon DEF SetDumpSizeLimit, Asked, Written
  <1> QED
    BY <1>1, <1>2, <1>3, <1>4, Zenon DEF Next, TimeChanged, Idle

(* What was true of a closed file stays true, for nothing happens to it.    *)
LEMMA ClosedIsFinal == phase = "closed" /\ [Next]_vars => Idle
  <1> SUFFICES ASSUME phase = "closed", Next PROVE FALSE
    BY DEF Idle
  <1>1. phase = "open"
    BY Zenon DEF Next, CreateVar, EmitValueChange, EmitVariableLengthValueChange,
       BeginChange, EmitTimeChange, FirstTimeChange, PlainTimeChange, FlushTimeChange,
       EmptyFlushTimeChange, BeginTime, FlushContext, SetDumpSizeLimit, CrashInFlush,
       Close, CloseTruncate, CloseLocked, CloseFlush, CloseEmpty, CloseInitial, Finalize
  <1> QED
    BY <1>1

(* Only closing closes.                                                     *)
LEMMA OnlyCloseCloses ==
  [Next]_vars /\ phase' = "closed" => Idle \/ Close
  <1> SUFFICES ASSUME [Next]_vars, phase' = "closed" PROVE Idle \/ Close
    OBVIOUS
  <1>1. CASE TimeChanged
    <2>1. phase' = "open"
      BY <1>1, Zenon DEF TimeChanged, EmitTimeChange, FirstTimeChange, PlainTimeChange,
         FlushTimeChange, EmptyFlushTimeChange, BeginTime
    <2> QED
      BY <2>1
  <1>2. CASE Asked
    <2>1. phase' = "open"
      BY <1>2, Zenon DEF Asked
    <2> QED
      BY <2>1
  <1>3. CASE CrashInFlush
    BY <1>3 DEF CrashInFlush
  <1> QED
    BY <1>1, <1>2, <1>3, CloseCases, Zenon

LEMMA ClosePhase == Close => phase = "open" /\ phase' = "closed"
  BY Zenon DEF Close, CloseTruncate, CloseLocked, CloseFlush, CloseEmpty, CloseInitial,
               Finalize

----------------------------------------------------------------------------
(* While dumping: a header at the end of the file, and a buffer without     *)
(* records is empty.                                                        *)
LEMMA HeaderAtEndStep == HeaderAtEnd /\ [Next]_vars => HeaderAtEnd'
  <1> SUFFICES ASSUME HeaderAtEnd, [Next]_vars, Dumping' PROVE section_header_only'
    BY DEF HeaderAtEnd
  <1>1. CASE Idle \/ Asked
    BY <1>1, Zenon DEF Idle, Asked, Written, HeaderAtEnd, Dumping
  <1>2. CASE CrashInFlush
    BY <1>2 DEF CrashInFlush, Dumping
  <1>3. CASE TimeChanged
    <2>1. PICK tim \in 0 .. MaxTime : EmitTimeChange(tim)
      BY <1>3, Zenon DEF TimeChanged
    <2>2. CASE FirstTimeChange(tim)
      BY <2>2, Zenon DEF FirstTimeChange
    <2>3. CASE PlainTimeChange(tim) \/ EmptyFlushTimeChange(tim)
      BY <2>3, Zenon DEF PlainTimeChange, EmptyFlushTimeChange, BeginTime, HeaderAtEnd, Dumping
    <2>4. CASE FlushTimeChange(tim)
      BY <2>4, Zenon DEF FlushTimeChange, WriteSection, LimitReached, Dumping
    <2> QED
      BY <2>1, <2>2, <2>3, <2>4, Zenon DEF EmitTimeChange
  <1>4. CASE Close
    BY <1>4, CloseEnds, Zenon
  <1> QED
    BY <1>1, <1>2, <1>3, <1>4, CloseCases, Zenon

LEMMA CleanStep == TypeOK /\ CleanIsEmpty /\ [Next]_vars => CleanIsEmpty'
  <1> SUFFICES ASSUME TypeOK, CleanIsEmpty, [Next]_vars, Dumping'
               PROVE  vchg_siz' >= 1 /\ (vchg_siz' = 1 => chain' = EmptyChains)
    BY DEF CleanIsEmpty, EmptyChains
  <1>0. ASSUME vchg_siz' = 1, chain' = EmptyChains
        PROVE  vchg_siz' >= 1 /\ (vchg_siz' = 1 => chain' = EmptyChains)
    BY <1>0
  <1>1. CASE Idle \/ (Asked /\ UNCHANGED vchg)
    BY <1>1, Zenon DEF Idle, Asked, Written, CleanIsEmpty, Dumping
  <1>2. CASE Asked /\ vchg_siz' = vchg_siz + 1
    <2>1. Dumping
      BY <1>2, Zenon DEF Asked, Written, Dumping
    <2> QED
      BY <1>2, <2>1 DEF CleanIsEmpty, TypeOK
  <1>3. CASE CrashInFlush
    BY <1>3 DEF CrashInFlush, Dumping
  <1>4. CASE TimeChanged
    <2>1. PICK tim \in 0 .. MaxTime : EmitTimeChange(tim)
      BY <1>4, Zenon DEF TimeChanged
    <2>2. CASE FirstTimeChange(tim) \/ FlushTimeChange(tim)
      BY <2>2, <1>0, Zenon DEF FirstTimeChange, FlushTimeChange, WriteSection, EmptyBuffer
    <2>3. CASE PlainTimeChange(tim) \/ EmptyFlushTimeChange(tim)
      BY <2>3, Zenon DEF PlainTimeChange, EmptyFlushTimeChange, BeginTime, CleanIsEmpty, Dumping
    <2> QED
      BY <2>1, <2>2, <2>3, Zenon DEF EmitTimeChange
  <1>5. CASE Close
    BY <1>5, CloseEnds, Zenon
  <1> QED
    BY <1>1, <1>2, <1>3, <1>4, <1>5, CloseCases, Zenon DEF Asked

(* The writer stops at the limit, so that its last section has no header    *)
(* behind it.                                                               *)
LEMMA LimitEndsStep ==
  LimitStops /\ LimitEndsFile /\ [Next]_vars => LimitEndsFile'
  <1> SUFFICES ASSUME LimitStops, LimitEndsFile, [Next]_vars,
                      phase' = "open", size_limit_locked'
               PROVE  tail' = NoSection
    BY DEF LimitEndsFile
  <1>1. CASE Idle \/ Asked
    BY <1>1, Zenon DEF Idle, Asked, Written, LimitEndsFile
  <1>2. CASE CrashInFlush
    BY <1>2 DEF CrashInFlush
  <1>3. CASE TimeChanged
    <2>1. PICK tim \in 0 .. MaxTime : EmitTimeChange(tim)
      BY <1>3, Zenon DEF TimeChanged
    <2>2. ~FirstTimeChange(tim)
      BY Zenon DEF FirstTimeChange
    <2>3. CASE PlainTimeChange(tim) \/ EmptyFlushTimeChange(tim)
      BY <2>3, Zenon DEF PlainTimeChange, EmptyFlushTimeChange, BeginTime, LimitEndsFile
    <2>4. CASE FlushTimeChange(tim)
      BY <2>4, Zenon DEF FlushTimeChange, WriteSection, LimitReached, LimitStops
    <2> QED
      BY <2>1, <2>2, <2>3, <2>4, Zenon DEF EmitTimeChange
  <1>4. CASE Close
    BY <1>4, ClosePhase
  <1> QED
    BY <1>1, <1>2, <1>3, <1>4, CloseCases, Zenon

----------------------------------------------------------------------------
LEMMA CountedStep == TypeOK /\ SectionsCounted /\ [Next]_vars => SectionsCounted'
  <1> SUFFICES ASSUME TypeOK, SectionsCounted, [Next]_vars, phase' = "open"
               PROVE  secnum' = Len(blocks')
    BY DEF SectionsCounted
  <1>1. CASE Idle \/ Asked
    BY <1>1, Zenon DEF Idle, Asked, Written, SectionsCounted
  <1>2. CASE CrashInFlush
    BY <1>2 DEF CrashInFlush
  <1>3. CASE TimeChanged
    <2>1. PICK tim \in 0 .. MaxTime : EmitTimeChange(tim)
      BY <1>3, Zenon DEF TimeChanged
    <2>2. CASE FirstTimeChange(tim) \/ PlainTimeChange(tim) \/ EmptyFlushTimeChange(tim)
      BY <2>2, Zenon DEF FirstTimeChange, PlainTimeChange, EmptyFlushTimeChange, BeginTime,
                         SectionsCounted
    <2>3. CASE FlushTimeChange(tim)
      <3>1. /\ secnum = Len(blocks) /\ secnum' = secnum + 1
            /\ blocks' = Append(blocks, Section(tail, curtime, chain, tchn))
        BY <2>3, Zenon DEF FlushTimeChange, BeginTime, WriteSection, SectionsCounted
      <3> QED
        BY <3>1 DEF TypeOK
    <2> QED
      BY <2>1, <2>2, <2>3, Zenon DEF EmitTimeChange
  <1>4. CASE Close
    BY <1>4, ClosePhase
  <1> QED
    BY <1>1, <1>2, <1>3, <1>4, CloseCases, Zenon

(* The sections ended before the current time, and one more does.           *)
Behind(bs, time, handles) ==
  \A i \in 1 .. Len(bs) : bs[i].end <= time /\ bs[i].maxhandle <= handles

LEMMA BehindGrows ==
  ASSUME TypeOK, NEW header, NEW time \in Nat, curtime <= time,
         Behind(blocks, time, maxhandle)
  PROVE  Behind(Append(blocks, Section(header, curtime, chain, tchn)), time, maxhandle)
  <1> DEFINE b == Section(header, curtime, chain, tchn)
  <1>1. b.end = curtime /\ b.maxhandle = maxhandle
    BY DEF Section
  <1>2. maxhandle <= maxhandle /\ blocks \in Seq(Block)
    BY BoundsAssumption DEF BoundsAssumption, TypeOK
  <1> HIDE DEF b
  <1>3. ASSUME NEW i \in 1 .. Len(Append(blocks, b))
        PROVE  (i \in 1 .. Len(blocks) /\ Append(blocks, b)[i] = blocks[i])
               \/ Append(blocks, b)[i] = b
    BY <1>2
  <1>4. Behind(Append(blocks, b), time, maxhandle)
    BY <1>1, <1>2, <1>3, Zenon DEF Behind
  <1> QED
    BY <1>4 DEF b

LEMMA BlockBounds ==
  ASSUME NEW b \in Block PROVE b.end \in Nat /\ b.maxhandle \in Nat
  <1>1. b.end \in Nat /\ b.maxhandle \in 0 .. MaxHandle
    BY DEF Block
  <1> QED
    BY <1>1

LEMMA BehindStays ==
  ASSUME blocks \in Seq(Block), Behind(blocks, curtime, maxhandle),
         curtime \in Nat, maxhandle \in Nat, NEW time \in Nat, NEW handles \in Nat,
         curtime <= time, maxhandle <= handles
  PROVE  Behind(blocks, time, handles)
  <1> SUFFICES ASSUME NEW i \in 1 .. Len(blocks)
               PROVE  blocks[i].end <= time /\ blocks[i].maxhandle <= handles
    BY DEF Behind
  <1>1. blocks[i].end \in Nat /\ blocks[i].maxhandle \in Nat
    <2>1. blocks[i] \in Block
      OBVIOUS
    <2> QED
      BY <2>1, BlockBounds
  <1>2. blocks[i].end <= curtime /\ blocks[i].maxhandle <= maxhandle
    BY DEF Behind
  <1> QED
    BY <1>1, <1>2

LEMMA BehindStep == TypeOK /\ SectionsBehind /\ [Next]_vars => SectionsBehind'
  <1> SUFFICES ASSUME TypeOK, SectionsBehind, [Next]_vars, phase' = "open"
               PROVE  Behind(blocks', curtime', maxhandle')
    BY DEF SectionsBehind, Behind
  <1>0. /\ curtime \in Nat /\ maxhandle \in Nat /\ blocks \in Seq(Block)
        /\ (phase = "open" => Behind(blocks, curtime, maxhandle))
    BY BoundsAssumption DEF BoundsAssumption, TypeOK, SectionsBehind, Behind
  <1>1. CASE Idle
    <2>1. UNCHANGED <<phase, blocks, curtime, maxhandle>>
      BY <1>1 DEF Idle
    <2> QED
      BY <2>1, <1>0, Zenon
  <1>2. CASE Asked
    <2>1. /\ phase = "open" /\ blocks' = blocks /\ curtime' = curtime
          /\ maxhandle' \in Nat /\ maxhandle <= maxhandle' /\ curtime <= curtime
      BY <1>2, <1>0 DEF Asked, Written
    <2>2. Behind(blocks, curtime, maxhandle')
      BY <2>1, <1>0, BehindStays
    <2> QED
      BY <2>1, <2>2
  <1>3. CASE CrashInFlush
    BY <1>3 DEF CrashInFlush
  <1>4. CASE TimeChanged
    <2>1. PICK tim \in 0 .. MaxTime : EmitTimeChange(tim)
      BY <1>4, Zenon DEF TimeChanged
    <2>2. phase = "open" /\ curtime <= tim /\ curtime' = tim /\ maxhandle' = maxhandle
      BY <2>1, Zenon DEF EmitTimeChange, FirstTimeChange, PlainTimeChange,
         FlushTimeChange, EmptyFlushTimeChange, BeginTime
    <2>3. tim \in Nat /\ maxhandle <= maxhandle
      BY BoundsAssumption, <1>0 DEF BoundsAssumption
    <2>4. Behind(blocks, tim, maxhandle)
      BY <2>2, <2>3, <1>0, BehindStays
    <2>5. CASE blocks' = blocks
      BY <2>2, <2>4, <2>5
    <2>6. CASE FlushTimeChange(tim)
      <3>1. blocks' = Append(blocks, Section(tail, curtime, chain, tchn))
        BY <2>6, Zenon DEF FlushTimeChange, WriteSection
      <3> QED
        BY <3>1, <2>2, <2>3, <2>4, BehindGrows
    <2> QED
      BY <2>1, <2>5, <2>6, Zenon DEF EmitTimeChange, FirstTimeChange, PlainTimeChange,
         EmptyFlushTimeChange
  <1>5. CASE Close
    BY <1>5, ClosePhase
  <1> QED
    BY <1>1, <1>2, <1>3, <1>4, <1>5, CloseCases, Zenon

----------------------------------------------------------------------------
(* Closing, case by case.                                                   *)
LEMMA NothingLeftStep ==
  TypeOK /\ CleanIsEmpty /\ NothingLeftBehind /\ [Next]_vars => NothingLeftBehind'
  <1> SUFFICES ASSUME TypeOK, CleanIsEmpty, NothingLeftBehind, [Next]_vars,
                      phase' = "closed", ~size_limit_locked'
               PROVE  \A h \in Handle : chain'[h] = <<>>
    BY DEF NothingLeftBehind
  <1>0. SUFFICES ASSUME chain' # EmptyChains PROVE \A h \in Handle : chain'[h] = <<>>
    BY DEF EmptyChains
  <1>1. CASE Idle
    <2>1. UNCHANGED <<phase, size_limit_locked, chain>>
      BY <1>1 DEF Idle
    <2> QED
      BY <2>1, Zenon DEF NothingLeftBehind
  <1>2. CASE Close
    <2>1. ASSUME ~is_initial_time, ~Dirty, UNCHANGED vchg PROVE FALSE
      <3>1. Dumping
        BY <1>2, <2>1, ClosePhase, Zenon DEF Dumping
      <3>2. vchg_siz = 1
        <4>1. vchg_siz \in Nat /\ vchg_siz >= 1
          BY <3>1 DEF CleanIsEmpty, TypeOK
        <4>2. ~(vchg_siz > 1)
          BY <2>1, Zenon DEF Dirty
        <4> QED
          BY <4>1, <4>2
      <3> QED
        BY <1>0, <2>1, <3>1, <3>2, Zenon DEF CleanIsEmpty
    <2>2. ~CloseTruncate
      BY <2>1, Zenon DEF CloseTruncate, Truncatable
    <2>3. ASSUME CloseLocked PROVE FALSE
      <3>1. size_limit_locked /\ size_limit_locked' = size_limit_locked
        BY <2>3, Zenon DEF CloseLocked
      <3> QED
        BY <3>1, Zenon
    <2>4. ~CloseFlush
      BY <1>0, Zenon DEF CloseFlush, WriteSection, EmptyBuffer
    <2>5. ~CloseEmpty
      BY <2>1, Zenon DEF CloseEmpty
    <2>6. ~CloseInitial
      BY <1>0, Zenon DEF CloseInitial, EmptyBuffer
    <2> QED
      BY <1>2, <2>2, <2>3, <2>4, <2>5, <2>6, Zenon DEF Close
  <1> QED
    BY <1>1, <1>2, OnlyCloseCloses

LEMMA NoSections == ASSUME NEW S, NEW s \in Seq(S), Len(s) = 0 PROVE s = <<>>
  OBVIOUS

LEMMA CompleteStep ==
  TypeInv /\ Unstarted /\ HeaderAtEnd /\ LimitEndsFile /\ ClosedFileIsComplete /\ [Next]_vars
    => ClosedFileIsComplete'
  <1> SUFFICES ASSUME TypeInv, Unstarted, HeaderAtEnd, LimitEndsFile, ClosedFileIsComplete,
                      [Next]_vars, phase' = "closed", blocks' # <<>>
               PROVE  tail' = NoSection
    BY DEF ClosedFileIsComplete
  <1>1. CASE Idle
    <2>1. UNCHANGED <<phase, blocks, tail>>
      BY <1>1 DEF Idle
    <2> QED
      BY <2>1, Zenon DEF ClosedFileIsComplete
  <1>2. CASE Close
    <2>0. phase = "open"
      BY <1>2, ClosePhase
    <2>1. CASE CloseTruncate
      BY <2>1, Zenon DEF CloseTruncate
    <2>2. CASE CloseLocked
      BY <2>0, <2>2, Zenon DEF CloseLocked, LimitEndsFile
    <2>3. CASE CloseFlush
      BY <2>3, Zenon DEF CloseFlush, WriteSection
    <2>4. CASE CloseEmpty
      <3>1. section_header_only /\ ~is_initial_time /\ ~Dirty /\ ~Truncatable
            /\ blocks' = blocks
        BY <2>0, <2>4, Zenon DEF CloseEmpty, HeaderAtEnd, Dumping
      <3>2. section_header_truncpos = 0
        BY <3>1, Zenon DEF Truncatable
      <3>3. blocks = <<>>
        <4>1. blocks \in Seq(Block) /\ section_header_truncpos = Len(blocks)
          BY Zenon DEF TypeInv, TruncAtEnd, TypeOK
        <4> QED
          BY <4>1, <3>2, NoSections
      <3> QED
        BY <3>1, <3>3
    <2>5. CASE CloseInitial
      <3>1. CASE Fixed = {}
        BY <2>5, <3>1, Zenon DEF CloseInitial, Unstarted
      <3>2. CASE Fixed # {}
        BY <2>5, <3>2, Zenon DEF CloseInitial
      <3> QED
        BY <3>1, <3>2
    <2> QED
      BY <1>2, <2>1, <2>2, <2>3, <2>4, <2>5, Zenon DEF Close
  <1> QED
    BY <1>1, <1>2, OnlyCloseCloses

(* The header describes bs, and the clock starts where it says.             *)
Describes(h, bs, first) ==
  h.sections = Len(bs) /\ h.start = first /\ Behind(bs, h.end, h.maxhandle)

LEMMA DescribedStep ==
  TypeInv /\ Unstarted /\ SectionsCounted /\ SectionsBehind /\ HeaderDescribesFile
    /\ [Next]_vars => HeaderDescribesFile'
  <1> SUFFICES ASSUME TypeInv, Unstarted, SectionsCounted, SectionsBehind,
                      HeaderDescribesFile, [Next]_vars, phase' = "closed"
               PROVE  Describes(hdr', blocks', firsttime')
    BY Zenon DEF HeaderDescribesFile, Describes, Behind
  <1>1. CASE Idle
    <2>1. UNCHANGED <<phase, hdr, blocks, firsttime>>
      BY <1>1 DEF Idle
    <2> QED
      BY <2>1, Zenon DEF HeaderDescribesFile, Describes, Behind
  <1>2. CASE Close
    <2>0. phase = "open" /\ secnum = Len(blocks) /\ Behind(blocks, curtime, maxhandle)
          /\ TypeOK /\ blocks \in Seq(Block) /\ curtime \in Nat /\ curtime <= curtime
      BY <1>2, ClosePhase, BoundsAssumption
         DEF SectionsCounted, SectionsBehind, Behind, TypeInv, TypeOK, BoundsAssumption
    <2>1. CASE CloseTruncate \/ CloseLocked \/ CloseEmpty
      <3>1. hdr' = HdrFields(firsttime, curtime, secnum) /\ firsttime' = firsttime
        BY <2>1, Zenon DEF CloseTruncate, CloseLocked, CloseEmpty, Finalize
      <3>2. blocks' = blocks
        <4>1. SubSeq(blocks, 1, Len(blocks)) = blocks
          BY <2>0
        <4> QED
          BY <2>1, <4>1, Zenon DEF CloseTruncate, CloseLocked, CloseEmpty, TypeInv, TruncAtEnd
      <3> QED
        BY <3>1, <3>2, <2>0 DEF HdrFields, Describes
    <2>2. CASE CloseFlush
      <3>1. hdr' = HdrFields(firsttime, curtime, secnum + 1) /\ firsttime' = firsttime
            /\ blocks' = Append(blocks, Section(tail, curtime, chain, tchn))
        BY <2>2, Zenon DEF CloseFlush, Finalize, WriteSection
      <3>2. Behind(blocks', curtime, maxhandle)
        BY <3>1, <2>0, BehindGrows
      <3>3. Len(blocks') = secnum + 1
        BY <3>1, <2>0
      <3> QED
        BY <3>1, <3>2, <3>3 DEF HdrFields, Describes
    <2>3. CASE CloseInitial
      <3>1. blocks = <<>>
        BY <2>3, Zenon DEF CloseInitial, Unstarted
      <3>2. secnum = 0
        BY <2>0, <3>1
      <3>3. firsttime' = 0
            /\ hdr' = HdrFields(0, 0, IF Fixed = {} THEN secnum ELSE secnum + 1)
        BY <2>3, Zenon DEF CloseInitial, Finalize
      <3>4. CASE Fixed = {}
        <4>1. blocks' = <<>> /\ hdr' = HdrFields(0, 0, 0)
          BY <2>3, <3>1, <3>2, <3>3, <3>4, Zenon DEF CloseInitial
        <4> QED
          BY <3>3, <4>1 DEF HdrFields, Describes, Behind
      <3>5. CASE Fixed # {}
        <4>1. PICK header, chains : blocks' = <<Section(header, 0, chains, <<0>>)>>
          BY <2>3, <3>5, Zenon DEF CloseInitial
        <4>2. hdr' = HdrFields(0, 0, 1)
          BY <3>2, <3>3, <3>5
        <4>3. maxhandle <= maxhandle
          BY <2>0, BoundsAssumption DEF BoundsAssumption, TypeOK
        <4>4. Behind(blocks', 0, maxhandle)
          <5> DEFINE b == Section(header, 0, chains, <<0>>)
          <5>1. b.end = 0 /\ b.maxhandle = maxhandle
            BY DEF Section
          <5> HIDE DEF b
          <5> QED
            BY <4>1, <4>3, <5>1 DEF Behind, b
        <4>5. Len(blocks') = 1
          BY <4>1
        <4> QED
          BY <3>3, <4>2, <4>4, <4>5 DEF HdrFields, Describes
      <3> QED
        BY <3>4, <3>5
    <2> QED
      BY <1>2, <2>1, <2>2, <2>3, Zenon DEF Close
  <1> QED
    BY <1>1, <1>2, OnlyCloseCloses

----------------------------------------------------------------------------
LEMMA CloseInit == Init => CloseInv
  <1> SUFFICES ASSUME Init PROVE CloseInv
    OBVIOUS
  <1>1. phase = "open" /\ ~Dumping /\ tail = NoSection /\ secnum = 0 /\ blocks = <<>>
    BY Zenon DEF Init, Dumping
  <1>2. phase # "closed" /\ Len(blocks) = 0
    BY <1>1
  <1>3. SectionsCounted /\ SectionsBehind
    BY <1>1, <1>2 DEF SectionsCounted, SectionsBehind
  <1> QED
    BY <1>1, <1>2, <1>3, Zenon DEF CloseInv, HeaderAtEnd, CleanIsEmpty, LimitEndsFile,
       NothingLeftBehind, HeaderDescribesFile, ClosedFileIsComplete

LEMMA CloseStep ==
  TypeInv /\ LimitStops /\ Unstarted /\ CloseInv /\ [Next]_vars => CloseInv'
  BY HeaderAtEndStep, CleanStep, CountedStep, LimitEndsStep, BehindStep, NothingLeftStep,
     DescribedStep, CompleteStep, Zenon DEF TypeInv, CloseInv

LEMMA StoppedInvCorrect == Spec => [](LimitStops /\ Unstarted)
  <1>1. Init => LimitStops /\ Unstarted
    BY DecodeInit, Zenon DEF DecodeInv
  <1>2. TypeInv /\ (LimitStops /\ Unstarted) /\ [Next]_vars => (LimitStops /\ Unstarted)'
    BY LimitStep, UnstartedStep, Zenon DEF TypeInv
  <1> QED
    BY TypeInvCorrect, <1>1, <1>2, PTL DEF Spec

LEMMA CloseInvCorrect == Spec => []CloseInv
  <1>1. TypeInv /\ (LimitStops /\ Unstarted) /\ CloseInv /\ [Next]_vars => CloseInv'
    BY CloseStep
  <1> QED
    BY TypeInvCorrect, StoppedInvCorrect, CloseInit, <1>1, PTL DEF Spec

(* However far the simulator got, closing flushes the changes it emitted    *)
(* last, or there were none: none is left behind in vchg_mem.               *)
THEOREM ClosingLosesNothing == Spec => []NothingLeftBehind
  <1>1. CloseInv => NothingLeftBehind
    BY DEF CloseInv
  <1> QED
    BY CloseInvCorrect, <1>1, PTL

(* The header fstWriterClose writes counts the sections of the file and     *)
(* spans their times and handles, in each of the ways of closing.           *)
THEOREM HeaderAlwaysDescribes == Spec => []HeaderDescribesFile
  <1>1. CloseInv => HeaderDescribesFile
    BY DEF CloseInv
  <1> QED
    BY CloseInvCorrect, <1>1, PTL

(* No section tagged FST_BL_SKIP is left in a closed file with sections.    *)
THEOREM ClosedIsComplete == Spec => []ClosedFileIsComplete
  <1>1. CloseInv => ClosedFileIsComplete
    BY DEF CloseInv
  <1> QED
    BY CloseInvCorrect, <1>1, PTL

(* The size limit, once reached by whatever flush, is final: is_initial_time*)
(* keeps every later call away from the sections and the clock.             *)
THEOREM LimitIsAlwaysFinal == Spec => LimitIsFinal
  <1> DEFINE Final == size_limit_locked =>
               size_limit_locked' /\ UNCHANGED <<blocks, curtime, firsttime, secnum>>
  <1>1. LimitStops /\ [Next]_vars => [Final]_vars
    <2> SUFFICES ASSUME LimitStops, [Next]_vars, size_limit_locked
                 PROVE  size_limit_locked' /\ UNCHANGED <<blocks, curtime, firsttime, secnum>>
      BY Zenon
    <2>1. is_initial_time
      BY DEF LimitStops
    <2>2. CASE Idle \/ Asked
      BY <2>2, Zenon DEF Idle, Asked, Written
    <2>3. CASE CrashInFlush
      BY <2>1, <2>3, Zenon DEF CrashInFlush
    <2>4. ~TimeChanged
      BY <2>1, Zenon DEF TimeChanged, EmitTimeChange, FirstTimeChange, PlainTimeChange,
         FlushTimeChange, EmptyFlushTimeChange
    <2>5. CASE Close
      <3>1. ~CloseTruncate /\ ~CloseFlush /\ ~CloseEmpty /\ ~CloseInitial
        BY <2>1, Zenon DEF CloseTruncate, Truncatable, CloseFlush, CloseEmpty, CloseInitial
      <3> QED
        BY <2>5, <3>1, Zenon DEF Close, CloseLocked
    <2> QED
      BY <2>2, <2>3, <2>4, <2>5, CloseCases, Zenon
  <1>2. LimitStops /\ Unstarted => LimitStops
    OBVIOUS
  <1> QED
    BY StoppedInvCorrect, <1>1, <1>2, PTL DEF Spec, LimitIsFinal

----------------------------------------------------------------------------
(* No handle has a chain before it is created.                              *)
KnownChains == \A h \in Handle : h > maxhandle => chain[h] = <<>>

(* While dumping, the .bits file is the frame the open section starts from; *)
(* it is updated by the checkpoint only.                                    *)
BitsFramed == Dumping => tail.frame = curval

FramesInv == KnownChains /\ BitsFramed /\ FramesChain

(* The open section contains the times of its table.                        *)
TimesInSection ==
  Dumping => /\ tail.begin <= curtime
             /\ \A k \in 1 .. Len(times) : times[k] \in tail.begin .. curtime
PastAligned == Len(past) = Len(blocks)
TileInv == TimesInSection /\ PastAligned /\ SectionsTile

----------------------------------------------------------------------------
(* The cases of a step: what leaves the sections and the clock alone, and   *)
(* touches the .bits file before the first time only; and the rest.         *)
Quiet ==
  /\ UNCHANGED <<blocks, past, tail, firsttime, curtime, times, is_initial_time>>
  /\ phase' = "open" => phase = "open"
  /\ UNCHANGED curval \/ is_initial_time
  /\ KnownChains'

LEMMA AppendKnown ==
  ASSUME TypeOK, KnownChains, NEW h \in Handle, NEW v \in Value, h <= maxhandle,
         maxhandle' = maxhandle, AppendChange(h, v)
  PROVE  KnownChains'
  <1> SUFFICES ASSUME NEW g \in Handle, g > maxhandle PROVE chain'[g] = <<>>
    BY DEF KnownChains
  <1>1. g # h
    BY BoundsAssumption DEF BoundsAssumption, TypeOK, Handle
  <1>2. chain \in [Handle -> Seq(Change)] /\ chain[g] = <<>>
    BY DEF TypeOK, KnownChains
  <1> QED
    BY <1>1, <1>2 DEF AppendChange

LEMMA EmptyKnown == EmptyBuffer => KnownChains'
  BY DEF EmptyBuffer, EmptyChains, KnownChains

LEMMA QuietCases ==
  TypeOK /\ KnownChains /\ [Next]_vars => Quiet \/ TimeChanged \/ Close
  <1> SUFFICES ASSUME TypeOK, KnownChains, [Next]_vars PROVE Quiet \/ TimeChanged \/ Close
    OBVIOUS
  <1>0. ASSUME UNCHANGED <<maxhandle, chain>> PROVE KnownChains'
    BY <1>0 DEF KnownChains
  <1>1. ASSUME NEW alias \in 0 .. MaxHandle, CreateVar(alias) PROVE Quiet
    <2>1. chain' = chain /\ maxhandle' \in {maxhandle, maxhandle + 1}
      BY <1>1 DEF CreateVar
    <2>2. KnownChains'
      <3> SUFFICES ASSUME NEW h \in Handle, h > maxhandle' PROVE chain'[h] = <<>>
        BY DEF KnownChains
      <3>1. h \in Nat /\ maxhandle \in Nat
        BY BoundsAssumption DEF BoundsAssumption, TypeOK, Handle
      <3>2. h > maxhandle
        BY <2>1, <3>1
      <3> QED
        BY <2>1, <3>2 DEF KnownChains
    <2> QED
      BY <1>1, <2>2, Zenon DEF CreateVar, Quiet
  <1>2. ASSUME NEW h \in Handle, NEW v \in Value, EmitValueChange(h, v) PROVE Quiet
    <2>1. /\ h <= maxhandle /\ maxhandle' = maxhandle
          /\ AppendChange(h, v) \/ UNCHANGED chain
      BY <1>2, Zenon DEF EmitValueChange, BeginChange
    <2>2. KnownChains'
      BY <2>1, <1>0, AppendKnown, Zenon
    <2> QED
      BY <1>2, <2>2, Zenon DEF EmitValueChange, BeginChange, Quiet
  <1>3. ASSUME NEW h \in Handle, NEW v \in Value, EmitVariableLengthValueChange(h, v)
        PROVE  Quiet
    <2>1. /\ h <= maxhandle /\ maxhandle' = maxhandle
          /\ AppendChange(h, v) \/ UNCHANGED chain
      BY <1>3, Zenon DEF EmitVariableLengthValueChange, BeginChange
    <2>2. KnownChains'
      BY <2>1, <1>0, AppendKnown, Zenon
    <2> QED
      BY <1>3, <2>2, Zenon DEF EmitVariableLengthValueChange, BeginChange, Quiet
  <1>4. ASSUME FlushContext PROVE Quiet
    BY <1>4, <1>0, Zenon DEF FlushContext, Quiet
  <1>5. ASSUME NEW limit \in BOOLEAN, SetDumpSizeLimit(limit) PROVE Quiet
    BY <1>5, <1>0, Zenon DEF SetDumpSizeLimit, Quiet
  <1>6. ASSUME CrashInFlush PROVE Quiet
    BY <1>6, <1>0, Zenon DEF CrashInFlush, Quiet
  <1>7. ASSUME UNCHANGED vars PROVE Quiet
    BY <1>7, <1>0, Zenon DEF Quiet
  <1> QED
    BY <1>1, <1>2, <1>3, <1>4, <1>5, <1>6, <1>7, Zenon DEF Next, TimeChanged

(* Handles stay unknown when the buffer is kept or emptied.                 *)
LEMMA KnownStep ==
  TypeOK /\ KnownChains /\ (TimeChanged \/ Close) => KnownChains'
  <1> SUFFICES ASSUME KnownChains, TimeChanged \/ Close PROVE KnownChains'
    OBVIOUS
  <1>1. ASSUME UNCHANGED <<maxhandle, chain>> PROVE KnownChains'
    BY <1>1 DEF KnownChains
  <1>2. CASE TimeChanged
    BY <1>2, <1>1, EmptyKnown, Zenon DEF TimeChanged, EmitTimeChange, BeginTime,
       FirstTimeChange, PlainTimeChange, FlushTimeChange, EmptyFlushTimeChange, WriteSection
  <1>3. CASE Close
    BY <1>3, <1>1, EmptyKnown, Zenon DEF Close, CloseTruncate, CloseLocked, CloseFlush,
       CloseEmpty, CloseInitial, Finalize, WriteSection
  <1> QED
    BY <1>2, <1>3

(* Cutting off the header of an unused section leaves the others.           *)
LEMMA TruncateKeeps == TypeOK /\ TruncAtEnd /\ CloseTruncate => blocks' = blocks
  <1> SUFFICES ASSUME TypeOK, TruncAtEnd, CloseTruncate PROVE blocks' = blocks
    OBVIOUS
  <1>1. blocks' = SubSeq(blocks, 1, Len(blocks))
    BY Zenon DEF CloseTruncate, TruncAtEnd
  <1>2. blocks \in Seq(Block)
    BY DEF TypeOK
  <1> QED
    BY <1>1, <1>2

----------------------------------------------------------------------------
(* The checkpoint is the frame with the chains applied.                     *)
LEMMA CheckpointIsNext ==
  ASSUME TypeOK, KnownChains, tail.frame = curval
  PROVE  Checkpoint = NextFrame(Section(tail, curtime, chain, tchn))
  <1> DEFINE b == Section(tail, curtime, chain, tchn)
  <1>1. b.frame = curval /\ b.chain = chain
    BY DEF Section
  <1> HIDE DEF b
  <1> DEFINE one(h) == IF h \in Fixed /\ chain[h] # <<>> THEN chain[h][Len(chain[h])].val
                       ELSE curval[h]
             two(h) == IF h \in VarLen \/ b.chain[h] = <<>> THEN b.frame[h]
                       ELSE b.chain[h][Len(b.chain[h])].val
  <1>2. ASSUME NEW h \in Handle PROVE one(h) = two(h)
    <2>1. chain[h] # <<>> => h \in 1 .. maxhandle
      BY BoundsAssumption DEF BoundsAssumption, KnownChains, Handle, TypeOK
    <2>2. h \in Fixed <=> h \in 1 .. maxhandle /\ h \notin VarLen
      BY DEF Fixed
    <2> QED
      BY <2>1, <2>2, <1>1
  <1>3. [h \in Handle |-> one(h)] = [h \in Handle |-> two(h)]
    BY <1>2, Zenon
  <1> QED
    BY <1>3, Zenon DEF Checkpoint, NextFrame, b

(* A section written behind the others: it starts from their values, and    *)
(* the header of the next from its own.                                     *)
LEMMA WriteChains ==
  ASSUME TypeInv, FramesInv, Dumping, NEW full, NEW stop, WriteSection(full, stop)
  PROVE  FramesChain' /\ (tail' # NoSection => tail'.frame = curval')
  <1> DEFINE b == Section(tail, curtime, chain, tchn)
  <1>0. TypeOK /\ tail \in SectionHeader /\ tail # NoSection /\ tail.frame = curval
    BY DataAssumption, Zenon DEF DataAssumption, TypeInv, FramesInv, BitsFramed
  <1>1. b.frame = tail.frame /\ Checkpoint = NextFrame(b)
    BY <1>0, CheckpointIsNext DEF Section, FramesInv
  <1>2. blocks' = Append(blocks, b) /\ curval' = Checkpoint
        /\ (tail' = NoSection \/ tail' = EmitSectionHeader(curtime, Checkpoint))
    BY Zenon DEF WriteSection
  <1> HIDE DEF b
  <1>3. tail' # NoSection => tail'.frame = NextFrame(b)
    BY <1>1, <1>2 DEF EmitSectionHeader
  <1>4. blocks \in Seq(Block)
    BY <1>0 DEF TypeOK
  <1>5. /\ Len(blocks') = Len(blocks) + 1 /\ blocks'[Len(blocks) + 1] = b
        /\ \A i \in 1 .. Len(blocks) : blocks'[i] = blocks[i]
    BY <1>2, <1>4
  <1>6. ASSUME NEW i \in 1 .. Len(blocks)
        PROVE  blocks'[i + 1].frame = NextFrame(blocks'[i])
    <2>1. CASE i = Len(blocks)
      <3>1. blocks # <<>>
        BY <2>1, <1>4
      <3>2. tail.frame = NextFrame(blocks[Len(blocks)])
        BY <3>1, <1>0, Zenon DEF FramesInv, FramesChain
      <3> QED
        BY <2>1, <3>2, <1>1, <1>5
    <2>2. CASE i # Len(blocks)
      <3>1. i \in 1 .. Len(blocks) - 1 /\ i + 1 \in 1 .. Len(blocks)
        BY <2>2, <1>4
      <3> QED
        BY <3>1, <1>5 DEF FramesInv, FramesChain
    <2> QED
      BY <2>1, <2>2
  <1>7. /\ \A i \in 1 .. Len(blocks') - 1 : blocks'[i + 1].frame = NextFrame(blocks'[i])
        /\ blocks'[Len(blocks')] = b
    BY <1>4, <1>5, <1>6
  <1> QED
    BY <1>1, <1>2, <1>3, <1>7, Zenon DEF FramesChain

----------------------------------------------------------------------------
LEMMA FramesInit == Init => FramesInv
  <1> SUFFICES ASSUME Init PROVE FramesInv
    OBVIOUS
  <1>1. KnownChains
    BY DEF Init, KnownChains, EmptyChains
  <1>2. ~Dumping /\ tail = NoSection
    BY Zenon DEF Init, Dumping
  <1>3. FramesChain
    BY <1>2 DEF Init, FramesChain
  <1> QED
    BY <1>1, <1>2, <1>3, Zenon DEF FramesInv, BitsFramed

LEMMA FramesStep ==
  TypeInv /\ LimitStops /\ Unstarted /\ FramesInv /\ [Next]_vars => FramesInv'
  <1> SUFFICES ASSUME TypeInv, LimitStops, Unstarted, FramesInv, [Next]_vars PROVE FramesInv'
    OBVIOUS
  <1>0. TypeOK /\ TruncAtEnd /\ KnownChains
    BY Zenon DEF TypeInv, FramesInv
  <1>1. CASE Quiet
    <2>1. Dumping' => Dumping /\ UNCHANGED <<tail, curval>>
      BY <1>1, Zenon DEF Quiet, Dumping
    <2>2. FramesChain'
      BY <1>1, Zenon DEF Quiet, FramesInv, FramesChain
    <2> QED
      BY <1>1, <2>1, <2>2, Zenon DEF Quiet, FramesInv, BitsFramed
  <1>2. CASE TimeChanged
    <2>0. KnownChains'
      BY <1>0, <1>2, KnownStep
    <2>1. PICK tim \in 0 .. MaxTime : EmitTimeChange(tim)
      BY <1>2, Zenon DEF TimeChanged
    <2>2. CASE FirstTimeChange(tim)
      <3>1. blocks = <<>> /\ UNCHANGED <<blocks, curval>> /\ tail' = EmitSectionHeader(firsttime', curval)
        BY <2>2, Zenon DEF FirstTimeChange, Unstarted
      <3>2. tail'.frame = curval'
        BY <3>1 DEF EmitSectionHeader
      <3>3. FramesChain'
        BY <3>1 DEF FramesChain
      <3> QED
        BY <2>0, <3>2, <3>3, Zenon DEF FramesInv, BitsFramed
    <2>3. CASE PlainTimeChange(tim) \/ EmptyFlushTimeChange(tim)
      <3>1. Dumping /\ UNCHANGED <<blocks, tail, curval>>
        BY <2>3, Zenon DEF PlainTimeChange, EmptyFlushTimeChange, BeginTime, Dumping
      <3> QED
        BY <2>0, <3>1, Zenon DEF FramesInv, BitsFramed, FramesChain
    <2>4. CASE FlushTimeChange(tim)
      <3>1. Dumping /\ \E full \in LimitOutcomes : WriteSection(full, FALSE)
        BY <2>4, Zenon DEF FlushTimeChange, BeginTime, Dumping
      <3>2. FramesChain' /\ (tail' # NoSection => tail'.frame = curval')
        BY <3>1, WriteChains, Zenon
      <3>3. Dumping' => tail' # NoSection
        BY DataAssumption, FileStep, Zenon DEF DataAssumption, HeaderThere
      <3> QED
        BY <2>0, <3>2, <3>3, Zenon DEF FramesInv, BitsFramed
    <2> QED
      BY <2>1, <2>2, <2>3, <2>4, Zenon DEF EmitTimeChange
  <1>3. CASE Close
    <2>0. KnownChains' /\ ~Dumping'
      BY <1>0, <1>3, KnownStep, CloseEnds
    <2>1. CASE CloseTruncate
      <3>1. blocks' = blocks /\ tail' = NoSection
        BY <2>1, <1>0, TruncateKeeps, Zenon DEF CloseTruncate
      <3> QED
        BY <2>0, <3>1, Zenon DEF FramesInv, BitsFramed, FramesChain
    <2>2. CASE CloseLocked \/ CloseEmpty
      BY <2>0, <2>2, Zenon DEF CloseLocked, CloseEmpty, FramesInv, BitsFramed, FramesChain
    <2>3. CASE CloseFlush
      <3>1. Dumping /\ \E full \in LimitOutcomes : WriteSection(full, TRUE)
        BY <2>3, Zenon DEF CloseFlush, Finalize, Dumping
      <3>2. FramesChain'
        BY <3>1, WriteChains, Zenon
      <3> QED
        BY <2>0, <3>2, Zenon DEF FramesInv, BitsFramed
    <2>4. CASE CloseInitial
      <3>1. \/ blocks' = <<>>
            \/ tail' = NoSection /\ \E b : blocks' = <<b>>
        BY <2>4, Zenon DEF CloseInitial, Unstarted
      <3>2. FramesChain'
        BY <3>1 DEF FramesChain
      <3> QED
        BY <2>0, <3>2, Zenon DEF FramesInv, BitsFramed
    <2> QED
      BY <1>3, <2>1, <2>2, <2>3, <2>4, Zenon DEF Close
  <1> QED
    BY <1>0, <1>1, <1>2, <1>3, QuietCases, Zenon

(* A reader that starts at any section sees the values a reader of the      *)
(* sections before it arrives at: whatever flushes the simulator asks for   *)
(* and whenever it declares variables, the checkpoint of .bits and the next *)
(* section's frame are one.                                                 *)
THEOREM FramesAlwaysChain == Spec => []FramesChain
  <1>1. TypeInv /\ (LimitStops /\ Unstarted) /\ FramesInv /\ [Next]_vars => FramesInv'
    BY FramesStep
  <1>2. FramesInv => FramesChain
    BY DEF FramesInv
  <1> QED
    BY TypeInvCorrect, StoppedInvCorrect, FramesInit, <1>1, <1>2, PTL DEF Spec

----------------------------------------------------------------------------
(* A section written behind the others begins where they end, contains its  *)
(* times and ends where the next one begins.                                *)
LEMMA WriteTiles ==
  ASSUME TypeInv, TileInv, Dumping, NEW full, NEW stop, WriteSection(full, stop),
         firsttime' = firsttime
  PROVE  SectionsTile' /\ PastAligned' /\ (tail' # NoSection => tail'.begin = curtime)
  <1> DEFINE b == Section(tail, curtime, chain, tchn)
             p == [times |-> times, marks |-> marks]
  <1>0. TypeOK /\ tail \in SectionHeader /\ tail # NoSection
    BY DataAssumption, Zenon DEF DataAssumption, TypeInv
  <1>1. b.begin = tail.begin /\ b.end = curtime /\ p.times = times
    BY DEF Section
  <1>2. /\ blocks' = Append(blocks, b) /\ past' = Append(past, p)
        /\ tail' = NoSection \/ tail' = EmitSectionHeader(curtime, Checkpoint)
    BY Zenon DEF WriteSection
  <1> HIDE DEF b, p
  <1>3. tail' # NoSection => tail'.begin = curtime
    BY <1>2 DEF EmitSectionHeader
  <1>4. /\ blocks \in Seq(Block) /\ past \in Seq([times : Seq(Nat), marks : [Handle -> Seq(Mark)]])
        /\ Len(past) = Len(blocks)
    BY <1>0 DEF TypeOK, TileInv, PastAligned
  <1> DEFINE n == Len(blocks)
  <1>5. /\ n \in Nat /\ Len(blocks') = n + 1 /\ Len(past') = n + 1
        /\ blocks'[n + 1] = b /\ past'[n + 1] = p
        /\ \A i \in 1 .. n : blocks'[i] = blocks[i] /\ past'[i] = past[i]
    BY <1>2, <1>4
  <1>6. /\ tail.begin = IF n = 0 THEN firsttime ELSE blocks[n].end
        /\ \A i \in 1 .. n :
             /\ blocks[i].begin = IF i = 1 THEN firsttime ELSE blocks[i - 1].end
             /\ blocks[i].begin <= blocks[i].end
             /\ \A k \in 1 .. Len(past[i].times) :
                  past[i].times[k] \in blocks[i].begin .. blocks[i].end
    <2>1. blocks = <<>> <=> n = 0
      BY <1>4
    <2> QED
      BY <2>1, <1>0, Zenon DEF TileInv, SectionsTile
  <1>7. tail.begin <= curtime /\ \A k \in 1 .. Len(times) : times[k] \in tail.begin .. curtime
    BY Zenon DEF TileInv, TimesInSection
  <1> HIDE DEF n
  <1>8. ASSUME NEW i \in 1 .. n + 1
        PROVE  /\ blocks'[i].begin = IF i = 1 THEN firsttime ELSE blocks'[i - 1].end
               /\ blocks'[i].begin <= blocks'[i].end
               /\ \A k \in 1 .. Len(past'[i].times) :
                    past'[i].times[k] \in blocks'[i].begin .. blocks'[i].end
    <2>1. CASE i = n + 1
      <3>1. blocks'[i] = b /\ past'[i] = p
        BY <2>1, <1>5
      <3>2. b.begin = IF i = 1 THEN firsttime ELSE blocks'[i - 1].end
        <4>1. CASE n = 0
          BY <2>1, <4>1, <1>1, <1>6
        <4>2. CASE n # 0
          <5>1. i # 1 /\ i - 1 = n /\ n \in 1 .. n
            BY <2>1, <4>2, <1>5
          <5> QED
            BY <4>2, <5>1, <1>1, <1>5, <1>6
        <4> QED
          BY <4>1, <4>2
      <3> QED
        BY <3>1, <3>2, <1>1, <1>7, Zenon
    <2>2. CASE i \in 1 .. n
      <3>1. i = 1 \/ i - 1 \in 1 .. n
        BY <2>2, <1>5
      <3> QED
        BY <2>2, <3>1, <1>5, <1>6, Zenon
    <2> QED
      BY <2>1, <2>2, <1>5
  <1>9. /\ blocks' # <<>> /\ Len(blocks') = Len(past')
        /\ blocks'[Len(blocks')].end = curtime
    <2>1. blocks' # <<>>
      BY <1>2, <1>4
    <2> QED
      BY <2>1, <1>1, <1>5
  <1> QED
    BY <1>3, <1>5, <1>8, <1>9, Zenon DEF SectionsTile, PastAligned

LEMMA TileInit == Init => TileInv
  <1> SUFFICES ASSUME Init PROVE TileInv
    OBVIOUS
  <1>1. ~Dumping /\ tail = NoSection /\ blocks = <<>> /\ past = <<>>
    BY Zenon DEF Init, Dumping
  <1>2. SectionsTile /\ PastAligned
    BY <1>1 DEF SectionsTile, PastAligned
  <1> QED
    BY <1>1, <1>2, Zenon DEF TileInv, TimesInSection

(* The times of a table whose section is open, with one more.               *)
LEMMA TimesAppend ==
  ASSUME TypeOK, tail \in SectionHeader, tail.begin <= curtime,
         \A k \in 1 .. Len(times) : times[k] \in tail.begin .. curtime,
         NEW tim \in Nat, curtime <= tim
  PROVE  /\ tail.begin <= tim
         /\ \A k \in 1 .. Len(Append(times, tim)) : Append(times, tim)[k] \in tail.begin .. tim
  <1>1. times \in Seq(Nat) /\ curtime \in Nat /\ tail.begin \in Nat
    BY BoundsAssumption DEF BoundsAssumption, TypeOK, SectionHeader
  <1>2. tail.begin <= tim
    BY <1>1
  <1>3. ASSUME NEW k \in 1 .. Len(Append(times, tim))
        PROVE  Append(times, tim)[k] \in tail.begin .. tim
    <2>1. CASE k \in 1 .. Len(times)
      <3>1. Append(times, tim)[k] = times[k] /\ times[k] \in Nat
        BY <2>1, <1>1
      <3>2. tail.begin <= times[k] /\ times[k] <= curtime
        BY <2>1
      <3> QED
        BY <3>1, <3>2, <1>1
    <2>2. CASE k = Len(times) + 1
      BY <2>2, <1>1, <1>2
    <2> QED
      BY <2>1, <2>2, <1>1
  <1> QED
    BY <1>2, <1>3

LEMMA TileStep ==
  TypeInv /\ LimitStops /\ Unstarted /\ KnownChains /\ TileInv /\ [Next]_vars => TileInv'
  <1> SUFFICES ASSUME TypeInv, LimitStops, Unstarted, KnownChains, TileInv, [Next]_vars
               PROVE  TileInv'
    OBVIOUS
  <1>0. TypeOK /\ TruncAtEnd /\ curtime \in Nat /\ times \in Seq(Nat)
    BY BoundsAssumption DEF BoundsAssumption, TypeInv, TypeOK
  <1>1. CASE Quiet
    <2>1. Dumping' => Dumping
      BY <1>1, Zenon DEF Quiet, Dumping
    <2>2. TimesInSection'
      BY <1>1, <2>1, Zenon DEF Quiet, TileInv, TimesInSection
    <2> QED
      BY <1>1, <2>2, Zenon DEF Quiet, TileInv, PastAligned, SectionsTile
  <1>2. CASE TimeChanged
    <2>1. PICK tim \in 0 .. MaxTime : EmitTimeChange(tim)
      BY <1>2, Zenon DEF TimeChanged
    <2>2. tim \in Nat /\ curtime <= tim /\ curtime' = tim
      <3>1. BeginTime(tim)
        BY <2>1, Zenon DEF EmitTimeChange, FirstTimeChange, PlainTimeChange, FlushTimeChange,
           EmptyFlushTimeChange
      <3> QED
        BY <3>1, BoundsAssumption DEF BeginTime, BoundsAssumption
    <2>3. CASE FirstTimeChange(tim)
      <3>1. /\ blocks = <<>> /\ past = <<>> /\ times = <<>> /\ UNCHANGED <<blocks, past>>
            /\ tail' = EmitSectionHeader(firsttime', curval) /\ times' = Append(times, tim)
            /\ firsttime' = 0 \/ firsttime' = tim
        BY <2>3, Zenon DEF FirstTimeChange, Unstarted
      <3>2. tail'.begin = firsttime' /\ firsttime' \in Nat /\ firsttime' <= tim
        BY <3>1, <2>2 DEF EmitSectionHeader
      <3>3. SectionsTile' /\ PastAligned'
        BY <3>1, <3>2 DEF SectionsTile, PastAligned
      <3>4. TimesInSection'
        <4>1. times' = <<tim>>
          BY <3>1
        <4> QED
          BY <4>1, <3>2, <2>2 DEF TimesInSection
      <3> QED
        BY <3>3, <3>4, Zenon DEF TileInv
    <2>4. CASE PlainTimeChange(tim) \/ EmptyFlushTimeChange(tim)
      <3>1. Dumping /\ UNCHANGED <<blocks, past, tail, firsttime>> /\ times' = Append(times, tim)
        BY <2>4, Zenon DEF PlainTimeChange, EmptyFlushTimeChange, BeginTime, Dumping
      <3>2. /\ tail.begin <= tim
            /\ \A k \in 1 .. Len(times') : times'[k] \in tail.begin .. tim
        BY <3>1, <2>2, <1>0, TimesAppend, Zenon DEF TypeInv, TileInv, TimesInSection
      <3>3. TimesInSection'
        BY <3>1, <3>2, <2>2, Zenon DEF TimesInSection
      <3> QED
        BY <3>1, <3>3, Zenon DEF TileInv, PastAligned, SectionsTile
    <2>5. CASE FlushTimeChange(tim)
      <3>1. /\ Dumping /\ \E full \in LimitOutcomes : WriteSection(full, FALSE)
            /\ firsttime' = firsttime /\ times' = <<curtime, tim>>
        BY <2>5, Zenon DEF FlushTimeChange, BeginTime, Dumping
      <3>2. SectionsTile' /\ PastAligned' /\ (tail' # NoSection => tail'.begin = curtime)
        BY <3>1, WriteTiles, Zenon
      <3>3. Dumping' => tail' # NoSection
        BY DataAssumption, FileStep, Zenon DEF DataAssumption, HeaderThere
      <3>4. TimesInSection'
        <4>1. \A k \in 1 .. Len(times') : times'[k] \in curtime .. tim
          BY <3>1, <2>2, <1>0
        <4> QED
          BY <4>1, <3>2, <3>3, <2>2, Zenon DEF TimesInSection
      <3> QED
        BY <3>2, <3>4, Zenon DEF TileInv
    <2> QED
      BY <2>1, <2>3, <2>4, <2>5, Zenon DEF EmitTimeChange
  <1>3. CASE Close
    <2>0. TimesInSection'
      BY <1>3, CloseEnds, Zenon DEF TimesInSection
    <2>1. CASE CloseTruncate
      <3>1. blocks' = blocks /\ tail' = NoSection /\ UNCHANGED <<past, firsttime>>
        BY <2>1, <1>0, TruncateKeeps, Zenon DEF CloseTruncate
      <3> QED
        BY <2>0, <3>1, Zenon DEF TileInv, PastAligned, SectionsTile
    <2>2. CASE CloseLocked \/ CloseEmpty
      BY <2>0, <2>2, Zenon DEF CloseLocked, CloseEmpty, TileInv, PastAligned, SectionsTile
    <2>3. CASE CloseFlush
      <3>1. /\ Dumping /\ \E full \in LimitOutcomes : WriteSection(full, TRUE)
            /\ firsttime' = firsttime
        BY <2>3, Zenon DEF CloseFlush, Finalize, Dumping
      <3>2. SectionsTile' /\ PastAligned'
        BY <3>1, WriteTiles, Zenon
      <3> QED
        BY <2>0, <3>2, Zenon DEF TileInv
    <2>4. CASE CloseInitial
      <3> DEFINE at0 == EmitSectionHeader(0, curval)
      <3>1. /\ firsttime' = 0
            /\ \/ blocks' = <<>> /\ past' = <<>> /\ tail' = at0
               \/ /\ tail' = NoSection
                  /\ \E chains, ms : /\ blocks' = <<Section(at0, 0, chains, <<0>>)>>
                                    /\ past' = <<[times |-> <<0>>, marks |-> ms]>>
        BY <2>4, Zenon DEF CloseInitial, Unstarted
      <3>2. at0.begin = 0
        BY DEF EmitSectionHeader
      <3>3. ASSUME NEW chains, NEW ms, blocks' = <<Section(at0, 0, chains, <<0>>)>>,
                   past' = <<[times |-> <<0>>, marks |-> ms]>>, tail' = NoSection
            PROVE  SectionsTile' /\ PastAligned'
        <4>1. /\ Len(blocks') = 1 /\ Len(past') = 1 /\ blocks'[1].begin = 0
              /\ blocks'[1].end = 0 /\ past'[1].times = <<0>>
          BY <3>2, <3>3 DEF Section
        <4> QED
          BY <4>1, <3>1, <3>3 DEF SectionsTile, PastAligned
      <3>4. ASSUME blocks' = <<>>, past' = <<>>, tail' = at0
            PROVE  SectionsTile' /\ PastAligned'
        <4>1. blocks' = <<>> /\ past' = <<>> /\ tail'.begin = firsttime'
          BY <3>1, <3>2, <3>4, Zenon
        <4>2. Len(blocks') = 0 /\ Len(past') = 0
          BY <4>1
        <4>3. \A i \in 1 .. Len(blocks') : FALSE
          BY <4>2
        <4>4. SectionsTile'
          BY <4>1, <4>3, Zenon DEF SectionsTile
        <4> QED
          BY <4>2, <4>4, Zenon DEF PastAligned
      <3> QED
        BY <2>0, <3>1, <3>3, <3>4, Zenon DEF TileInv
    <2> QED
      BY <1>3, <2>1, <2>2, <2>3, <2>4, Zenon DEF Close
  <1> QED
    BY <1>0, <1>1, <1>2, <1>3, QuietCases, Zenon

(* The sections of a file follow each other without gap or overlap and      *)
(* contain their own times, however they came to be written: by a full      *)
(* buffer, a queued flush, one that finds nothing, or by closing.           *)
THEOREM SectionsAlwaysTile == Spec => []SectionsTile
  <1>1. TypeInv /\ (LimitStops /\ Unstarted) /\ FramesInv /\ [Next]_vars => FramesInv'
    BY FramesStep
  <1>2. TypeInv /\ (LimitStops /\ Unstarted) /\ FramesInv /\ TileInv /\ [Next]_vars => TileInv'
    BY TileStep, Zenon DEF FramesInv
  <1>3. TileInv => SectionsTile
    BY DEF TileInv
  <1> QED
    BY TypeInvCorrect, StoppedInvCorrect, FramesInit, TileInit, <1>1, <1>2, <1>3, PTL DEF Spec
=============================================================================
