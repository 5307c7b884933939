-------------------------- MODULE FstWriterRefines --------------------------
(***************************************************************************)
(* The writer implements Waveform: what a reader decodes from the          *)
(* completed sections, continued with what is still buffered, is at every  *)
(* step the wave form emitted so far, and closing the file changes         *)
(* nothing of it.  And what it leaves is a file its reader can work with.  *)
(***************************************************************************)
EXTENDS FstWriter, FstDecode

CONSTANT NoValue            (* The reader's answer NULL.                   *)

decodedStage ==
  IF phase = "closed" THEN "closed"
  ELSE IF blocks = <<>> /\ tail = NoSection THEN "declaring" ELSE "running"

(* The frame of the first section holds the initial values.                 *)
decodedInitial ==
  IF blocks # <<>> THEN blocks[1].frame
  ELSE IF tail # NoSection THEN tail.frame ELSE curval

buffered == IF Dumping THEN [h \in Handle |-> DecodeChain(chain[h], TimeTable(tchn))]
            ELSE EmptyChains

decodedWave == [h \in Handle |-> DecodeSections(blocks, h) \o buffered[h]]

Abstract == INSTANCE Waveform WITH
  stage <- decodedStage, initial <- decodedInitial, wave <- decodedWave

(* The writer, with a file that is read back, implements the wave form.     *)
ImplementsWaveform ==
  Abstract!Init /\ [][Abstract!NextUpTo(0 .. MaxTime)]_(Abstract!wvars)

----------------------------------------------------------------------------
(* The closed file as fstReaderOpen finds it.                               *)
Read == INSTANCE FstSections
writtenFile ==
  [blocks |-> blocks, end |-> hdr.end, maxhandle |-> hdr.maxhandle, varlen |-> VarLen]

(* A closed file with sections is one the reader relies on (FstReader): the *)
(* sections tile and contain their times, each chain stays within its time  *)
(* table and among the handles known, each frame has what the section       *)
(* before it ended with, for every handle declared by then, and the header  *)
(* spans them all.                                                          *)
WrittenFileReads ==
  phase = "closed" /\ blocks # <<>> => Read!WellFormed(writtenFile)
=============================================================================
