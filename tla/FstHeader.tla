----------------------------- MODULE FstHeader -----------------------------
(***************************************************************************)
(* The header of an FST file: fstWriterEmitHdrBytes writes it, the setters *)
(* and fstWriterClose patch fields of it while the writer's handle stands  *)
(* behind the blocks written so far, fstReaderInit reads it and the        *)
(* getters of the reader return its fields.  The bytes and the offsets are *)
(* the code's; the sizes of the strings and of a word are constants.       *)
(***************************************************************************)
EXTENDS FstCodec

CONSTANTS
  VersionSize,      (* FST_HDR_SIM_VERSION_SIZE.                            *)
  DateSize,         (* FST_HDR_DATE_SIZE.                                   *)
  WordSize,         (* Stands for the 8 bytes of a word and of a double.    *)
  DefaultVersion, DefaultDate,
  HeaderTexts,      (* Strings of the program that dumps, without a 0.      *)
  TimescaleExps,    (* Arguments of fstWriterSetTimescale.                  *)
  FileTypes,        (* Arguments of fstWriterSetFileType.                   *)
  Timezeros,        (* Arguments of fstWriterSetTimezero.                   *)
  Closings,         (* What fstWriterClose finds: [times, counts].          *)
  MaxPatches        (* Bound on the calls before fstWriterClose.            *)

FST_BL_HDR == 0
FST_FT_MAX == 3

(* 256^WordSize, and what fits in a word.                                   *)
WordModulus ==
  LET power[n \in 0 .. WordSize] == IF n = 0 THEN 1 ELSE 256 * power[n - 1] IN power[WordSize]
UnsignedWord == 0 .. WordModulus - 1

ASSUME HeaderAssumption ==
  /\ {VersionSize, DateSize, WordSize, MaxPatches} \subseteq Nat
  /\ WordSize > 1 /\ WordModulus <= Modulus
  /\ HeaderTexts \cup {DefaultVersion, DefaultDate} \subseteq CString
  /\ Timezeros \subseteq -(WordModulus \div 2) .. (WordModulus \div 2) - 1
  /\ TimescaleExps \subseteq -128 .. 127
  /\ FileTypes \subseteq Nat
  /\ Closings \subseteq [times : UnsignedWord \X UnsignedWord,
                         counts : UnsignedWord \X UnsignedWord \X UnsignedWord \X UnsignedWord]

VARIABLES
  file,         (* The bytes of the file.                                   *)
  position,     (* Where the writer's handle stands.                        *)
  blocks,       (* The bytes written behind the header.                     *)
  told,         (* What the fields were last set to.                        *)
  patches,      (* Calls so far.                                            *)
  header        (* What the reader's getters return, once it is open.       *)
headerVars == <<file, position, blocks, told, patches, header>>

----------------------------------------------------------------------------
(* FST_HDR_OFFS_...                                                         *)
OffsStartTime   == 1 + WordSize
OffsEndian      == OffsStartTime + 2 * WordSize
OffsMemUsed     == OffsEndian + WordSize
OffsNumScopes   == OffsMemUsed + WordSize
OffsTimescale   == OffsNumScopes + 4 * WordSize
OffsVersion     == OffsTimescale + 1
OffsDate        == OffsVersion + VersionSize
OffsFiletype    == OffsDate + DateSize
OffsTimezero    == OffsFiletype + 1
HeaderLength    == OffsTimezero + WordSize

Word(v) == WriteWord(v, WordSize)
Unfilled(size) == [i \in 1 .. size |-> 0]
TextWhole(s, size) ==               (* Mutant: it is not cut.               *)
  IF Len(s) >= size THEN s ELSE s \o Unfilled(size - Len(s))
Text(s, size) == [i \in 1 .. size |-> IF i <= Len(s) THEN s[i] ELSE 0]

(* A double whose bytes tell their order: FST_DOUBLE_ENDTEST.               *)
EndTest == [i \in 1 .. WordSize |-> i]

EmitHdrBytes(mem) ==
  <<FST_BL_HDR>> \o Word(HeaderLength - 1) \o Word(0) \o Word(0) \o EndTest \o Word(mem)
  \o Word(0) \o Word(0) \o Word(0) \o Word(0) \o <<TimescaleByte(-9)>>
  \o Text(DefaultVersion, VersionSize) \o Text(DefaultDate, DateSize) \o <<0>> \o Word(0)

(* fseeko, fwrite: what is written over what.                               *)
Over(bytes, offs, new) ==
  [i \in 1 .. (IF offs + Len(new) > Len(bytes) THEN offs + Len(new) ELSE Len(bytes)) |->
     IF i \in offs + 1 .. offs + Len(new) THEN new[i - offs] ELSE bytes[i]]

(* Every setter remembers the position and goes back to it.                 *)
PatchStays(offs, new) ==            (* Mutant: does not go back.            *)
  /\ file' = Over(file, offs, new)
  /\ position' = offs + Len(new)
Patch(offs, new) ==
  /\ file' = Over(file, offs, new)
  /\ position' = position

HeaderInit ==
  /\ file = EmitHdrBytes(1) /\ position = HeaderLength
  /\ blocks = <<>> /\ patches = 0 /\ header = <<>>
  /\ told = [version |-> DefaultVersion, date |-> DefaultDate, timescale |-> -9, filetype |-> 0, timezero |-> 0,
             times |-> <<0, 0>>, counts |-> <<0, 0, 0, 0>>, mem |-> 1]

PatchCall == header = <<>> /\ patches < MaxPatches /\ patches' = patches + 1 /\ UNCHANGED header

SetDate(s) ==
  /\ PatchCall /\ Patch(OffsDate, Text(s, DateSize))
  /\ told' = [told EXCEPT !.date = s] /\ UNCHANGED blocks
SetVersion(s) ==
  /\ PatchCall /\ Patch(OffsVersion, Text(s, VersionSize))
  /\ told' = [told EXCEPT !.version = s] /\ UNCHANGED blocks
SetFileType(filetype) ==
  /\ PatchCall /\ UNCHANGED blocks
  /\ IF filetype <= FST_FT_MAX
     THEN Patch(OffsFiletype, <<filetype>>) /\ told' = [told EXCEPT !.filetype = filetype]
     ELSE UNCHANGED <<file, position, told>>
SetTimescale(ts) ==
  /\ PatchCall /\ Patch(OffsTimescale, <<TimescaleByte(ts)>>)
  /\ told' = [told EXCEPT !.timescale = ts] /\ UNCHANGED blocks
SetTimezero(tim) ==
  /\ PatchCall /\ Patch(OffsTimezero, Word(tim))
  /\ told' = [told EXCEPT !.timezero = tim] /\ UNCHANGED blocks

(* Whatever else the writer emits goes where the handle stands.             *)
EmitBlock ==
  /\ PatchCall /\ UNCHANGED told
  /\ file' = Over(file, position, <<255, patches>>)
  /\ position' = position + 2
  /\ blocks' = blocks \o <<255, patches>>

(* fstWriterClose, and fstReaderOpen of the file by a machine with the same *)
(* order of bytes or the other one.  The words of the header have one order.*)
ReadWordAt(bytes, offs) == ReadWord(SubSeq(bytes, offs + 1, offs + WordSize))
ReadSigned(v) == IF v >= WordModulus \div 2 THEN v - WordModulus ELSE v
ReadText(bytes, offs, size) ==
  LET field == SubSeq(bytes, offs + 1, offs + size)
      ends  == {i \in 1 .. size : field[i] = 0}
  IN IF ends = {} THEN field ELSE SubSeq(field, 1, (CHOOSE i \in ends : \A j \in ends : i <= j) - 1)
ReadHeader(bytes, native) ==
  LET endtest == SubSeq(bytes, OffsEndian + 1, OffsEndian + WordSize)
      own     == IF native THEN EndTest ELSE Reverse(EndTest)
      counts  == [i \in 1 .. 4 |-> ReadWordAt(bytes, OffsNumScopes + (i - 1) * WordSize)]
  IN IF endtest # own /\ Reverse(endtest) # own THEN [opened |-> FALSE]
     ELSE [opened |-> TRUE, double_endian_match |-> endtest = own,
           incomplete |-> ReadWordAt(bytes, OffsStartTime) = 0 /\ ReadWordAt(bytes, OffsStartTime + WordSize) = 0,
           times |-> <<ReadWordAt(bytes, OffsStartTime), ReadWordAt(bytes, OffsStartTime + WordSize)>>,
           mem |-> ReadWordAt(bytes, OffsMemUsed),
           counts |-> counts, num_alias |-> counts[2] - counts[3],
           timescale |-> SignedByte(bytes[OffsTimescale + 1]),
           version |-> ReadText(bytes, OffsVersion, VersionSize),
           date |-> ReadText(bytes, OffsDate, DateSize),
           filetype |-> bytes[OffsFiletype + 1],
           timezero |-> ReadSigned(ReadWordAt(bytes, OffsTimezero))]

CloseHeader(times, counts, native) ==
  LET finalized == Over(Over(file, OffsStartTime, Word(times[1]) \o Word(times[2])),
                        OffsNumScopes, Word(counts[1]) \o Word(counts[2]) \o Word(counts[3]) \o Word(counts[4]))
  IN /\ header = <<>>
     /\ file' = finalized
     /\ told' = [told EXCEPT !.times = times, !.counts = counts]
     /\ header' = [native |-> native, read |-> ReadHeader(finalized, native)]
     /\ UNCHANGED <<position, blocks, patches>>

HeaderNext ==
  \/ \E s \in HeaderTexts : SetDate(s) \/ SetVersion(s)
  \/ \E filetype \in FileTypes : SetFileType(filetype)
  \/ \E ts \in TimescaleExps : SetTimescale(ts)
  \/ \E tim \in Timezeros : SetTimezero(tim)
  \/ EmitBlock
  \/ \E c \in Closings, native \in BOOLEAN : CloseHeader(c.times, c.counts, native)
HeaderSpec == HeaderInit /\ [][HeaderNext]_headerVars

----------------------------------------------------------------------------
(* The reader's getters return what each field was last set to, whichever   *)
(* other fields were set in between and whatever was written behind them; a *)
(* string that does not fit is cut, not run into the next field; words are  *)
(* read in the writer's order and the order of doubles is told apart        *)
(* (fstapi.c:917-982, 2292-2347, 2462-2553, 2170-2178, 4693-4738).          *)
HeaderReads ==
  header # <<>> =>
    LET read == header.read IN
    /\ read.opened /\ read.double_endian_match = header.native
    /\ read.version = Cut(told.version, VersionSize) /\ read.date = Cut(told.date, DateSize)
    /\ read.timescale = told.timescale /\ read.filetype = told.filetype /\ read.timezero = told.timezero
    /\ read.times = told.times /\ read.counts = told.counts /\ read.mem = told.mem
    /\ read.num_alias = told.counts[2] - told.counts[3]
    /\ read.incomplete = (told.times = <<0, 0>>)

(* No setter moves the place of the next block, and none writes over one.   *)
BlocksStay == SubSeq(file, HeaderLength + 1, Len(file)) = blocks
=============================================================================
