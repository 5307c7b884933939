------------------------------ MODULE FstCodec ------------------------------
(***************************************************************************)
(* The conversions of fstapi.c between numbers or strings and bytes: plain *)
(* and signed varints, big-endian words, time differences, escaped         *)
(* strings, enumeration tables, VCD identifiers, time scales, blackouts.   *)
(* A byte is a number, a character its code, memory a sequence of bytes.   *)
(*                                                                         *)
(* Width stands for the 32 and 64 bits of the code's unsigned integers.    *)
(***************************************************************************)
EXTENDS Integers, Sequences, SequencesExt

CONSTANTS
  Width,        (* Bits of an unsigned integer.                             *)
  VarintLimit   (* Bytes fstReaderVarint32 or ..64 accepts for one.         *)

ASSUME CodecAssumption ==
  /\ Width \in Nat /\ Width > 8
  /\ VarintLimit \in Nat /\ VarintLimit * 7 >= Width

(* 2^Width, by the recursion that proofs for every Width need.              *)
Modulus ==
  LET power[n \in 0 .. Width] == IF n = 0 THEN 1 ELSE 2 * power[n - 1] IN power[Width]

Byte == 0 .. 255
CString == Seq(1 .. 255)                                 (* A string of C. *)
Unsigned == 0 .. Modulus - 1
Wrap(v) == v % Modulus
Cut(s, size) == IF Len(s) <= size THEN s ELSE SubSeq(s, 1, size)   (* A string in a field. *)
ShiftLeft(v, k) == IF k >= Width THEN 0 ELSE (v % (Modulus \div 2^k)) * 2^k

----------------------------------------------------------------------------
(* Varints: groups of seven bits, the lowest first; all but the last carry  *)
(* the bit 128.  fstWriterVarint and fstCopyVarint64ToRight.                *)
Varint[v \in Nat] ==
  IF v \div 128 = 0 THEN <<v>> ELSE <<128 + (v % 128)>> \o Varint[v \div 128]

(* fstCopyVarint32ToLeft counts first, to write behind what it returns.     *)
VarintLength[v \in Nat] == IF v \div 128 = 0 THEN 1 ELSE 1 + VarintLength[v \div 128]
VarintToLeft(v) ==
  LET cnt == VarintLength[v]
      group == [i \in 1 .. cnt |-> IF i = 1 THEN v ELSE v \div 128^(i - 1)]
  IN [i \in 1 .. cnt |-> IF i < cnt THEN 128 + (group[i] % 128) ELSE group[i]]

(* fstGetVarint32 and ..64: to the last byte, and back again.               *)
LastByte(mem, p) == CHOOSE q \in p .. Len(mem) : mem[q] < 128 /\ \A i \in p .. q - 1 : mem[i] >= 128
SkipLen(mem, p) == LastByte(mem, p) - p + 1
GetVarint(mem, p) ==
  FoldRight(LAMBDA byte, rc : ShiftLeft(rc, 7) + (byte % 128), SubSeq(mem, p, LastByte(mem, p)), 0)

(* fstReaderVarint32 and ..64 abort if there are too many bytes.            *)
Readable(mem, p) == SkipLen(mem, p) <= VarintLimit

(* fstWriterSVarint and fstGetSVarint64: two's complement.                  *)
SVarint[v \in Int] ==
  LET low  == v % 128
      rest == v \div 128
      done == (rest = 0 /\ low < 64) \/ (rest = -1 /\ low >= 64)
  IN IF done THEN <<low>> ELSE <<128 + low>> \o SVarint[rest]
Signed(v) == IF v >= Modulus \div 2 THEN v - Modulus ELSE v
ExtendUnsigned(rc, byte, shift) == rc   (* Mutant: the sign is not extended. *)
Extend(rc, byte, shift) ==
  IF shift < Width /\ byte % 128 >= 64 THEN rc + (Modulus - 2^shift) ELSE rc
GetSVarint(mem, p) ==
  LET q  == LastByte(mem, p)
      rc == FoldLeft(LAMBDA acc, i : acc + ShiftLeft(mem[i] % 128, 7 * (i - p)), 0, [i \in 1 .. q - p + 1 |-> i + p - 1])
  IN Signed(Extend(rc, mem[q], 7 * (q - p + 1)))

(* fstWriterUint64 and fstReaderUint64, for a word of n bytes.              *)
WriteWord(v, n) ==
  LET rest[k \in 0 .. n] == IF k = 0 THEN v ELSE rest[k - 1] \div 256
  IN [i \in 1 .. n |-> rest[n - i] % 256]
NextByte(val, byte) == ShiftLeft(val, 8) + byte
ReadWord(mem) == FoldLeft(NextByte, 0, mem)

----------------------------------------------------------------------------
(* The time table of a section: fstWriterEmitTimeChange writes the unsigned *)
(* difference to curtime, whichever is larger; the reader sums up.          *)
TimeDelta(tim, curtime) == Wrap(tim - curtime)
WriteTimes(times) ==
  FlattenSeq([i \in 1 .. Len(times) |-> Varint[TimeDelta(times[i], IF i = 1 THEN 0 ELSE times[i - 1])]])
ReadTimes(mem, cnt) ==
  LET acc == FoldLeft(LAMBDA a, i : [at |-> a.at + SkipLen(mem, a.at),
                                     times |-> Append(a.times, Wrap((IF i = 1 THEN 0 ELSE a.times[i - 1]) + GetVarint(mem, a.at)))],
                      [at |-> 1, times |-> <<>>], [i \in 1 .. cnt |-> i])
  IN acc.times

(* The blackout section: fstWriterClose and fstReaderInit.  A call of       *)
(* fstWriterEmitDumpActive is active or not, at a time.                     *)
DeltaOfDump(list, i) == TimeDelta(list[i].tim, IF i = 1 THEN 0 ELSE list[i - 1].tim)
WriteBlackouts(list) ==
  Varint[Len(list)] \o FlattenSeq([i \in 1 .. Len(list) |-> <<list[i].active>> \o Varint[DeltaOfDump(list, i)]])
ReadBlackouts(mem) ==
  LET start == 1 + SkipLen(mem, 1)
      acc == FoldLeft(LAMBDA a, i :
                        LET tim == Wrap(a.cur_bl + GetVarint(mem, a.at + 1)) IN
                        [at |-> a.at + 1 + SkipLen(mem, a.at + 1), cur_bl |-> tim,
                         list |-> Append(a.list, [active |-> IF mem[a.at] # 0 THEN 1 ELSE 0, tim |-> tim])],
                      [at |-> start, cur_bl |-> 0, list |-> <<>>], [i \in 1 .. GetVarint(mem, 1) |-> i])
  IN acc.list

----------------------------------------------------------------------------
(* Escapes.  Pairs of the characters with an escape of two letters.         *)
Backslash == 92
Space == 32
Zero == 48
EscapePairs == { <<7, 97>>, <<8, 98>>, <<12, 102>>, <<10, 110>>, <<13, 114>>, <<9, 116>>, <<11, 118>>,
                 <<39, 39>>, <<34, 34>>, <<Backslash, Backslash>>, <<63, 63>> }
Special == {pair[1] : pair \in EscapePairs}
Letter == {pair[2] : pair \in EscapePairs}
EscapeLetter(c) == (CHOOSE pair \in EscapePairs : pair[1] = c)[2]
Unescaped(letter) == (CHOOSE pair \in EscapePairs : pair[2] = letter)[1]
Printable(c) == c > Space /\ c <= 126

EscapeOf(c) ==
  IF c \in Special THEN <<Backslash, EscapeLetter(c)>>
  ELSE IF Printable(c) THEN <<c>>
  ELSE <<Backslash, (c \div 64) + Zero, ((c % 64) \div 8) + Zero, (c % 8) + Zero>>
BinToEsc(s) == FlattenSeq([i \in 1 .. Len(s) |-> EscapeOf(s[i])])

ConvertedLenPlain(s) == Len(s)      (* Mutant: every character counts one.  *)
BinToEscConvertedLen(s) ==
  FoldLeft(LAMBDA dlen, c : dlen + (IF c \in Special THEN 2 ELSE IF Printable(c) THEN 1 ELSE 4), 0, s)

(* fstUtilityEscToBin; behind the string there is its terminating 0.        *)
HexDigit(c) == LET u == IF c \in 97 .. 122 THEN c - 32 ELSE c
               IN IF u \in 65 .. 70 THEN u - 65 + 10 ELSE u - Zero
EscToBin(s) ==
  LET at(i) == IF i <= Len(s) THEN s[i] ELSE 0
      digit(i) == at(i) - Zero
      from[i \in Nat] ==
        IF i > Len(s) THEN <<>>
        ELSE IF s[i] # Backslash THEN <<s[i]>> \o from[i + 1]
        ELSE IF at(i + 1) \in Letter THEN <<Unescaped(at(i + 1))>> \o from[i + 2]
        ELSE IF at(i + 1) = 120 THEN <<(HexDigit(at(i + 2)) * 16 + HexDigit(at(i + 3))) % 256>> \o from[i + 4]
        ELSE IF at(i + 1) \in Zero .. 55
             THEN <<(digit(i + 1) * 64 + digit(i + 2) * 8 + digit(i + 3)) % 256>> \o from[i + 4]
        ELSE <<at(i + 1)>> \o from[i + 2]
  IN from[1]

----------------------------------------------------------------------------
(* Enumeration tables: a name, a count, the literals and the values, each   *)
(* escaped, between spaces; values are filled up with zeros to min_valbits. *)
Decimal[n \in Nat] == IF n < 10 THEN <<n + Zero>> ELSE Decimal[n \div 10] \o <<(n % 10) + Zero>>
Atoi(s) ==
  LET digits == IF \E i \in 1 .. Len(s) : s[i] \notin Zero .. 57
                THEN SubSeq(s, 1, (CHOOSE i \in 1 .. Len(s) : s[i] \notin Zero .. 57 /\ \A j \in 1 .. i - 1 : s[j] \in Zero .. 57) - 1)
                ELSE s
  IN FoldLeft(LAMBDA n, c : 10 * n + c - Zero, 0, digits)

Padding(val, min_valbits) == IF Len(val) < min_valbits THEN min_valbits - Len(val) ELSE 0
Zeros(n) == [i \in 1 .. n |-> Zero]
Padded(val, min_valbits) == Zeros(Padding(val, min_valbits)) \o BinToEsc(val)

EnumTableString(name, literals, vals, min_valbits) ==
  LET spaced(s) == s \o <<Space>>
      all == spaced(name) \o spaced(Decimal[Len(literals)])
             \o FlattenSeq([i \in 1 .. Len(literals) |-> spaced(BinToEsc(literals[i]))])
             \o FlattenSeq([i \in 1 .. Len(vals) |-> spaced(Padded(vals[i], min_valbits))])
  IN SubSeq(all, 1, Len(all) - 1)

(* total_len: what is allocated for it, with its terminating 0.             *)
EnumTableLen(name, literals, vals, min_valbits) ==
  LET sum(f(_), seq) == FoldLeft(LAMBDA n, s : n + f(s), 0, seq)
      vlen(val) == BinToEscConvertedLen(val) + Padding(val, min_valbits)
  IN Len(name) + 1 + Len(Decimal[Len(literals)]) + 1 + sum(BinToEscConvertedLen, literals) + Len(literals)
     + sum(vlen, vals) + Len(vals)

(* fstUtilityExtractEnumTableFromString: the pieces between spaces, and     *)
(* nothing unless there are twice as many as the count says.                *)
Pieces(s) ==
  LET acc == FoldLeft(LAMBDA a, c : IF c = Space THEN [done |-> Append(a.done, a.piece), piece |-> <<>>]
                                    ELSE [a EXCEPT !.piece = Append(@, c)],
                      [done |-> <<>>, piece |-> <<>>], s)
  IN Append(acc.done, acc.piece)
NoTable == [name |-> <<>>, literals |-> <<>>, vals |-> <<>>]
ExtractEnumTable(s) ==
  LET pieces == Pieces(s)
      cnt == Atoi(pieces[2])
  IN IF Len(pieces) # 2 + 2 * cnt THEN NoTable
     ELSE [name |-> pieces[1],
           literals |-> [i \in 1 .. cnt |-> EscToBin(pieces[2 + i])],
           vals |-> [i \in 1 .. cnt |-> EscToBin(pieces[2 + cnt + i])]]

----------------------------------------------------------------------------
(* fstVcdID: the digits of a number that counts from one, base 94.          *)
VcdID[value \in Nat] ==
  IF value = 0 THEN <<>> ELSE <<33 + ((value - 1) % 94)>> \o VcdID[(value - 1) \div 94]
(* fstVcdIDForFwrite: at most 14 of them.                                   *)
VcdIDForFwrite(value) == SubSeq(VcdID[value], 1, IF Len(VcdID[value]) < 14 THEN Len(VcdID[value]) ELSE 14)

(* Time scales.  fstWriterSetTimescaleFromString: a number, and the first   *)
(* letter of a unit; anything else is nanoseconds.                          *)
Exponents == { <<"m", -3>>, <<"u", -6>>, <<"n", -9>>, <<"p", -12>>, <<"f", -15>>, <<"a", -18>>, <<"z", -21>>, <<"s", 0>> }
TimescaleFromString(tv, unit) ==
  LET known == {e \in Exponents : e[1] = unit}
      base == IF known = {} THEN -9 ELSE (CHOOSE e \in known : TRUE)[2]
  IN base + (IF tv = 10 THEN 1 ELSE IF tv = 100 THEN 2 ELSE 0)
(* fputc(ts & 255), and (signed char)fgetc.                                 *)
TimescaleByte(ts) == ts % 256
SignedByte(b) == IF b > 127 THEN b - 256 ELSE b
(* fstReaderProcessHier: what it prints of the header's time scale.         *)
PrintTimescale(ts) ==
  LET dim == {e \in Exponents : ts - e[2] \in 0 .. 2} IN
  IF dim = {} THEN <<1, "n">>
  ELSE LET e == CHOOSE e \in dim : TRUE IN <<10^(ts - e[2]), e[1]>>
=============================================================================
