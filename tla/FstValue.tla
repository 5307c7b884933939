------------------------------ MODULE FstValue ------------------------------
(***************************************************************************)
(* What a value, a number or a string becomes on its way through the file: *)
(* formatted by the fstWriterEmitValueChange functions, packed by the      *)
(* flush, read back by fstReaderIterBlocks2 and by                         *)
(* fstReaderGetValueFromHandleAtTime, written to a VCD file.  A step sends *)
(* something through one of these conversions; sent and got are its two    *)
(* ends.                                                                   *)
(***************************************************************************)
EXTENDS FstCodec

CONSTANTS
  WordBits,     (* Stands for the 32 bits of an int, 2 * WordBits for 64.   *)
  Numbers,      (* Unsigned numbers to send; also as signed ones.           *)
  TimeLists,    (* Lists of times, in any order.                            *)
  Texts,        (* Strings.                                                 *)
  Vectors,      (* Numbers of bits, and the bits themselves: <<bits, v>>.   *)
  Chains,       (* Chains of changes: their variable's length and type, and *)
                (* a sequence of [delta, val].                              *)
  Tables,       (* Enumeration tables: name, literals, vals.                *)
  Handles,      (* Handles that are named in a VCD file.                    *)
  Wide          (* fstWriterEmitValueChangeVec64 is used for wide vectors.  *)

ASSUME ValueAssumption ==
  /\ WordBits \in Nat /\ Wide \in BOOLEAN
  /\ Numbers \subseteq Unsigned

VARIABLES conversion, sent, got
valueVars == <<conversion, sent, got>>

----------------------------------------------------------------------------
(* Formatting.  fstWriterEmitValueChange32 and ..64: the lowest bits of a   *)
(* number, the highest first.                                               *)
Digits(v, bits) == [i \in 1 .. bits |-> Zero + ((v \div 2^(bits - i)) % 2)]

(* A vector as its words, the lowest first.                                 *)
Words(v, size, n) == [w \in 1 .. n |-> (v \div 2^(size * (w - 1))) % 2^size]
DescendingAll(words, size, n) ==    (* Mutant: from the lowest word.        *)
  FlattenSeq([i \in 1 .. n |-> Digits(words[i], size)])
Descending(words, size, n) == FlattenSeq([i \in 1 .. n |-> Digits(words[n + 1 - i], size)])

(* fstWriterEmitValueChangeVec32: the rest of the bits, then whole words.   *)
EmitVec32(bits, words) ==
  LET bq == bits \div WordBits
      br == bits % WordBits
  IN IF bits <= WordBits THEN Digits(words[1], bits)
     ELSE (IF br = 0 THEN <<>> ELSE Digits(words[bq + 1], br)) \o Descending(words, WordBits, bq)

(* fstWriterEmitValueChangeVec64: its v has 32 bits.  A shift by more than  *)
(* those is undefined: gcc takes the amount modulo 32, or yields 0.         *)
Narrow(word, shifts) ==
  LET v == word % 2^WordBits IN IF shifts = "modulo" THEN v * 2^WordBits + v ELSE v
EmitVec64(bits, words, shifts) ==
  LET size == 2 * WordBits
      bq == bits \div size
      br == bits % size
      narrow == [w \in 1 .. Len(words) |-> Narrow(words[w], shifts)]
  IN IF bits <= size THEN Digits(words[1], bits)
     ELSE (IF br = 0 THEN <<>> ELSE Digits(narrow[bq + 1], br)) \o Descending(narrow, size, bq)

----------------------------------------------------------------------------
(* Packing, in fstWriterFlushContextPrivate.  FST_RCV_STR: what a variable  *)
(* of one bit can be, besides 0 and 1, and their upper case.                *)
RcvStr == <<120, 122, 104, 117, 119, 108, 45, 63>>       (* xzhuwl-?        *)
LowerCase(c) == IF c \in 65 .. 90 THEN c + 32 ELSE c
RcvCode(c) ==
  IF \E k \in 1 .. 6 : RcvStr[k] = LowerCase(c) THEN CHOOSE k \in 0 .. 5 : RcvStr[k + 1] = LowerCase(c) ELSE 6
IsBinary(val) == \A i \in 1 .. Len(val) : val[i] \in {Zero, Zero + 1}

PackBitNarrow(c, delta) ==          (* Mutant: x and z get two bits as well. *)
  Varint[Wrap(IF c \in {Zero, Zero + 1} THEN (c % 2) * 2 + ShiftLeft(delta, 2)
              ELSE 1 + 2 * RcvCode(c) + ShiftLeft(delta, 2))]
PackBit(c, delta) ==
  Varint[Wrap(IF c \in {Zero, Zero + 1} THEN (c % 2) * 2 + ShiftLeft(delta, 2)
              ELSE 1 + 2 * RcvCode(c) + ShiftLeft(delta, 4))]

(* The highest bit of every byte first; the last byte is filled up.         *)
PackedByte(val, k) ==
  FoldLeft(LAMBDA acc, j : acc + (IF 8 * k + j < Len(val) THEN (val[8 * k + j + 1] % 2) * 2^(7 - j) ELSE 0),
           0, [i \in 1 .. 8 |-> i - 1])
PackBits(val) == [k \in 1 .. (Len(val) + 7) \div 8 |-> PackedByte(val, k - 1)]

PackChange(len, change) ==
  CASE len = 1 -> PackBit(change.val[1], change.delta)
    [] len = 0 -> VarintToLeft(ShiftLeft(change.delta, 1)) \o VarintToLeft(Len(change.val)) \o change.val
    [] len > 1 /\ IsBinary(change.val) -> VarintToLeft(ShiftLeft(change.delta, 1)) \o PackBits(change.val)
    [] OTHER -> VarintToLeft(ShiftLeft(change.delta, 1) + 1) \o change.val
PackChain(len, changes) == FlattenSeq([i \in 1 .. Len(changes) |-> PackChange(len, changes[i])])

----------------------------------------------------------------------------
(* Reading a change at p: its difference of times, its value and where it   *)
(* ends.                                                                    *)
BitsOf(mem, at, len) == [j \in 1 .. len |-> Zero + ((mem[at + (j - 1) \div 8] \div 2^(7 - ((j - 1) % 8))) % 2)]

ReadBit(mem, p) ==
  LET vli == GetVarint(mem, p) IN
  [delta |-> IF vli % 2 = 0 THEN vli \div 4 ELSE vli \div 16,
   val |-> << IF vli % 2 = 0 THEN Zero + ((vli \div 2) % 2) ELSE RcvStr[1 + ((vli \div 2) % 8)] >>,
   next |-> p + SkipLen(mem, p)]

ReadVariableLength(mem, p) ==
  LET vli == GetVarint(mem, p)
      q   == p + SkipLen(mem, p)
      at  == q + SkipLen(mem, q)
  IN [delta |-> vli \div 2, val |-> SubSeq(mem, at, at + GetVarint(mem, q) - 1), next |-> at + GetVarint(mem, q)]

ReadVector(mem, p, len) ==
  LET vli == GetVarint(mem, p)
      at  == p + SkipLen(mem, p)
      packed == (len + 7) \div 8
  IN IF vli % 2 = 0
     THEN [delta |-> vli \div 2, val |-> BitsOf(mem, at, len), next |-> at + packed]
     ELSE [delta |-> vli \div 2, val |-> SubSeq(mem, at, at + len - 1), next |-> at + len]

(* A real is read as a vector of eight bytes, and one byte is enough if     *)
(* they happen to be the characters 0 and 1.                                *)
ReadReal(mem, p) ==
  LET vli == GetVarint(mem, p)
      at  == p + SkipLen(mem, p)
  IN IF vli % 2 = 0
     THEN [delta |-> vli \div 2, val |-> BitsOf(mem, at, 8), next |-> at + 1]
     ELSE [delta |-> vli \div 2, val |-> SubSeq(mem, at, at + 7), next |-> at + 8]

ReadChange(mem, p, len, typ) ==
  CASE len = 1 -> ReadBit(mem, p)
    [] len = 0 -> ReadVariableLength(mem, p)
    [] len > 1 /\ typ # "real" -> ReadVector(mem, p, len)
    [] OTHER -> ReadReal(mem, p)
ReadChain(mem, len, typ) ==
  LET from[p \in Nat] ==
        IF p > Len(mem) THEN <<>>
        ELSE LET r == ReadChange(mem, p, len, typ)
             IN <<[delta |-> r.delta, val |-> r.val]>> \o from[r.next]
  IN from[1]

----------------------------------------------------------------------------
(* A line of the VCD file: fstReaderIterBlocks2 without callbacks.          *)
IdSpace(h) == <<Space>> \o VcdIDForFwrite(h)
VcdLineRaw(typ, len, val, h) ==     (* Mutant: strings are not escaped.     *)
  CASE len = 1 -> val \o VcdIDForFwrite(h)
    [] len = 0 -> <<115>> \o val \o IdSpace(h)
    [] OTHER -> <<IF typ = "port" THEN 112 ELSE IF typ = "real" THEN 114 ELSE 98>> \o val \o IdSpace(h)
VcdLine(typ, len, val, h) ==
  CASE len = 1 -> val \o VcdIDForFwrite(h)
    [] len = 0 -> <<115>> \o BinToEsc(val) \o IdSpace(h)
    [] OTHER -> <<IF typ = "port" THEN 112 ELSE IF typ = "real" THEN 114 ELSE 98>> \o val \o IdSpace(h)

----------------------------------------------------------------------------
Send(how, what, result) == conversion' = how /\ sent' = what /\ got' = result

ValueInit == conversion = "none" /\ sent = <<>> /\ got = <<>>

(* A number behind another one, as a varint, a signed varint and a word.    *)
SendNumber(before, v) ==
  LET mem == Varint[before] \o Varint[v] \o <<255, 1>>
      p   == 1 + SkipLen(mem, 1)
      signed == SVarint[Signed(before)] \o SVarint[Signed(v)] \o <<255, 1>>
  IN Send("number", <<before, v>>,
          [first |-> GetVarint(mem, 1), second |-> GetVarint(mem, p), next |-> p + SkipLen(mem, p),
           left |-> VarintToLeft(v), readable |-> Readable(mem, p),
           signed |-> <<GetSVarint(signed, 1), GetSVarint(signed, 1 + SkipLen(signed, 1))>>,
           word |-> ReadWord(WriteWord(v, (Width + 7) \div 8))])
SendTimes(times) == Send("times", times, ReadTimes(WriteTimes(times), Len(times)))
SendBlackouts(times) ==
  LET list == [i \in 1 .. Len(times) |-> [active |-> i % 2, tim |-> times[i]]]
  IN Send("blackouts", list, ReadBlackouts(WriteBlackouts(list)))
SendText(text) ==
  Send("text", text, [escaped |-> BinToEsc(text), len |-> BinToEscConvertedLen(text), back |-> EscToBin(BinToEsc(text))])
SendTable(name, literals, vals, min_valbits) ==
  LET string == EnumTableString(name, literals, vals, min_valbits)
  IN Send("table", [name |-> name, literals |-> literals, vals |-> vals, min_valbits |-> min_valbits],
          [used |-> Len(string) + 1, allocated |-> EnumTableLen(name, literals, vals, min_valbits),
           table |-> ExtractEnumTable(string)])
SendTimescale(tv, unit) ==
  Send("timescale", <<tv, unit>>, PrintTimescale(SignedByte(TimescaleByte(TimescaleFromString(tv, unit)))))
SendVector(bits, v) ==
  LET words(size) == Words(v, size, (bits \div size) + 1) IN
  \E shifts \in {"modulo", "zero"} :
    Send("vector", <<bits, v>>,
         [single |-> Digits(v, bits), vec32 |-> EmitVec32(bits, words(WordBits)),
          vec64 |-> IF Wide THEN EmitVec64(bits, words(2 * WordBits), shifts) ELSE <<>>])
SendChain(len, typ, changes) ==
  Send("chain", [len |-> len, changes |-> changes], ReadChain(PackChain(len, changes), len, typ))
SendLine(len, typ, val, h) ==
  Send("line", [len |-> len, typ |-> typ, val |-> val, handle |-> h], VcdLine(typ, len, val, h))

(* Behind the other end nothing is left.                                    *)
Arrived == conversion # "none" /\ Send("none", <<>>, <<>>)

ValueNext ==
  \/ conversion = "none" /\ \E before, v \in Numbers : SendNumber(before, v)
  \/ conversion = "none" /\ \E times \in TimeLists : SendTimes(times) \/ SendBlackouts(times)
  \/ conversion = "none" /\ \E text \in Texts : SendText(text)
  \/ conversion = "none" /\ \E table \in Tables, min_valbits \in {0, 3} :
                              SendTable(table.name, table.literals, table.vals, min_valbits)
  \/ conversion = "none" /\ \E tv \in {1, 10, 100}, e \in Exponents : SendTimescale(tv, e[1])
  \/ conversion = "none" /\ \E vector \in Vectors : SendVector(vector[1], vector[2])
  \/ conversion = "none" /\ \E c \in Chains : SendChain(c.len, c.typ, c.changes)
  \/ conversion = "none" /\ \E c \in Chains, h \in Handles : SendLine(c.len, c.typ, c.changes[1].val, h)
  \/ Arrived
ValueSpec == ValueInit /\ [][ValueNext]_valueVars

----------------------------------------------------------------------------
(* Numbers are read back whatever stands before and behind them, with the   *)
(* same length by both ways of writing them, and no longer than the         *)
(* TALOS-2023-1783 checks allow (fstapi.c:421-716, 549).                    *)
VarintsArrive ==
  conversion = "number" =>
    /\ <<got.first, got.second>> = sent
    /\ got.next = 1 + Len(Varint[sent[1]]) + Len(got.left) /\ got.left = Varint[sent[2]]
    /\ got.readable
    /\ got.signed = <<Signed(sent[1]), Signed(sent[2])>>
    /\ got.word = sent[2]

(* A time lower than the one before it is a huge unsigned difference; the   *)
(* readers' sums wrap around and find it again (fstapi.c:3259, 5202-5212),  *)
(* and so with the times of blackouts (2043-2047, 4881-4887).               *)
TimesArrive == conversion \in {"times", "blackouts"} => got = sent

(* Every number the file holds is read as it was written: also every time   *)
(* scale a string can set, printed as it was set, through a byte that has a *)
(* sign only for the reader (fstapi.c:2478-2525, 4330-4366).                *)
NumbersArrive ==
  /\ VarintsArrive
  /\ TimesArrive
  /\ conversion = "timescale" => got = sent

(* Escaping is undone, leaves no white space, and takes the room that was   *)
(* counted for it (fstapi.c:7010-7147).                                     *)
EscapesArrive ==
  conversion = "text" =>
    /\ got.back = sent /\ Len(got.escaped) = got.len
    /\ \A i \in 1 .. Len(got.escaped) : Printable(got.escaped[i])

(* An enumeration table is extracted as it was created, its values filled   *)
(* up with zeros in front, and fits what was allocated for it               *)
(* (fstapi.c:2847-2898, 7150-7208): empty and blank literals included.      *)
TablesArrive ==
  conversion = "table" =>
    /\ got.used <= got.allocated
    /\ got.table.name = sent.name /\ got.table.literals = sent.literals
    /\ got.table.vals = [i \in 1 .. Len(sent.vals) |-> Zeros(Padding(sent.vals[i], sent.min_valbits)) \o sent.vals[i]]

(* No text is changed by what separates or escapes it.                      *)
TextsArrive == EscapesArrive /\ TablesArrive

(* A vector is the same text by whichever function it is emitted: the       *)
(* words of a wide one are in the right order, whole and partial ones       *)
(* (fstapi.c:3046-3116).                                                    *)
VectorsAgree == conversion = "vector" => got.vec32 = got.single

(* The same of fstWriterEmitValueChangeVec64, whose values are of uint64_t  *)
(* (fstapi.h:383).                                                          *)
WideVectorsAgree == conversion = "vector" /\ got.vec64 # <<>> => got.vec64 = got.single

(* A chain is read back change by change: a value of one bit in lower case, *)
(* or - if it is none of the nine; every other value to the letter, packed  *)
(* or not, and reals that look like bits too (fstapi.c:1345-1473, 5780-6110,*)
(* 6676-6783).  A difference of times must leave four bits.                 *)
Canonical(len, val) ==
  IF len # 1 \/ IsBinary(val) THEN val ELSE <<RcvStr[RcvCode(val[1]) + 1]>>
ChainsArrive ==
  conversion = "chain" =>
    got = [i \in 1 .. Len(sent.changes) |->
             [delta |-> sent.changes[i].delta, val |-> Canonical(sent.len, sent.changes[i].val)]]

(* A line of the VCD file tells its handle and value: what is behind the    *)
(* last space, or behind the only character of a single bit, is the number  *)
(* of the handle in base 94; no white space of a string gets in between     *)
(* (fstapi.c:3892-3922, 5799-6087).                                         *)
IdNumber(id) == FoldRight(LAMBDA c, n : 94 * n + c - 32, id, 0)
LinesTellApart ==
  conversion = "line" =>
    LET spaces == {i \in 1 .. Len(got) : got[i] = Space}
        before == IF sent.len = 1 THEN 1 ELSE CHOOSE i \in spaces : \A j \in spaces : j <= i
    IN /\ IdNumber(SubSeq(got, before + 1, Len(got))) = sent.handle
       /\ sent.len = 0 => got[1] = 115 /\ EscToBin(SubSeq(got, 2, (CHOOSE i \in spaces : \A j \in spaces : i <= j) - 1)) = sent.val
=============================================================================
