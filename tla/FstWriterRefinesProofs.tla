----------------------- MODULE FstWriterRefinesProofs -----------------------
(***************************************************************************)
(* The writer, with a file that is read back, implements Waveform: first   *)
(* what the reader's sums give back, then that nothing in the file or in   *)
(* memory is later than the current time, then the step of the wave form   *)
(* every step of the writer is.  Last, that the file it closes is one the  *)
(* reader of FstReader can rely on.                                        *)
(***************************************************************************)
EXTENDS FstWriterProofs, FstWriterRefines, Induction, SequenceTheorems

USE DEF FlagType, CounterType, BufferType, FileType, ctx, vchg, clock, file, vars

(* The reader's running sum is the only sequence of times that decodes.     *)
LEMMA SumIsUnique ==
  ASSUME NEW deltas \in Seq(Nat), NEW ts \in Seq(Nat), DecodesTimes(deltas, ts)
  PROVE  RunningSum(deltas) = ts
  <1> DEFINE n == Len(deltas)
             Sums(f) == f = [k \in 0 .. n |-> IF k = 0 THEN 0 ELSE f[k - 1] + deltas[k]]
             g == [k \in 0 .. n |-> IF k = 0 THEN 0 ELSE ts[k]]
             sum == CHOOSE f : Sums(f)
  <1>0. n \in Nat /\ Len(ts) = n
    BY DEF DecodesTimes
  <1>1. Sums(g)
    <2>1. \A k \in 1 .. n : k - 1 \in 0 .. n /\ g[k - 1] = (IF k = 1 THEN 0 ELSE ts[k - 1])
      BY <1>0
    <2>2. \A k \in 1 .. n : ts[k] = deltas[k] + (IF k = 1 THEN 0 ELSE ts[k - 1])
      BY <1>0, Zenon DEF DecodesTimes
    <2>3. \A k \in 1 .. n : ts[k] = g[k - 1] + deltas[k]
      <3>1. \A k \in 1 .. n : deltas[k] \in Nat /\ (k # 1 => ts[k - 1] \in Nat)
        BY <1>0
      <3> HIDE DEF g
      <3> TAKE k \in 1 .. n
      <3>2. /\ g[k - 1] = (IF k = 1 THEN 0 ELSE ts[k - 1])
            /\ ts[k] = deltas[k] + (IF k = 1 THEN 0 ELSE ts[k - 1])
            /\ deltas[k] \in Nat /\ (k # 1 => ts[k - 1] \in Nat)
        BY <2>1, <2>2, <3>1, Zenon
      <3> QED
        BY <3>2
    <2>4. \A k \in 0 .. n : k = 0 \/ k \in 1 .. n
      BY <1>0
    <2>5. \A k \in 0 .. n : (IF k = 0 THEN 0 ELSE ts[k])
                             = (IF k = 0 THEN 0 ELSE g[k - 1] + deltas[k])
      BY <2>3, <2>4, Zenon
    <2> HIDE DEF g
    <2>6. g = [k \in 0 .. n |-> IF k = 0 THEN 0 ELSE ts[k]]
      BY Zenon DEF g
    <2> QED
      BY <2>5, <2>6, Zenon
  <1>2. Sums(sum)
    BY <1>1, Zenon
  <1>3. RunningSum(deltas) = [k \in 1 .. n |-> sum[k]]
    BY Zenon DEF RunningSum
  <1> HIDE DEF sum
  <1>4. \A k \in 0 .. n : sum[k] = g[k]
    <2>1. sum[0] = 0 /\ g[0] = 0
      BY <1>0, <1>2
    <2>2. \A k \in 1 .. n : /\ k \in 0 .. n /\ k # 0
      BY <1>0
    <2>3. ASSUME NEW k \in 1 .. n, sum[k - 1] = g[k - 1] PROVE sum[k] = g[k]
      <3>1. sum[k] = sum[k - 1] + deltas[k] 
        BY <1>2, <2>2, Zenon
      <3>2. g[k] = g[k - 1] + deltas[k]
        BY <1>1, <2>2, Zenon
      <3> QED
        BY <3>1, <3>2, <2>3, Zenon
    <2> HIDE DEF g
    <2>4. Alike(sum, g, n)
      BY <2>1, <2>3, Zenon DEF Alike
    <2> HIDE DEF n
    <2> QED
      BY <1>0, <2>4, SameRecursion
  <1>5. \A k \in 1 .. n : sum[k] = ts[k]
    BY <1>0, <1>4
  <1>6. ts = [k \in 1 .. n |-> ts[k]]
    BY <1>0
  <1> QED
    BY <1>3, <1>5, <1>6, Zenon

(* The changes a sequence of marks tells.                                 *)
Changes(ms) == [k \in 1 .. Len(ms) |-> [time |-> ms[k].time, val |-> ms[k].val]]

(* A chain that decodes with a table gives the changes it was made of.      *)
LEMMA ChangesRead ==
  ASSUME NEW records \in Seq(Change), NEW ms \in Seq(Mark),
         NEW deltas \in Seq(Nat), NEW ts \in Seq(Nat),
         DecodesTimes(deltas, ts), DecodesChain(records, ms, ts)
  PROVE  DecodeChain(records, TimeTable(deltas)) = Changes(ms)
  <1>1. TimeTable(deltas) = ts
    BY SumIsUnique DEF TimeTable
  <1> DEFINE n == Len(records)
             ds == [k \in 1 .. n |-> records[k].delta]
             is == [k \in 1 .. n |-> ms[k].idx]
  <1>2. n \in Nat /\ Len(ms) = n
    BY DEF DecodesChain
  <1>3. \A k \in 1 .. n : records[k] \in Change /\ ms[k] \in Mark
    BY <1>2
  <1>4. ds \in Seq(Nat) /\ Len(ds) = n /\ is \in Seq(Nat) /\ Len(is) = n
    <2>1. \A k \in 1 .. n : records[k].delta \in Nat /\ ms[k].idx \in Nat
      BY <1>3 DEF Change, Mark
    <2> QED
      BY <1>2, <2>1
  <1>5. DecodesTimes(ds, is)
    <2>1. \A k \in 1 .. n : ms[k].idx = records[k].delta + (IF k = 1 THEN 0 ELSE ms[k - 1].idx)
      BY Zenon DEF DecodesChain
    <2>2. \A k \in 1 .. n : k # 1 => k - 1 \in 1 .. n
      BY <1>2
    <2> QED
      BY <1>4, <2>1, <2>2 DEF DecodesTimes
  <1> HIDE DEF ds, is
  <1>6. RunningSum(ds) = is
    BY <1>4, <1>5, SumIsUnique
  <1>7. DecodeChain(records, ts) = [k \in 1 .. n |-> [time |-> ts[is[k] + 1], val |-> records[k].val]]
    BY <1>6, Zenon DEF DecodeChain, ds
  <1>8. ASSUME NEW k \in 1 .. n
        PROVE  ts[is[k] + 1] = ms[k].time /\ records[k].val = ms[k].val
    BY Zenon DEF DecodesChain, is
  <1> QED
    BY <1>1, <1>2, <1>7, <1>8, Zenon DEF Changes

(* What DecodeSections adds up, section by section.                         *)
Decoded(b, h) == DecodeChain(b.chain[h], TimeTable(b.tchn))
Adds(f, bs, h) ==
  f = [i \in 0 .. Len(bs) |-> IF i = 0 THEN <<>> ELSE f[i - 1] \o Decoded(bs[i], h)]

(* There is such a sum for every sequence of sections.                      *)
LEMMA AddsExist ==
  ASSUME NEW S, NEW bs \in Seq(S), NEW h
  PROVE  \E f : Adds(f, bs, h)
  <1> DEFINE n == Len(bs)
             Upto(f, m) ==
               f = [i \in 0 .. m |-> IF i = 0 THEN <<>> ELSE f[i - 1] \o Decoded(bs[i], h)]
             Has(m) == \E f : Upto(f, m)
             T == {m \in Nat : m <= n => Has(m)}
  <1>0. n \in Nat
    OBVIOUS
  <1> HIDE DEF n, Has
  <1>1. 0 \in T
    <2>1. Upto([i \in 0 .. 0 |-> <<>>], 0)
      <3>1. \A i \in 0 .. 0 : i = 0
        OBVIOUS
      <3> QED
        BY <3>1, Zenon
    <2>2. Has(0)
      BY <2>1, Zenon DEF Has
    <2> QED
      BY <2>2
  <1>2. ASSUME NEW m \in T PROVE m + 1 \in T
    <2> SUFFICES ASSUME m + 1 <= n PROVE Has(m + 1)
      OBVIOUS
    <2>0. m \in Nat /\ Has(m)
      BY <1>0
    <2>1. PICK f : Upto(f, m)
      BY <2>0, Zenon DEF Has
    <2> DEFINE g == [i \in 0 .. m + 1 |-> IF i = m + 1 THEN f[m] \o Decoded(bs[m + 1], h) ELSE f[i]]
    <2>2. \A i \in 0 .. m + 1 : i = m + 1 \/ i \in 0 .. m
      BY <2>0
    <2>3. \A i \in 0 .. m : i # m + 1 /\ i \in 0 .. m + 1
      BY <2>0
    <2>4. \A i \in 0 .. m : i # 0 => i - 1 \in 0 .. m
      BY <2>0
    <2>5. m + 1 # 0 /\ (m + 1) - 1 = m /\ m \in 0 .. m /\ m + 1 \in 0 .. m + 1
      BY <2>0
    <2>6. \A i \in 0 .. m : g[i] = f[i]
      BY <2>3, Zenon
    <2>7. g[m + 1] = f[m] \o Decoded(bs[m + 1], h)
      BY <2>5, Zenon
    <2> DEFINE e(i) == IF i = 0 THEN <<>> ELSE g[i - 1] \o Decoded(bs[i], h)
    <2> HIDE DEF g
    <2>8. ASSUME NEW i \in 0 .. m + 1
          PROVE  g[i] = e(i)
      <3>1. CASE i = m + 1
        BY <3>1, <2>5, <2>6, <2>7
      <3>2. CASE i \in 0 .. m
        <4>1. f[i] = IF i = 0 THEN <<>> ELSE f[i - 1] \o Decoded(bs[i], h)
          BY <2>1, <3>2, Zenon
        <4>2. i # 0 => g[i - 1] = f[i - 1]
          BY <3>2, <2>4, <2>6, Zenon
        <4> QED
          BY <3>2, <4>1, <4>2, <2>6, Zenon
      <3> QED
        BY <3>1, <3>2, <2>2
    <2>9. g = [i \in 0 .. m + 1 |-> g[i]]
      BY Zenon DEF g
    <2>10. Upto(g, m + 1)
      BY <2>8, <2>9, Zenon
    <2> QED
      BY <2>10, Zenon DEF Has
  <1> HIDE DEF T
  <1>3. T = Nat
    <2>1. T \in SUBSET Nat
      BY DEF T
    <2> QED
      BY <1>1, <1>2, <2>1, SetInduction
  <1>4. Has(n)
    BY <1>0, <1>3 DEF T
  <1> QED
    BY <1>4, Zenon DEF Has, Adds, n

(* What a reader decodes is the last of these sums.                         *)
LEMMA SectionsAdd ==
  ASSUME NEW S, NEW bs \in Seq(S), NEW h
  PROVE  \E f : Adds(f, bs, h) /\ DecodeSections(bs, h) = f[Len(bs)]
  <1> DEFINE F == CHOOSE f : Adds(f, bs, h)
  <1>1. Adds(F, bs, h)
    BY AddsExist, Zenon
  <1>2. DecodeSections(bs, h) = F[Len(bs)]
    BY Zenon DEF DecodeSections, Adds, Decoded
  <1> QED
    BY <1>1, <1>2, Zenon

(* Decoding no section, and one section more.                               *)
LEMMA NothingDecoded == ASSUME NEW h PROVE DecodeSections(<<>>, h) = <<>>
  <1>1. PICK f : Adds(f, <<>>, h) /\ DecodeSections(<<>>, h) = f[Len(<<>>)]
    <2>1. <<>> \in Seq({})
      OBVIOUS
    <2> QED
      BY <2>1, SectionsAdd, Zenon
  <1>2. Len(<<>>) = 0 /\ 0 \in 0 .. Len(<<>>)
    OBVIOUS
  <1> QED
    BY <1>1, <1>2, Zenon DEF Adds

(* A section more adds what it decodes to.                                  *)
LEMMA SectionsGrow ==
  ASSUME NEW S, NEW bs \in Seq(S), NEW b \in S, NEW h
  PROVE  DecodeSections(Append(bs, b), h) = DecodeSections(bs, h) \o Decoded(b, h)
  <1> DEFINE n == Len(bs)
             cs == Append(bs, b)
  <1>1. /\ n \in Nat /\ cs \in Seq(S) /\ Len(cs) = n + 1 /\ cs[n + 1] = b
        /\ \A i \in 1 .. n : cs[i] = bs[i]
    OBVIOUS
  <1>2. PICK f : Adds(f, bs, h) /\ DecodeSections(bs, h) = f[n]
    BY SectionsAdd, Zenon
  <1> HIDE DEF cs, n
  <1>3. PICK g : Adds(g, cs, h) /\ DecodeSections(cs, h) = g[n + 1]
    BY <1>1, SectionsAdd, Zenon
  <1>4. \A i \in 0 .. n : f[i] = IF i = 0 THEN <<>> ELSE f[i - 1] \o Decoded(bs[i], h)
    BY <1>2, Zenon DEF Adds, n
  <1>5. \A i \in 0 .. n + 1 : g[i] = IF i = 0 THEN <<>> ELSE g[i - 1] \o Decoded(cs[i], h)
    BY <1>1, <1>3, Zenon DEF Adds
  <1>6. Alike(f, g, n)
    <2>1. 0 \in 0 .. n /\ 0 \in 0 .. n + 1
          /\ \A i \in 1 .. n : i \in 0 .. n /\ i \in 0 .. n + 1 /\ i # 0
      BY <1>1
    <2> QED
      BY <1>1, <1>4, <1>5, <2>1, Zenon DEF Alike
  <1>7. f[n] = g[n]
    <2>1. n \in 0 .. n
      BY <1>1
    <2> QED
      BY <1>1, <1>6, <2>1, SameRecursion, Zenon
  <1>8. g[n + 1] = g[n] \o Decoded(b, h)
    <2>1. n + 1 \in 0 .. n + 1 /\ n + 1 # 0 /\ (n + 1) - 1 = n
      BY <1>1
    <2> QED
      BY <1>1, <1>5, <2>1, Zenon
  <1> QED
    BY <1>2, <1>3, <1>7, <1>8, Zenon DEF cs

----------------------------------------------------------------------------
(* What a reader has seen by time t.                                        *)
Seen(t) == [time : 0 .. t, val : Value]
MarksSeen == \A h \in Handle : marks[h] \in Seq([idx : Nat, time : 0 .. curtime, val : Value])
FileSeen == \A h \in Handle : DecodeSections(blocks, h) \in Seq(Seen(curtime))
LockedWritten == size_limit_locked => blocks # <<>>
ReadInv == MarksSeen /\ FileSeen /\ LockedWritten

(* Marks that are not later than t give changes that are not.               *)
LEMMA ChangesSeen ==
  ASSUME NEW t \in Nat, NEW ms \in Seq([idx : Nat, time : 0 .. t, val : Value])
  PROVE  Changes(ms) \in Seq(Seen(t))
  <1> DEFINE M == [idx : Nat, time : 0 .. t, val : Value]
  <1>1. \A k \in 1 .. Len(ms) : ms[k] \in M
    <2> HIDE DEF M
    <2>1. ms \in Seq(M)
      BY Zenon DEF M
    <2> QED
      BY <2>1
  <1>2. \A k \in 1 .. Len(ms) : [time |-> ms[k].time, val |-> ms[k].val] \in Seen(t)
    BY <1>1 DEF Seen
  <1> QED
    BY <1>2 DEF Changes

(* The section in memory, written out.                                      *)
LEMMA WrittenRead ==
  ASSUME TypeOK, Dumping, TableDecodes, ChainsDecode,
         NEW full, NEW stop, WriteSection(full, stop), NEW h \in Handle
  PROVE  DecodeSections(blocks', h) = DecodeSections(blocks, h) \o Changes(marks[h])
  <1> DEFINE b == Section(tail, curtime, chain, tchn)
  <1>1. b.chain = chain /\ b.tchn = tchn
    BY DEF Section
  <1>2. blocks' = Append(blocks, b)
    BY Zenon DEF WriteSection
  <1> DEFINE S == Block \cup {b}
  <1> HIDE DEF b
  <1>3. blocks \in Seq(S) /\ b \in S
    <2>1. blocks \in Seq(Block)
      BY DEF TypeOK
    <2> QED
      BY <2>1
  <1> HIDE DEF S
  <1>4. DecodeSections(blocks', h) = DecodeSections(blocks, h) \o Decoded(b, h)
    BY <1>2, <1>3, SectionsGrow, Zenon
  <1>5. /\ chain[h] \in Seq(Change) /\ marks[h] \in Seq(Mark)
        /\ tchn \in Seq(Nat) /\ times \in Seq(Nat)
    BY DEF TypeOK
  <1>6. DecodesTimes(tchn, times) /\ DecodesChain(chain[h], marks[h], times)
    BY Zenon DEF TableDecodes, ChainsDecode
  <1>7. DecodeChain(chain[h], TimeTable(tchn)) = Changes(marks[h])
    BY <1>5, <1>6, ChangesRead, Zenon
  <1> QED
    BY <1>1, <1>4, <1>7, Zenon DEF Decoded

(* The section close writes when time never advanced.                       *)
Initially(h) == IF h \in Fixed THEN <<[time |-> 0, val |-> curval[h]]>> ELSE <<>>
LEMMA ClonedRead ==
  ASSUME TypeOK, CloseInitial, Fixed # {}, NEW h \in Handle
  PROVE  DecodeSections(blocks', h) = Initially(h)
  <1> DEFINE cloned == [g \in Handle |-> IF g \in Fixed
                          THEN <<[delta |-> 0, val |-> curval[g]]>> ELSE <<>>]
             b == Section(EmitSectionHeader(0, curval), 0, cloned, <<0>>)
             ms == IF h \in Fixed THEN <<[idx |-> 0, time |-> 0, val |-> curval[h]]>> ELSE <<>>
  <1>1. blocks' = <<b>>
    BY Zenon DEF CloseInitial
  <1>2. b.chain = cloned /\ b.tchn = <<0>>
    BY DEF Section
  <1>3. curval[h] \in Value
    BY DEF TypeOK
  <1>4. /\ cloned[h] \in Seq(Change) /\ ms \in Seq(Mark)
        /\ DecodesChain(cloned[h], ms, <<0>>)
    <2>1. CASE h \in Fixed
      <3>1. /\ cloned[h] = <<[delta |-> 0, val |-> curval[h]]>>
            /\ ms = <<[idx |-> 0, time |-> 0, val |-> curval[h]]>>
        BY <2>1, Zenon
      <3> DEFINE r == [delta |-> 0, val |-> curval[h]]
                 m == [idx |-> 0, time |-> 0, val |-> curval[h]]
      <3>2. r \in Change /\ m \in Mark
        BY <1>3 DEF Change, Mark
      <3>3. r.delta = 0 /\ r.val = m.val /\ m.idx = 0 /\ m.time = 0
        OBVIOUS
      <3> HIDE DEF r, m
      <3>4. \A k \in 1 .. 1 : k = 1
        OBVIOUS
      <3>5. /\ <<r>> \in Seq(Change) /\ <<m>> \in Seq(Mark)
            /\ Len(<<r>>) = 1 /\ Len(<<m>>) = 1 /\ <<r>>[1] = r /\ <<m>>[1] = m
            /\ Len(<<0>>) = 1 /\ <<0>>[0 + 1] = 0
        BY <3>2
      <3>6. DecodesChain(<<r>>, <<m>>, <<0>>)
        BY <3>3, <3>4, <3>5 DEF DecodesChain
      <3> QED
        BY <3>1, <3>5, <3>6, Zenon DEF r, m
    <2>2. CASE h \notin Fixed
      <3>1. cloned[h] = <<>> /\ ms = <<>>
        BY <2>2, Zenon
      <3> QED
        BY <3>1 DEF DecodesChain
    <2> QED
      BY <2>1, <2>2
  <1>5. DecodesTimes(<<0>>, <<0>>) /\ <<0>> \in Seq(Nat)
    <2>1. \A k \in 1 .. 1 : k = 1
      OBVIOUS
    <2>2. Len(<<0>>) = 1 /\ <<0>>[1] = 0 /\ <<0>> \in Seq(Nat)
      OBVIOUS
    <2> QED
      BY <2>1, <2>2 DEF DecodesTimes
  <1>6. Changes(ms) = Initially(h)
    BY DEF Changes, Initially
  <1> HIDE DEF b, cloned, ms
  <1>7. DecodeChain(cloned[h], TimeTable(<<0>>)) = Changes(ms)
    BY <1>4, <1>5, ChangesRead
  <1>8. blocks' = Append(<<>>, b) /\ <<>> \in Seq({b}) /\ b \in {b}
    BY <1>1
  <1>9. DecodeSections(blocks', h) = DecodeSections(<<>>, h) \o Decoded(b, h)
    BY <1>8, SectionsGrow, Zenon
  <1>10. Decoded(b, h) = Initially(h) /\ DecodeSections(<<>>, h) = <<>>
    BY <1>2, <1>6, <1>7, NothingDecoded, Zenon DEF Decoded
  <1>11. <<>> \o Initially(h) = Initially(h)
    BY DEF Initially
  <1> QED
    BY <1>9, <1>10, <1>11, Zenon

----------------------------------------------------------------------------
(* The clock does not run backwards, except for close before the first time.*)
LEMMA ClockStays == [Next]_vars => CloseInitial \/ TimeChanged \/ curtime' = curtime
  <1> SUFFICES ASSUME [Next]_vars PROVE CloseInitial \/ TimeChanged \/ curtime' = curtime
    OBVIOUS
  <1>1. CASE Steady \/ Recorded \/ Queued \/ Stopped
    BY <1>1, Zenon DEF Steady, Recorded, Queued, Stopped, Kept
  <1>2. CASE Close
    BY <1>2, Zenon DEF Close, CloseTruncate, CloseLocked, CloseFlush, CloseEmpty
  <1> QED
    BY <1>1, <1>2, NextCases, Zenon
(* The range of the clock, and that it does not run backwards.              *)
LEMMA ClockGrows ==
  TypeOK /\ [Next]_vars =>
    curtime \in Nat /\ curtime' \in Nat /\ (CloseInitial \/ curtime <= curtime')
  <1> SUFFICES ASSUME TypeOK, [Next]_vars
               PROVE  curtime \in Nat /\ curtime' \in Nat /\ (CloseInitial \/ curtime <= curtime')
    OBVIOUS
  <1>1. curtime \in Nat
    BY BoundsAssumption DEF BoundsAssumption, TypeOK
  <1>2. ASSUME TimeChanged PROVE curtime' \in Nat /\ curtime <= curtime'
    <2>1. PICK tim \in 0 .. MaxTime : curtime <= tim /\ curtime' = tim
      BY <1>2, Zenon DEF TimeChanged, EmitTimeChange, FirstTimeChange, PlainTimeChange,
         FlushTimeChange, EmptyFlushTimeChange, BeginTime
    <2> QED
      BY <2>1, BoundsAssumption DEF BoundsAssumption
  <1>3. ASSUME CloseInitial PROVE curtime' \in Nat
    BY <1>3 DEF CloseInitial
  <1> QED
    BY <1>1, <1>2, <1>3, ClockStays

(* What was seen by a time has been seen by a later one.                    *)
LEMMA SeenGrows ==
  ASSUME NEW t \in Nat, NEW u \in Nat, t <= u
  PROVE  Seq(Seen(t)) \subseteq Seq(Seen(u))
  <1>1. Seen(t) \subseteq Seen(u)
    BY DEF Seen
  <1> HIDE DEF Seen
  <1> QED
    BY <1>1

(* No record is later than the current time after a step, either.           *)
LEMMA MarksSeenStep == TypeOK /\ MarksSeen /\ [Next]_vars => MarksSeen'
  <1> SUFFICES ASSUME TypeOK, MarksSeen, [Next]_vars PROVE MarksSeen'
    OBVIOUS
  <1> DEFINE M(t) == [idx : Nat, time : 0 .. t, val : Value]
  <1>0. \A h \in Handle : marks[h] \in Seq(M(curtime))
    BY Zenon DEF MarksSeen
  <1>1. ASSUME UNCHANGED marks, ~CloseInitial PROVE MarksSeen'
    <2>1. M(curtime) \subseteq M(curtime')
      BY <1>1, ClockGrows
    <2> HIDE DEF M
    <2>2. \A h \in Handle : marks'[h] \in Seq(M(curtime'))
      BY <1>0, <1>1, <2>1
    <2> QED
      BY <2>2, Zenon DEF MarksSeen, M
  <1>2. ASSUME EmptyBuffer PROVE MarksSeen'
    <2>1. \A h \in Handle : marks'[h] = <<>>
      BY <1>2 DEF EmptyBuffer, EmptyChains
    <2> HIDE DEF M
    <2>2. <<>> \in Seq(M(curtime'))
      OBVIOUS
    <2> QED
      BY <2>1, <2>2, Zenon DEF MarksSeen, M
  <1>3. CASE Recorded
    <2>1. PICK h \in Handle, v \in Value : AppendChange(h, v)
      BY <1>3, Zenon DEF Recorded
    <2>2. curtime' = curtime
      BY <1>3, Zenon DEF Recorded, Kept
    <2> DEFINE m == [idx |-> tchn_idx, time |-> curtime, val |-> v]
    <2>3. m \in M(curtime)
      BY BoundsAssumption DEF BoundsAssumption, TypeOK
    <2>4. marks' = [marks EXCEPT ![h] = Append(marks[h], m)] /\ marks \in [Handle -> Seq(Mark)]
      BY <2>1 DEF AppendChange, TypeOK
    <2> HIDE DEF m, M
    <2>5. Append(marks[h], m) \in Seq(M(curtime))
      BY <1>0, <2>3
    <2>6. \A g \in Handle : marks'[g] \in Seq(M(curtime))
      BY <1>0, <2>4, <2>5
    <2> QED
      BY <2>2, <2>6, Zenon DEF MarksSeen, M
  <1>4. CASE Steady \/ Queued \/ Stopped
    <2>1. UNCHANGED <<marks, curtime>>
      BY <1>4, Zenon DEF Steady, Queued, Stopped, Kept
    <2> QED
      BY <2>1, Zenon DEF MarksSeen
  <1>5. CASE TimeChanged \/ Close
    <2>1. CASE CloseInitial
      BY <1>2, <2>1, Zenon DEF CloseInitial
    <2> QED
      BY <1>1, <1>2, <1>5, <2>1, BufferCases, Zenon
  <1> QED
    BY <1>3, <1>4, <1>5, NextCases, Zenon

(* No change in the file is later than the current time after a step.       *)
LEMMA FileSeenStep ==
  TypeInv /\ LimitStops /\ Unstarted /\ TableDecodes /\ ChainsDecode /\ MarksSeen /\ FileSeen
    /\ [Next]_vars => FileSeen'
  <1> SUFFICES ASSUME TypeInv, LimitStops, Unstarted, TableDecodes, ChainsDecode, MarksSeen,
                      FileSeen, [Next]_vars
               PROVE  FileSeen'
    OBVIOUS
  <1>0. TypeOK /\ curtime \in Nat /\ curtime' \in Nat
    BY ClockGrows, Zenon DEF TypeInv
  <1>1. ASSUME blocks' = blocks, ~CloseInitial PROVE FileSeen'
    <2>1. Seq(Seen(curtime)) \subseteq Seq(Seen(curtime'))
      BY <1>0, <1>1, ClockGrows, SeenGrows, Zenon
    <2> QED
      BY <1>1, <2>1, Zenon DEF FileSeen
  <1>2. ASSUME NEW full, NEW stop, WriteSection(full, stop), Dumping, ~CloseInitial
        PROVE  FileSeen'
    <2> SUFFICES ASSUME NEW h \in Handle
                 PROVE  DecodeSections(blocks', h) \in Seq(Seen(curtime'))
      BY Zenon DEF FileSeen
    <2>1. DecodeSections(blocks', h) = DecodeSections(blocks, h) \o Changes(marks[h])
      BY <1>0, <1>2, WrittenRead, Zenon
    <2>2. Changes(marks[h]) \in Seq(Seen(curtime))
      BY <1>0, ChangesSeen, Zenon DEF MarksSeen
    <2>3. DecodeSections(blocks, h) \in Seq(Seen(curtime))
      BY Zenon DEF FileSeen
    <2> DEFINE S == Seen(curtime)
    <2> HIDE DEF S
    <2>4. DecodeSections(blocks, h) \o Changes(marks[h]) \in Seq(S)
      <3>1. DecodeSections(blocks, h) \in Seq(S) /\ Changes(marks[h]) \in Seq(S)
        BY <2>2, <2>3, Zenon DEF S
      <3> QED
        BY <3>1, ConcatProperties, Zenon
    <2>5. Seq(Seen(curtime)) \subseteq Seq(Seen(curtime'))
      BY <1>0, <1>2, ClockGrows, SeenGrows, Zenon
    <2> QED
      BY <2>1, <2>4, <2>5, Zenon DEF S
  <1>3. CASE Steady \/ Recorded \/ Queued \/ Stopped
    <2>1. blocks' = blocks /\ curtime' = curtime
      BY <1>3, Zenon DEF Steady, Recorded, Queued, Stopped, Kept
    <2> QED
      BY <2>1, Zenon DEF FileSeen
  <1>4. CASE CloseInitial
    <2>1. CASE Fixed = {}
      <3>1. blocks' = blocks /\ curtime' = 0 /\ blocks = <<>>
        BY <1>4, <2>1, Zenon DEF CloseInitial, Unstarted
      <3> QED
        BY <3>1, NothingDecoded DEF FileSeen
    <2>2. CASE Fixed # {}
      <3> SUFFICES ASSUME NEW h \in Handle
                   PROVE  DecodeSections(blocks', h) \in Seq(Seen(curtime'))
        BY Zenon DEF FileSeen
      <3>1. DecodeSections(blocks', h) = Initially(h)
        BY <1>0, <1>4, <2>2, ClonedRead, Zenon
      <3>2. curtime' = 0 /\ curval[h] \in Value
        BY <1>0, <1>4 DEF CloseInitial, TypeOK
      <3>3. [time |-> 0, val |-> curval[h]] \in Seen(0)
        BY <3>2 DEF Seen
      <3>4. Initially(h) \in Seq(Seen(0))
        BY <3>3 DEF Initially
      <3> QED
        BY <3>1, <3>2, <3>4, Zenon
    <2> QED
      BY <2>1, <2>2
  <1>5. CASE TimeChanged
    <2>1. PICK tim \in 0 .. MaxTime : EmitTimeChange(tim)
      BY <1>5, Zenon DEF TimeChanged
    <2>2. ~CloseInitial
      <3>1. phase' = "open"
        BY <2>1, Zenon DEF EmitTimeChange, FirstTimeChange, PlainTimeChange,
           FlushTimeChange, EmptyFlushTimeChange, BeginTime
      <3> QED
        BY <3>1 DEF CloseInitial, Finalize
    <2>3. CASE FlushTimeChange(tim)
      <3>1. Dumping
        BY <2>3, Zenon DEF FlushTimeChange, BeginTime, Dumping
      <3> QED
        BY <2>2, <2>3, <3>1, <1>2, Zenon DEF FlushTimeChange
    <2>4. CASE ~FlushTimeChange(tim)
      <3>1. blocks' = blocks
        BY <2>1, <2>4, Zenon DEF EmitTimeChange, FirstTimeChange, PlainTimeChange,
           EmptyFlushTimeChange
      <3> QED
        BY <3>1, <2>2, <1>1, Zenon
    <2> QED
      BY <2>3, <2>4
  <1>6. CASE Close /\ ~CloseInitial
    <2>1. CASE CloseTruncate
      <3>1. blocks' = blocks
        BY <2>1, <1>0, TruncateKeeps, Zenon DEF TypeInv
      <3> QED
        BY <3>1, <1>1, <1>6, Zenon
    <2>2. CASE CloseLocked \/ CloseEmpty
      <3>1. blocks' = blocks
        BY <2>2, Zenon DEF CloseLocked, CloseEmpty
      <3> QED
        BY <3>1, <1>1, <1>6, Zenon
    <2>3. CASE CloseFlush
      <3>1. Dumping
        BY <2>3, Zenon DEF CloseFlush, Finalize, Dumping
      <3> QED
        BY <2>3, <3>1, <1>2, <1>6, Zenon DEF CloseFlush
    <2> QED
      BY <1>6, <2>1, <2>2, <2>3, Zenon DEF Close
  <1> QED
    BY <1>3, <1>4, <1>5, <1>6, NextCases, Zenon

(* The size limit is reached by writing a section.                          *)
LEMMA LockedStep == TypeInv /\ LockedWritten /\ [Next]_vars => LockedWritten'
  <1> SUFFICES ASSUME TypeInv, LockedWritten, [Next]_vars PROVE LockedWritten'
    OBVIOUS
  <1>1. ASSUME UNCHANGED <<size_limit_locked, blocks>> PROVE LockedWritten'
    BY <1>1, Zenon DEF LockedWritten
  <1>2. ASSUME NEW b, blocks' = Append(blocks, b) PROVE LockedWritten'
    <2>1. blocks \in Seq(Block)
      BY DEF TypeInv, TypeOK
    <2>2. Append(blocks, b) # <<>>
      BY <2>1
    <2> QED
      BY <1>2, <2>2, Zenon DEF LockedWritten
  <1>3. CASE Steady \/ Recorded \/ Queued \/ Stopped
    BY <1>1, <1>3, Zenon DEF Steady, Recorded, Queued, Stopped, Kept
  <1>4. CASE TimeChanged
    BY <1>4, <1>1, <1>2, Zenon DEF TimeChanged, EmitTimeChange, FirstTimeChange,
       PlainTimeChange, FlushTimeChange, EmptyFlushTimeChange, WriteSection
  <1>5. CASE CloseTruncate
    <2>1. blocks' = blocks
      BY <1>5, TruncateKeeps, Zenon DEF TypeInv
    <2> QED
      BY <1>1, <1>5, <2>1, Zenon DEF CloseTruncate
  <1>6. CASE CloseLocked \/ CloseEmpty \/ CloseFlush
    BY <1>6, <1>1, <1>2, Zenon DEF CloseLocked, CloseEmpty, CloseFlush, WriteSection
  <1>7. CASE CloseInitial
    <2>1. CASE Fixed = {}
      BY <1>7, <1>1, <2>1, Zenon DEF CloseInitial
    <2>2. CASE Fixed # {}
      <3>1. PICK b : blocks' = <<b>>
        BY <1>7, <2>2, Zenon DEF CloseInitial
      <3>2. blocks' # <<>>
        BY <3>1
      <3> QED
        BY <3>2, Zenon DEF LockedWritten
    <2> QED
      BY <2>1, <2>2
  <1> QED
    BY <1>3, <1>4, <1>5, <1>6, <1>7, NextCases, Zenon DEF Close

(* The invariant holds of an empty file ...                                 *)
LEMMA ReadInit == Init => ReadInv
  <1> SUFFICES ASSUME Init PROVE ReadInv
    OBVIOUS
  <1>1. blocks = <<>> /\ ~size_limit_locked
    BY DEF Init
  <1>2. marks = [h \in Handle |-> <<>>] /\ curtime = 0
    BY DEF Init, EmptyChains
  <1>3. FileSeen
    <2> SUFFICES ASSUME NEW h \in Handle
                 PROVE  DecodeSections(blocks, h) \in Seq(Seen(curtime))
      BY Zenon DEF FileSeen
    <2>1. DecodeSections(blocks, h) = <<>>
      BY <1>1, NothingDecoded, Zenon
    <2> QED
      BY <2>1
  <1>4. MarksSeen
    <2> DEFINE S == [idx : Nat, time : 0 .. curtime, val : Value]
    <2> HIDE DEF S
    <2>1. <<>> \in Seq(S)
      OBVIOUS
    <2>2. \A h \in Handle : marks[h] = <<>>
      BY <1>2, Zenon
    <2> QED
      BY <2>1, <2>2, Zenon DEF MarksSeen, S
  <1>5. LockedWritten
    BY <1>1 DEF LockedWritten
  <1> QED
    BY <1>3, <1>4, <1>5, Zenon DEF ReadInv

(* ... and is preserved by every step.                                      *)
LEMMA ReadStep ==
  TypeInv /\ LimitStops /\ Unstarted /\ TableDecodes /\ ChainsDecode /\ ReadInv /\ [Next]_vars
    => ReadInv'
  BY MarksSeenStep, FileSeenStep, LockedStep, Zenon DEF ReadInv, TypeInv
(* What a reader gets of a handle, told with the marks of what is buffered. *)
Unwritten(h) == IF Dumping THEN Changes(marks[h]) ELSE <<>>
Shown == [h \in Handle |-> DecodeSections(blocks, h) \o Unwritten(h)]
WaveShown == decodedWave = Shown

(* Decoding the chains gives the changes their marks tell.                  *)
LEMMA WaveIsShown == TypeOK /\ TableDecodes /\ ChainsDecode => WaveShown
  <1> SUFFICES ASSUME TypeOK, TableDecodes, ChainsDecode PROVE WaveShown
    OBVIOUS
  <1>1. ASSUME NEW h \in Handle PROVE buffered[h] = Unwritten(h)
    <2>1. CASE Dumping
      <3>1. /\ chain[h] \in Seq(Change) /\ marks[h] \in Seq(Mark)
            /\ tchn \in Seq(Nat) /\ times \in Seq(Nat)
        BY DEF TypeOK
      <3>2. DecodesTimes(tchn, times) /\ DecodesChain(chain[h], marks[h], times)
        BY <2>1, Zenon DEF TableDecodes, ChainsDecode
      <3>3. DecodeChain(chain[h], TimeTable(tchn)) = Changes(marks[h])
        BY <3>1, <3>2, ChangesRead, Zenon
      <3> QED
        BY <2>1, <3>3, Zenon DEF buffered, Unwritten
    <2>2. CASE ~Dumping
      BY <2>2, Zenon DEF buffered, Unwritten, EmptyChains
    <2> QED
      BY <2>1, <2>2
  <1> QED
    BY <1>1, Zenon DEF WaveShown, decodedWave, Shown

(* A change more, at the end of a sequence of changes.                      *)
LEMMA ChangesGrow ==
  ASSUME NEW ms \in Seq(Mark), NEW m \in Mark
  PROVE  Changes(Append(ms, m)) = Append(Changes(ms), [time |-> m.time, val |-> m.val])
  <1> DEFINE M == Mark
             C(x) == [time |-> x.time, val |-> x.val]
             E == [time : Nat, val : Value]
  <1>1. \A x \in M : C(x) \in E
    BY DEF Mark
  <1>2. ms \in Seq(M) /\ m \in M
    OBVIOUS
  <1>3. \A s : Changes(s) = [k \in 1 .. Len(s) |-> C(s[k])]
    BY Zenon DEF Changes
  <1> HIDE DEF M, C, E
  <1>4. ASSUME NEW s \in Seq(M) PROVE Changes(s) \in Seq(E) /\ Len(Changes(s)) = Len(s)
    <2>1. \A k \in 1 .. Len(s) : C(s[k]) \in E
      BY <1>1
    <2>2. [k \in 1 .. Len(s) |-> C(s[k])] \in Seq(E)
      BY <2>1
    <2>3. Len([k \in 1 .. Len(s) |-> C(s[k])]) = Len(s)
      OBVIOUS
    <2> QED
      BY <1>3, <2>2, <2>3, Zenon
  <1>5. Append(ms, m) \in Seq(M) /\ Len(Append(ms, m)) = Len(ms) + 1
    BY <1>2
  <1>6. Changes(Append(ms, m)) \in Seq(E) /\ Append(Changes(ms), C(m)) \in Seq(E)
    <2>1. Changes(Append(ms, m)) \in Seq(E) /\ Changes(ms) \in Seq(E) /\ C(m) \in E
      BY <1>1, <1>2, <1>4, <1>5, Zenon
    <2> QED
      BY <2>1
  <1>7. Len(Changes(Append(ms, m))) = Len(Append(Changes(ms), C(m)))
    <2>1. /\ Len(Changes(Append(ms, m))) = Len(Append(ms, m))
          /\ Changes(ms) \in Seq(E) /\ Len(Changes(ms)) = Len(ms)
      BY <1>2, <1>4, <1>5, Zenon
    <2> QED
      BY <1>5, <2>1
  <1>8. ASSUME NEW k \in 1 .. Len(Append(ms, m))
        PROVE  Changes(Append(ms, m))[k] = Append(Changes(ms), C(m))[k]
    <2>1. Changes(Append(ms, m))[k] = C(Append(ms, m)[k])
      BY <1>3, <1>8, Zenon
    <2>2. CASE k \in 1 .. Len(ms)
      <3>1. Append(ms, m)[k] = ms[k]
        BY <1>2, <2>2
      <3>2. Append(Changes(ms), C(m))[k] = Changes(ms)[k]
        <4>1. Changes(ms) \in Seq(E) /\ Len(Changes(ms)) = Len(ms)
          BY <1>2, <1>4, Zenon
        <4> QED
          BY <2>2, <4>1
      <3>3. Changes(ms)[k] = C(ms[k])
        BY <1>3, <2>2, Zenon
      <3> QED
        BY <2>1, <3>1, <3>2, <3>3
    <2>3. CASE k = Len(ms) + 1
      <3>1. Append(ms, m)[k] = m
        BY <1>2, <2>3
      <3>2. Append(Changes(ms), C(m))[k] = C(m)
        <4>1. Changes(ms) \in Seq(E) /\ Len(Changes(ms)) = Len(ms)
          BY <1>2, <1>4, Zenon
        <4> QED
          BY <2>3, <4>1
      <3> QED
        BY <2>1, <3>1, <3>2
    <2>4. k \in 1 .. Len(ms) \/ k = Len(ms) + 1
      <3>1. k \in 1 .. (Len(ms) + 1) /\ Len(ms) \in Nat
        BY <1>2, <1>5, <1>8
      <3> QED
        BY <3>1
    <2> QED
      BY <2>2, <2>3, <2>4, Zenon
  <1>9. Changes(Append(ms, m)) = Append(Changes(ms), C(m))
    <2>1. \A k \in 1 .. Len(Changes(Append(ms, m))) :
            Changes(Append(ms, m))[k] = Append(Changes(ms), C(m))[k]
      BY <1>4, <1>5, <1>8, Zenon
    <2> QED
      BY <1>6, <1>7, <2>1, SeqEqual, Zenon
  <1> QED
    BY <1>9, Zenon DEF C

(* Appending to the second of two sequences appends to both.                *)
LEMMA ConcatAppend ==
  ASSUME NEW S, NEW s \in Seq(S), NEW t \in Seq(S), NEW e \in S
  PROVE  s \o Append(t, e) = Append(s \o t, e)
  OBVIOUS

(* An empty sequence adds nothing,                                          *)
LEMMA NothingMore == ASSUME NEW S, NEW s \in Seq(S) PROVE s \o <<>> = s
  OBVIOUS

(* and there are no changes in it.                                          *)
LEMMA NoChanges == Changes(<<>>) = <<>>
  BY DEF Changes

(* Nothing a reader gets is later than the current time.                    *)
LEMMA ShownSeen ==
  TypeOK /\ ReadInv => \A h \in Handle : Shown[h] \in Seq(Seen(curtime))
  <1> SUFFICES ASSUME TypeOK, ReadInv, NEW h \in Handle PROVE Shown[h] \in Seq(Seen(curtime))
    OBVIOUS
  <1>1. curtime \in Nat /\ <<>> \in Seq(Seen(curtime))
    BY BoundsAssumption DEF BoundsAssumption, TypeOK
  <1>2. Changes(marks[h]) \in Seq(Seen(curtime))
    BY <1>1, ChangesSeen, Zenon DEF ReadInv, MarksSeen
  <1>3. Unwritten(h) \in Seq(Seen(curtime))
    BY <1>1, <1>2, Zenon DEF Unwritten
  <1>4. DecodeSections(blocks, h) \in Seq(Seen(curtime))
    BY Zenon DEF ReadInv, FileSeen
  <1>5. Shown[h] = DecodeSections(blocks, h) \o Unwritten(h)
    BY Zenon DEF Shown
  <1> QED
    BY <1>3, <1>4, <1>5, ConcatProperties, Zenon

----------------------------------------------------------------------------
(* What the writer's step is to a reader: nothing, or one of the actions of *)
(* a wave form.                                                             *)
Unnoticed == UNCHANGED <<decodedStage, decodedInitial, decodedWave>>
Noticed == Abstract!NextUpTo(0 .. MaxTime)
Answered == Noticed \/ Unnoticed

(* What the proof of a step is entitled to.                                 *)
StepFrom ==
  /\ TypeInv /\ LimitStops /\ Unstarted /\ PendingDirty /\ CleanIsEmpty /\ ReadInv
  /\ WaveShown /\ WaveShown'
  /\ "flush_empty" \notin Usage

(* A value change before the first time goes into the .bits file only.      *)
Retained(h, v) ==
  /\ Kept /\ UNCHANGED vchg /\ is_initial_time /\ h \notin VarLen /\ phase = "open"
  /\ curval' = [curval EXCEPT ![h] = v]
Appended(h, v) == Kept /\ phase = "open" /\ AppendChange(h, v) /\ UNCHANGED curval
Unseen == Kept /\ UNCHANGED <<vchg, curval>>

(* Every step is one of these, a time change or close.                      *)
LEMMA ReaderCases ==
  ASSUME "flush_unmapped" \notin Usage
  PROVE  [Next]_vars =>
    \/ Unseen \/ TimeChanged \/ Close
    \/ \E h \in Handle, v \in Value : Retained(h, v) \/ Appended(h, v)
  <1> SUFFICES ASSUME [Next]_vars
               PROVE  \/ Unseen \/ TimeChanged \/ Close
                      \/ \E h \in Handle, v \in Value : Retained(h, v) \/ Appended(h, v)
    OBVIOUS
  <1>1. ASSUME NEW alias \in 0 .. MaxHandle, CreateVar(alias) PROVE Unseen
    BY <1>1, Zenon DEF CreateVar, Unseen, Kept
  <1>2. ASSUME NEW h \in Handle, NEW v \in Value, EmitValueChange(h, v)
        PROVE  Unseen \/ Retained(h, v) \/ Appended(h, v)
    BY <1>2, Zenon DEF EmitValueChange, BeginChange, Unseen, Retained, Appended, Kept
  <1>3. ASSUME NEW h \in Handle, NEW v \in Value, EmitVariableLengthValueChange(h, v)
        PROVE  Unseen \/ Appended(h, v)
    BY <1>3, Zenon DEF EmitVariableLengthValueChange, BeginChange, Unseen, Appended, Kept
  <1>4. ASSUME FlushContext PROVE Unseen
    BY <1>4, Zenon DEF FlushContext, Unseen, Kept
  <1>5. ASSUME NEW limit \in BOOLEAN, SetDumpSizeLimit(limit) PROVE Unseen
    BY <1>5, Zenon DEF SetDumpSizeLimit, Unseen, Kept
  <1>6. ~CrashInFlush
    BY Zenon DEF CrashInFlush
  <1>7. ASSUME UNCHANGED vars PROVE Unseen
    BY <1>7, Zenon DEF Unseen, Kept
  <1> QED
    BY <1>1, <1>2, <1>3, <1>4, <1>5, <1>6, <1>7, Zenon DEF Next, TimeChanged

(* Declarations and requests are not seen by a reader.                      *)
LEMMA UnseenStep == StepFrom /\ Unseen => Unnoticed
  <1> SUFFICES ASSUME StepFrom, Unseen PROVE Unnoticed
    OBVIOUS
  <1>1. UNCHANGED <<phase, is_initial_time, blocks, tail, marks, curval>>
    BY Zenon DEF Unseen, Kept
  <1>2. decodedStage' = decodedStage /\ decodedInitial' = decodedInitial
    BY <1>1, Zenon DEF decodedStage, decodedInitial
  <1>3. Shown' = Shown
    BY <1>1, Zenon DEF Shown, Unwritten, Dumping
  <1> QED
    BY <1>2, <1>3, Zenon DEF Unnoticed, StepFrom, WaveShown

(* An initial value is one of the wave form, until the size limit is        *)
(* reached.                                                                 *)
LEMMA RetainedStep ==
  ASSUME NEW h \in Handle, NEW v \in Value PROVE StepFrom /\ Retained(h, v) => Answered
  <1> SUFFICES ASSUME StepFrom, Retained(h, v) PROVE Answered
    OBVIOUS
  <1>1. UNCHANGED <<phase, is_initial_time, blocks, tail, marks>>
    BY Zenon DEF Retained, Kept
  <1>2. decodedStage' = decodedStage
    BY <1>1, Zenon DEF decodedStage
  <1>3. Shown' = Shown
    BY <1>1, Zenon DEF Shown, Unwritten, Dumping
  <1>4. decodedWave' = decodedWave
    BY <1>3, Zenon DEF StepFrom, WaveShown
  <1>5. CASE blocks # <<>>
    <2>1. decodedInitial' = decodedInitial
      BY <1>1, <1>5, Zenon DEF decodedInitial
    <2> QED
      BY <1>2, <1>4, <2>1, Zenon DEF Answered, Unnoticed
  <1>6. CASE blocks = <<>>
    <2>1. ~size_limit_locked
      BY <1>6, Zenon DEF StepFrom, ReadInv, LockedWritten
    <2>2. tail = NoSection
      BY <2>1, Zenon DEF StepFrom, Unstarted, Retained
    <2>3. decodedInitial' = [decodedInitial EXCEPT ![h] = v]
      BY <1>1, <1>6, <2>2, Zenon DEF decodedInitial, Retained
    <2>4. decodedStage = "declaring"
      BY <1>6, <2>2, Zenon DEF decodedStage, Retained
    <2>5. Abstract!SetInitial(h, v)
      BY <1>2, <1>4, <2>3, <2>4, Zenon DEF Abstract!SetInitial, Retained
    <2> QED
      BY <2>5, Zenon DEF Answered, Noticed, Abstract!NextUpTo
  <1> QED
    BY <1>5, <1>6

(* Nothing that happened is later than the current time.                    *)
LEMMA EventsSeen == StepFrom => \A e \in Abstract!Events : e.time <= curtime
  <1> SUFFICES ASSUME StepFrom, NEW e \in Abstract!Events PROVE e.time <= curtime
    OBVIOUS
  <1>1. PICK h \in Handle : \E k \in DOMAIN decodedWave[h] : e = decodedWave[h][k]
    BY Zenon DEF Abstract!Events
  <1>2. PICK k \in DOMAIN decodedWave[h] : e = decodedWave[h][k]
    BY <1>1
  <1>3. decodedWave[h] \in Seq(Seen(curtime))
    BY ShownSeen, Zenon DEF StepFrom, WaveShown, TypeInv
  <1>4. e \in Seen(curtime)
    <2> DEFINE S == Seen(curtime)
    <2> HIDE DEF S
    <2>1. decodedWave[h] \in Seq(S)
      BY <1>3, Zenon DEF S
    <2>2. e \in S
      BY <1>2, <2>1
    <2> QED
      BY <2>2, Zenon DEF S
  <1> QED
    BY <1>4, BoundsAssumption DEF Seen, BoundsAssumption, StepFrom, TypeInv, TypeOK

(* A change that is dumped is emitted at the current time.                  *)
LEMMA AppendedStep ==
  ASSUME NEW h \in Handle, NEW v \in Value PROVE StepFrom /\ Appended(h, v) => Answered
  <1> SUFFICES ASSUME StepFrom, Appended(h, v) PROVE Answered
    OBVIOUS
  <1> DEFINE m == [idx |-> tchn_idx, time |-> curtime, val |-> v]
             e == [time |-> curtime, val |-> v]
  <1>1. UNCHANGED <<phase, is_initial_time, blocks, tail, curval>>
    BY Zenon DEF Appended, Kept
  <1>2. marks' = [marks EXCEPT ![h] = Append(@, m)]
    BY Zenon DEF Appended, AppendChange
  <1>3. decodedStage' = decodedStage /\ decodedInitial' = decodedInitial
    BY <1>1, Zenon DEF decodedStage, decodedInitial
  <1>4. TypeOK /\ ReadInv /\ marks \in [Handle -> Seq(Mark)]
    BY DEF StepFrom, TypeInv, TypeOK
  <1>5. CASE ~Dumping
    <2>1. Shown' = Shown
      BY <1>1, <1>5, Zenon DEF Shown, Unwritten, Dumping
    <2> QED
      BY <1>3, <2>1, Zenon DEF Answered, Unnoticed, StepFrom, WaveShown
  <1>6. CASE Dumping
    <2>1. Dumping'
      BY <1>1, <1>6, Zenon DEF Dumping
    <2>2. m \in Mark /\ e \in Seen(curtime) /\ curtime \in 0 .. MaxTime
      BY <1>4, BoundsAssumption DEF BoundsAssumption, TypeOK, Mark, Seen
    <2>3. Changes(Append(marks[h], m)) = Append(Changes(marks[h]), e)
      <3>1. m.time = curtime /\ m.val = v /\ marks[h] \in Seq(Mark)
        BY <1>4
      <3> HIDE DEF m
      <3> QED
        BY <2>2, <3>1, ChangesGrow, Zenon
    <2> HIDE DEF m
    <2>4. Shown' = [Shown EXCEPT ![h] = Append(Shown[h], e)]
      <3>1. ASSUME NEW g \in Handle, g # h PROVE Shown'[g] = Shown[g]
        <4>1. marks'[g] = marks[g]
          BY <1>2, <1>4, <3>1, Zenon
        <4> QED
          BY <1>1, <1>6, <2>1, <4>1, Zenon DEF Shown, Unwritten
      <3>2. Shown'[h] = Append(Shown[h], e)
        <4>1. marks'[h] = Append(marks[h], m)
          BY <1>2, <1>4, Zenon
        <4>2. Shown'[h] = DecodeSections(blocks, h) \o Append(Changes(marks[h]), e)
          BY <1>1, <2>1, <2>3, <4>1, Zenon DEF Shown, Unwritten
        <4>3. Shown[h] = DecodeSections(blocks, h) \o Changes(marks[h])
          BY <1>6, Zenon DEF Shown, Unwritten
        <4>4. DecodeSections(blocks, h) \in Seq(Seen(curtime))
          BY <1>4, Zenon DEF ReadInv, FileSeen
        <4>5. Changes(marks[h]) \in Seq(Seen(curtime))
          <5>1. curtime \in Nat
            BY <2>2, BoundsAssumption DEF BoundsAssumption
          <5> QED
            BY <1>4, <5>1, ChangesSeen, Zenon DEF ReadInv, MarksSeen
        <4> DEFINE ds == DecodeSections(blocks, h)
                   cs == Changes(marks[h])
        <4>6. ds \in Seq(Seen(curtime)) /\ cs \in Seq(Seen(curtime)) /\ e \in Seen(curtime)
          BY <2>2, <4>4, <4>5, Zenon
        <4>7. Shown'[h] = ds \o Append(cs, e) /\ Shown[h] = ds \o cs
          BY <4>2, <4>3, Zenon
        <4> HIDE DEF ds, cs, e
        <4>8. ds \o Append(cs, e) = Append(ds \o cs, e)
          BY <4>6
        <4> QED
          BY <4>7, <4>8, Zenon
      <3> QED
        BY <3>1, <3>2, Zenon DEF Shown
    <2>5. decodedWave' = [decodedWave EXCEPT ![h] = Append(decodedWave[h], e)]
      BY <2>4, Zenon DEF StepFrom, WaveShown
    <2>6. decodedStage = "running"
      <3>1. tail # NoSection
        BY <1>6, DataAssumption, Zenon DEF DataAssumption, StepFrom, TypeInv
      <3> QED
        BY <1>6, <3>1, Zenon DEF decodedStage, Dumping
    <2>7. Abstract!Emit(h, curtime, v)
      BY <1>3, <2>5, <2>6, EventsSeen, Zenon DEF Abstract!Emit
    <2> QED
      BY <2>2, <2>7, Zenon DEF Answered, Noticed, Abstract!NextUpTo
  <1> QED
    BY <1>5, <1>6

(* The first time starts the wave form, whose file is still empty.          *)
LEMMA FirstTimeStep ==
  ASSUME NEW tim \in 0 .. MaxTime PROVE StepFrom /\ FirstTimeChange(tim) => Answered
  <1> SUFFICES ASSUME StepFrom, FirstTimeChange(tim) PROVE Answered
    OBVIOUS
  <1>1. blocks = <<>> /\ tail = NoSection /\ blocks' = blocks
    BY Zenon DEF FirstTimeChange, StepFrom, Unstarted
  <1>2. tail'.frame = curval /\ tail' # NoSection
    <2>1. tail'.frame = curval
      BY DEF FirstTimeChange, EmitSectionHeader
    <2>2. tail' \in SectionHeader
      <3>1. firsttime' \in Nat
        BY BoundsAssumption DEF FirstTimeChange, BoundsAssumption
      <3> QED
        <4>1. tail' = [begin |-> firsttime', frame |-> curval, maxhandle |-> maxhandle]
          BY Zenon DEF FirstTimeChange, EmitSectionHeader
        <4>2. curval \in [Handle -> Value] /\ maxhandle \in 0 .. MaxHandle
          BY DEF StepFrom, TypeInv, TypeOK
        <4> QED
          BY <3>1, <4>1, <4>2 DEF SectionHeader
    <2> QED
      BY <2>1, <2>2, DataAssumption DEF DataAssumption
  <1>3. phase = "open" /\ phase' = "open" /\ curval' = curval
    BY Zenon DEF FirstTimeChange, BeginTime
  <1>4. decodedStage = "declaring" /\ decodedStage' = "running"
    BY <1>1, <1>2, <1>3 DEF decodedStage
  <1>5. decodedInitial' = decodedInitial
    BY <1>1, <1>2, <1>3, Zenon DEF decodedInitial
  <1>6. ASSUME NEW h \in Handle PROVE Shown'[h] = Shown[h]
    <2>1. Unwritten(h) = <<>>
      BY Zenon DEF Unwritten, Dumping, FirstTimeChange
    <2>2. marks'[h] = <<>>
      BY Zenon DEF FirstTimeChange, EmptyBuffer, EmptyChains
    <2>3. Unwritten(h)' = <<>>
      BY <2>2, NoChanges, Zenon DEF Unwritten
    <2> QED
      BY <1>1, <2>1, <2>3, Zenon DEF Shown
  <1>7. Shown' = Shown
    BY <1>6, Zenon DEF Shown
  <1>8. Abstract!Start
    BY <1>4, <1>5, <1>7, Zenon DEF Abstract!Start, StepFrom, WaveShown
  <1> QED
    BY <1>8, Zenon DEF Answered, Noticed, Abstract!NextUpTo

(* A time without a flush is not seen before a change happens at it.        *)
LEMMA PlainTimeStep ==
  ASSUME NEW tim \in 0 .. MaxTime PROVE StepFrom /\ PlainTimeChange(tim) => Unnoticed
  <1> SUFFICES ASSUME StepFrom, PlainTimeChange(tim) PROVE Unnoticed
    OBVIOUS
  <1>1. UNCHANGED <<phase, is_initial_time, blocks, tail, marks, curval>>
    BY Zenon DEF PlainTimeChange, BeginTime
  <1>2. decodedStage' = decodedStage /\ decodedInitial' = decodedInitial
    BY <1>1, Zenon DEF decodedStage, decodedInitial
  <1>3. Shown' = Shown
    BY <1>1, Zenon DEF Shown, Unwritten, Dumping
  <1> QED
    BY <1>2, <1>3, Zenon DEF Unnoticed, StepFrom, WaveShown

(* A section written with what was buffered.                                *)
LEMMA WrittenShown ==
  ASSUME StepFrom, Dumping, TableDecodes, ChainsDecode,
         NEW full, NEW stop, WriteSection(full, stop)
  PROVE  Shown' = Shown /\ blocks' # <<>> /\ decodedInitial' = decodedInitial
  <1>0. TypeOK
    BY Zenon DEF StepFrom, TypeInv
  <1>1. ASSUME NEW h \in Handle PROVE Shown'[h] = Shown[h]
    <2>1. DecodeSections(blocks', h) = DecodeSections(blocks, h) \o Changes(marks[h])
      BY <1>0, WrittenRead, Zenon
    <2>2. Changes(marks'[h]) = <<>>
      BY NoChanges, Zenon DEF WriteSection, EmptyBuffer, EmptyChains
    <2>3. Unwritten(h)' = <<>>
      BY <2>2, Zenon DEF Unwritten
    <2>4. Shown[h] = DecodeSections(blocks', h)
      BY <2>1, Zenon DEF Shown, Unwritten
    <2>5. Shown[h] \in Seq(Seen(curtime))
      BY <1>0, ShownSeen, Zenon DEF StepFrom
    <2>6. Shown'[h] = Shown[h] \o <<>>
      BY <2>3, <2>4, Zenon DEF Shown
    <2> QED
      BY <2>5, <2>6, NothingMore, Zenon
  <1>2. Shown' = Shown
    BY <1>1, Zenon DEF Shown
  <1>3. blocks \in Seq(Block)
    BY <1>0 DEF TypeOK
  <1> DEFINE b == Section(tail, curtime, chain, tchn)
  <1>4. b.frame = tail.frame
    BY DEF Section
  <1>5. blocks' = Append(blocks, b)
    BY Zenon DEF WriteSection
  <1> HIDE DEF b
  <1>6. blocks' # <<>>
    BY <1>3, <1>5
  <1>7. decodedInitial' = blocks'[1].frame
    BY <1>6, Zenon DEF decodedInitial
  <1>8. CASE blocks = <<>>
    <2>1. blocks'[1] = b
      BY <1>5, <1>8
    <2>2. tail # NoSection
      BY DataAssumption, Zenon DEF DataAssumption, StepFrom, TypeInv
    <2> QED
      BY <1>2, <1>4, <1>6, <1>7, <1>8, <2>1, <2>2, Zenon DEF decodedInitial
  <1>9. CASE blocks # <<>>
    <2>1. blocks'[1] = blocks[1]
      BY <1>3, <1>5, <1>9
    <2> QED
      BY <1>2, <1>6, <1>7, <1>9, <2>1, Zenon DEF decodedInitial
  <1> QED
    BY <1>8, <1>9

(* While sections are dumped the wave form is running.                      *)
LEMMA RunningWhenDumping == StepFrom /\ Dumping => decodedStage = "running"
  <1> SUFFICES ASSUME StepFrom, Dumping PROVE decodedStage = "running"
    OBVIOUS
  <1>1. tail # NoSection
    BY DataAssumption, Zenon DEF DataAssumption, StepFrom, TypeInv
  <1> QED
    BY <1>1, Zenon DEF decodedStage, Dumping

(* Writing a section moves changes from memory to the file: a reader sees   *)
(* no difference.                                                           *)
LEMMA FlushTimeStep ==
  ASSUME NEW tim \in 0 .. MaxTime
  PROVE  StepFrom /\ TableDecodes /\ ChainsDecode /\ FlushTimeChange(tim) => Unnoticed
  <1> SUFFICES ASSUME StepFrom, TableDecodes, ChainsDecode, FlushTimeChange(tim)
               PROVE  Unnoticed
    OBVIOUS
  <1>1. PICK full \in LimitOutcomes : WriteSection(full, FALSE)
    BY Zenon DEF FlushTimeChange
  <1>2. Dumping /\ phase' = "open"
    BY Zenon DEF FlushTimeChange, BeginTime, Dumping
  <1>3. Shown' = Shown /\ blocks' # <<>> /\ decodedInitial' = decodedInitial
    BY <1>1, <1>2, WrittenShown, Zenon
  <1>4. decodedStage = "running" /\ decodedStage' = "running"
    BY <1>2, <1>3, RunningWhenDumping DEF decodedStage
  <1> QED
    BY <1>3, <1>4, Zenon DEF Unnoticed, StepFrom, WaveShown

(* The flush of a time change always finds something to write.              *)
LEMMA NoEmptyFlush ==
  ASSUME NEW tim \in 0 .. MaxTime PROVE StepFrom => ~EmptyFlushTimeChange(tim)
  <1> SUFFICES ASSUME StepFrom, EmptyFlushTimeChange(tim) PROVE FALSE
    OBVIOUS
  <1>1. Dumping /\ FlushDue /\ ~Dirty
    BY Zenon DEF EmptyFlushTimeChange, BeginTime, Dumping
  <1> QED
    BY <1>1, DueIsDirty, Zenon DEF StepFrom, TypeInv

----------------------------------------------------------------------------
(* Closing: the last section is written ...                                 *)
LEMMA CloseFlushStep == StepFrom /\ TableDecodes /\ ChainsDecode /\ CloseFlush => Answered
  <1> SUFFICES ASSUME StepFrom, TableDecodes, ChainsDecode, CloseFlush PROVE Answered
    OBVIOUS
  <1>1. PICK full \in LimitOutcomes : WriteSection(full, TRUE)
    BY Zenon DEF CloseFlush
  <1>2. Dumping /\ phase' = "closed"
    BY Zenon DEF CloseFlush, Finalize, Dumping
  <1>3. Shown' = Shown /\ blocks' # <<>> /\ decodedInitial' = decodedInitial
    BY <1>1, <1>2, WrittenShown, Zenon
  <1>4. decodedStage = "running" /\ decodedStage' = "closed"
    BY <1>2, RunningWhenDumping, Zenon DEF decodedStage
  <1>5. Abstract!Close
    BY <1>3, <1>4, Zenon DEF Abstract!Close, StepFrom, WaveShown
  <1> QED
    BY <1>5, Zenon DEF Answered, Noticed, Abstract!NextUpTo

(* ... or there is nothing to write: its header stays or is cut off ...     *)
LEMMA CloseCleanStep ==
  StepFrom /\ ChainsDecode /\ (CloseTruncate \/ CloseEmpty) => Answered
  <1> SUFFICES ASSUME StepFrom, ChainsDecode, CloseTruncate \/ CloseEmpty PROVE Answered
    OBVIOUS
  <1>0. TypeOK
    BY Zenon DEF StepFrom, TypeInv
  <1>1. Dumping /\ ~Dirty /\ phase' = "closed"
    BY Zenon DEF CloseTruncate, CloseEmpty, Truncatable, Finalize, Dumping
  <1>2. blocks' = blocks
    BY <1>0, TruncateKeeps, Zenon DEF CloseEmpty, StepFrom, TypeInv
  <1>3. decodedInitial' = decodedInitial
    <2>1. CASE CloseEmpty
      BY <1>2, <2>1, Zenon DEF CloseEmpty, decodedInitial
    <2>2. CASE CloseTruncate
      <3>1. blocks # <<>>
        BY <2>2 DEF CloseTruncate, Truncatable, StepFrom, TypeInv, TruncAtEnd
      <3> QED
        BY <1>2, <3>1, Zenon DEF decodedInitial
    <2> QED
      BY <2>1, <2>2
  <1>4. ASSUME NEW h \in Handle PROVE Shown'[h] = Shown[h]
    <2>1. chain = EmptyChains
      BY <1>0, <1>1 DEF StepFrom, CleanIsEmpty, Dirty, TypeOK
    <2>2. marks[h] = <<>>
      <3>1. chain[h] = <<>> /\ DecodesChain(chain[h], marks[h], times)
        BY <1>1, <2>1, Zenon DEF EmptyChains, ChainsDecode
      <3>2. Len(marks[h]) = 0 /\ marks[h] \in Seq(Mark)
        BY <1>0, <3>1 DEF DecodesChain, TypeOK
      <3> QED
        BY <3>2, NoSections, Zenon
    <2>3. Unwritten(h) = <<>>
      BY <1>1, <2>2, NoChanges, Zenon DEF Unwritten
    <2>4. Unwritten(h)' = <<>>
      BY <1>1, Zenon DEF Unwritten, Dumping
    <2> QED
      BY <1>2, <2>3, <2>4, Zenon DEF Shown
  <1>5. Shown' = Shown
    BY <1>4, Zenon DEF Shown
  <1>6. decodedStage = "running" /\ decodedStage' = "closed"
    BY <1>1, RunningWhenDumping, Zenon DEF decodedStage
  <1>7. Abstract!Close
    BY <1>3, <1>5, <1>6, Zenon DEF Abstract!Close, StepFrom, WaveShown
  <1> QED
    BY <1>7, Zenon DEF Answered, Noticed, Abstract!NextUpTo

(* ... or the size limit ended the file before.                             *)
LEMMA CloseLockedStep == StepFrom /\ CloseLocked => Answered
  <1> SUFFICES ASSUME StepFrom, CloseLocked PROVE Answered
    OBVIOUS
  <1>1. blocks # <<>> /\ is_initial_time
    BY Zenon DEF StepFrom, ReadInv, LockedWritten, LimitStops, CloseLocked
  <1>2. phase = "open" /\ phase' = "closed"
    BY Zenon DEF CloseLocked, Finalize
  <1>3. UNCHANGED <<is_initial_time, blocks, tail, marks, curval>>
    BY Zenon DEF CloseLocked
  <1>4. decodedInitial' = decodedInitial
    BY <1>3, Zenon DEF decodedInitial
  <1>5. Shown' = Shown
    BY <1>1, <1>3, Zenon DEF Shown, Unwritten, Dumping
  <1>6. decodedStage = "running" /\ decodedStage' = "closed"
    BY <1>1, <1>2 DEF decodedStage
  <1>7. Abstract!Close
    BY <1>4, <1>5, <1>6, Zenon DEF Abstract!Close, StepFrom, WaveShown
  <1> QED
    BY <1>7, Zenon DEF Answered, Noticed, Abstract!NextUpTo

(* A file whose time never advanced gets its initial values as changes at 0.*)
LEMMA CloseInitialStep == StepFrom /\ CloseInitial => Answered
  <1> SUFFICES ASSUME StepFrom, CloseInitial PROVE Answered
    OBVIOUS
  <1>0. TypeOK
    BY Zenon DEF StepFrom, TypeInv
  <1>1. blocks = <<>> /\ tail = NoSection
    BY Zenon DEF CloseInitial, StepFrom, Unstarted
  <1>2. phase = "open" /\ phase' = "closed" /\ curval' = curval
    BY Zenon DEF CloseInitial, Finalize
  <1>3. decodedStage = "declaring" /\ decodedStage' = "closed" /\ decodedInitial = curval
    BY <1>1, <1>2, Zenon DEF decodedStage, decodedInitial
  <1> DEFINE known == 1 .. maxhandle
             at0 == EmitSectionHeader(0, curval)
  <1>4. known \in SUBSET Handle /\ known \ VarLen = Fixed
    BY <1>0, BoundsAssumption DEF BoundsAssumption, TypeOK, Handle, Fixed
  <1>5. at0 \in SectionHeader /\ at0.frame = curval
    <2>1. at0 = [begin |-> 0, frame |-> curval, maxhandle |-> maxhandle]
      BY Zenon DEF EmitSectionHeader
    <2>2. curval \in [Handle -> Value] /\ maxhandle \in 0 .. MaxHandle
      BY <1>0 DEF TypeOK
    <2> QED
      BY <2>1, <2>2 DEF SectionHeader
  <1>6. decodedInitial' = curval
    <2>1. CASE Fixed = {}
      <3>1. blocks' = <<>> /\ tail' = at0
        BY <1>1, <2>1, Zenon DEF CloseInitial
      <3>2. at0 # NoSection
        BY <1>5, DataAssumption, Zenon DEF DataAssumption
      <3> QED
        BY <1>5, <3>1, <3>2, Zenon DEF decodedInitial
    <2>2. CASE Fixed # {}
      <3>1. PICK b : blocks' = <<b>> /\ b.frame = at0.frame
        <4> DEFINE cloned == [h \in Handle |-> IF h \in Fixed
                               THEN <<[delta |-> 0, val |-> curval[h]]>> ELSE <<>>]
        <4>1. blocks' = <<Section(at0, 0, cloned, <<0>>)>>
          BY <2>2, Zenon DEF CloseInitial
        <4>2. Section(at0, 0, cloned, <<0>>).frame = at0.frame
          BY DEF Section
        <4> QED
          BY <4>1, <4>2, Zenon
      <3>2. blocks' # <<>> /\ blocks'[1] = b
        BY <3>1
      <3> QED
        BY <1>5, <3>1, <3>2, Zenon DEF decodedInitial
    <2> QED
      BY <2>1, <2>2
  <1>7. ASSUME NEW h \in Handle PROVE Shown'[h] = Initially(h)
    <2>1. DecodeSections(blocks', h) = Initially(h)
      <3>1. CASE Fixed = {}
        <4>1. blocks' = <<>>
          BY <1>1, <3>1, Zenon DEF CloseInitial
        <4> QED
          BY <3>1, <4>1, NothingDecoded, Zenon DEF Initially
      <3>2. CASE Fixed # {}
        BY <1>0, <3>2, ClonedRead, Zenon
      <3> QED
        BY <3>1, <3>2
    <2>2. Unwritten(h)' = <<>>
      BY <1>2, Zenon DEF Unwritten, Dumping
    <2>3. Initially(h) \in Seq([time : Nat, val : Value])
      <3>1. <<>> \in Seq([time : Nat, val : Value])
        OBVIOUS
      <3>2. curval[h] \in Value
        BY <1>0 DEF TypeOK
      <3>3. [time |-> 0, val |-> curval[h]] \in [time : Nat, val : Value]
        BY <3>2
      <3>4. <<[time |-> 0, val |-> curval[h]]>> \in Seq([time : Nat, val : Value])
        BY <3>3
      <3> QED
        BY <3>1, <3>4, Zenon DEF Initially
    <2>4. Shown'[h] = Initially(h) \o <<>>
      BY <2>1, <2>2, Zenon DEF Shown
    <2> QED
      BY <2>3, <2>4, NothingMore, Zenon
  <1>8. decodedWave' = [h \in Handle |-> IF h \in known \ VarLen
                         THEN <<[time |-> 0, val |-> decodedInitial[h]]>> ELSE <<>>]
    <2>1. Shown' = [h \in Handle |-> Initially(h)]
      BY <1>7, Zenon DEF Shown
    <2>2. [h \in Handle |-> Initially(h)]
            = [h \in Handle |-> IF h \in known \ VarLen
                         THEN <<[time |-> 0, val |-> decodedInitial[h]]>> ELSE <<>>]
      BY <1>3, <1>4, Zenon DEF Initially
    <2> QED
      BY <2>1, <2>2, Zenon DEF StepFrom, WaveShown
  <1>9. Abstract!CloseUnstarted(known)
    <2> HIDE DEF known
    <2> QED
      BY <1>3, <1>6, <1>8, Zenon DEF Abstract!CloseUnstarted
  <1> QED
    BY <1>4, <1>9, Zenon DEF Answered, Noticed, Abstract!NextUpTo

----------------------------------------------------------------------------
(* Every step is seen as nothing or as a step of the wave form.             *)
LEMMA AnsweredAlways ==
  ASSUME "flush_unmapped" \notin Usage
  PROVE  StepFrom /\ TableDecodes /\ ChainsDecode /\ [Next]_vars => Answered
  <1> SUFFICES ASSUME StepFrom, TableDecodes, ChainsDecode, [Next]_vars PROVE Answered
    OBVIOUS
  <1>1. CASE Unseen
    BY <1>1, UnseenStep, Zenon DEF Answered
  <1>2. ASSUME NEW h \in Handle, NEW v \in Value, Retained(h, v) \/ Appended(h, v)
        PROVE  Answered
    BY <1>2, RetainedStep, AppendedStep, Zenon
  <1>3. CASE TimeChanged
    <2>1. PICK tim \in 0 .. MaxTime : EmitTimeChange(tim)
      BY <1>3, Zenon DEF TimeChanged
    <2> QED
      BY <2>1, FirstTimeStep, PlainTimeStep, FlushTimeStep, NoEmptyFlush, Zenon
      DEF EmitTimeChange, Answered
  <1>4. CASE Close
    BY <1>4, CloseFlushStep, CloseCleanStep, CloseLockedStep, CloseInitialStep, Zenon DEF Close
  <1> QED
    BY <1>1, <1>2, <1>3, <1>4, ReaderCases, Zenon

(* A file without sections shows a wave form without changes.               *)
LEMMA ShownInit == Init => Abstract!Init
  <1> SUFFICES ASSUME Init PROVE Abstract!Init
    OBVIOUS
  <1>1. blocks = <<>> /\ tail = NoSection /\ phase = "open" /\ is_initial_time
        /\ curval = [h \in Handle |-> Unset]
    BY Zenon DEF Init
  <1>2. decodedStage = "declaring" /\ decodedInitial = [h \in Handle |-> Unset]
    BY <1>1, Zenon DEF decodedStage, decodedInitial
  <1>3. ASSUME NEW h \in Handle PROVE decodedWave[h] = <<>>
    <2>1. decodedWave[h] = <<>> \o <<>>
      BY <1>1, NothingDecoded, Zenon DEF decodedWave, buffered, Dumping, EmptyChains
    <2> QED
      BY <2>1
  <1>4. decodedWave = [h \in Handle |-> <<>>]
    BY <1>3, Zenon DEF decodedWave
  <1> QED
    BY <1>2, <1>4, Zenon DEF Abstract!Init

(* The invariant of the proof holds in every reachable state.               *)
LEMMA ReadInvCorrect ==
  ASSUME "flush_empty" \notin Usage
  PROVE  Spec => [](ReadInv /\ WaveShown)
  <1>1. TypeInv /\ DecodeInv /\ ReadInv /\ [Next]_vars => ReadInv'
    BY ReadStep, Zenon DEF DecodeInv
  <1>2. TypeInv /\ DecodeInv => WaveShown
    BY WaveIsShown, Zenon DEF DecodeInv, TypeInv
  <1> QED
    BY TypeInvCorrect, DecodeInit, DecodeStep, ReadInit, <1>1, <1>2, PTL DEF Spec

(* Whatever the simulator emits and however it is cut into sections, what a *)
(* reader decodes is the wave form emitted so far, in order, and writing a  *)
(* section or closing the file changes nothing of it.                       *)
THEOREM WriterImplementsWaveform ==
  ASSUME "flush_empty" \notin Usage, "flush_unmapped" \notin Usage
  PROVE  Spec => ImplementsWaveform
  <1>1. TypeInv /\ DecodeInv /\ CloseInv /\ (ReadInv /\ WaveShown) /\ (ReadInv /\ WaveShown)'
          /\ [Next]_vars => [Noticed]_(Abstract!wvars)
    BY AnsweredAlways, Zenon DEF StepFrom, DecodeInv, CloseInv, Answered, Unnoticed, Abstract!wvars
  <1>2. Spec => [][Noticed]_(Abstract!wvars)
    BY TypeInvCorrect, DecodeInit, DecodeStep, CloseInvCorrect, ReadInvCorrect, <1>1, PTL DEF Spec
  <1>3. Spec => Abstract!Init
    BY ShownInit DEF Spec
  <1> QED
    BY <1>2, <1>3, Zenon DEF ImplementsWaveform, Noticed

----------------------------------------------------------------------------
(* What the reader relies on: handles are known before they have a chain,   *)
(* frames cover the handles of the section before, tables are never empty   *)
(* and begin with the time the section before ended at.                     *)
MappedHandles == mapped => maxhandle >= 1
HdrHandles == hdr.maxhandle \in 0 .. MaxHandle

OwnHandles(b) ==
  /\ b.frame_maxhandle <= b.maxhandle /\ b.maxhandle >= 1
  /\ \A h \in Handle : h > b.maxhandle => b.chain[h] = <<>>
Continues(bs, ps) ==
  \A i \in 1 .. Len(bs) :
    /\ OwnHandles(bs[i]) /\ ps[i].times # <<>>
    /\ i > 1 => /\ bs[i].frame_maxhandle = bs[i - 1].maxhandle
                /\ ps[i].times[1] = bs[i].begin
TailContinues(header, bs, ts, handles) ==
  /\ header.maxhandle <= handles /\ ts # <<>>
  /\ bs # <<>> => header.maxhandle = bs[Len(bs)].maxhandle /\ ts[1] = header.begin

JoinInv ==
  /\ MappedHandles /\ HdrHandles
  /\ Continues(blocks, past)
  /\ Dumping => TailContinues(tail, blocks, times, maxhandle)

(* Handles are mapped by the first section or close that finds any, and     *)
(* no handle is ever forgotten: there is always one to read a chain of.     *)
LEMMA MappedStep == TypeOK /\ MappedHandles /\ [Next]_vars => MappedHandles'
  <1> SUFFICES ASSUME TypeOK, MappedHandles, [Next]_vars PROVE MappedHandles'
    OBVIOUS
  <1>1. \/ mapped' = FALSE
        \/ mapped' = mapped /\ maxhandle' = maxhandle
        \/ mapped' = (maxhandle > 0) /\ maxhandle' = maxhandle
    <2>1. ASSUME NEW alias \in 0 .. MaxHandle, CreateVar(alias) PROVE mapped' = FALSE
      BY <2>1, Zenon DEF CreateVar
    <2>2. ASSUME NEW h \in Handle, NEW v \in Value,
                 EmitValueChange(h, v) \/ EmitVariableLengthValueChange(h, v)
          PROVE  mapped' = (maxhandle > 0) /\ maxhandle' = maxhandle
      BY <2>2, Zenon DEF EmitValueChange, EmitVariableLengthValueChange, BeginChange, CreateMmaps
    <2>3. ASSUME NEW tim \in 0 .. MaxTime, EmitTimeChange(tim)
          PROVE  mapped' \in {mapped, maxhandle > 0} /\ maxhandle' = maxhandle
      BY <2>3, Zenon DEF EmitTimeChange, FirstTimeChange, PlainTimeChange, FlushTimeChange,
         EmptyFlushTimeChange, BeginTime, CreateMmaps
    <2>4. ASSUME FlushContext \/ CrashInFlush \/ UNCHANGED vars
                 \/ \E limit \in BOOLEAN : SetDumpSizeLimit(limit)
          PROVE  mapped' = mapped /\ maxhandle' = maxhandle
      BY <2>4, Zenon DEF FlushContext, SetDumpSizeLimit, CrashInFlush
    <2>5. ASSUME Close PROVE mapped' = FALSE
      BY <2>5, Zenon DEF Close, CloseTruncate, CloseLocked, CloseFlush, CloseEmpty, CloseInitial, Finalize
    <2> QED
      BY <2>1, <2>2, <2>3, <2>4, <2>5, Zenon DEF Next
  <1>2. maxhandle \in Nat
    BY DEF TypeOK
  <1>3. maxhandle > 0 => maxhandle >= 1
    BY <1>2
  <1> QED
    BY <1>1, <1>3, Zenon DEF MappedHandles

(* Creating a variable is the only step that changes the number of          *)
(* handles, and it adds to it.                                              *)
LEMMA HandlesGrow == TypeOK /\ [Next]_vars => maxhandle <= maxhandle' /\ maxhandle' \in Nat
  <1> SUFFICES ASSUME TypeOK, [Next]_vars PROVE maxhandle <= maxhandle' /\ maxhandle' \in Nat
    OBVIOUS
  <1>1. maxhandle' = maxhandle \/ maxhandle' = maxhandle + 1
    <2>1. ASSUME NEW alias \in 0 .. MaxHandle, CreateVar(alias)
          PROVE  maxhandle' = maxhandle \/ maxhandle' = maxhandle + 1
      BY <2>1, Zenon DEF CreateVar
    <2>2. ASSUME NEW h \in Handle, NEW v \in Value,
                 EmitValueChange(h, v) \/ EmitVariableLengthValueChange(h, v)
          PROVE  maxhandle' = maxhandle
      BY <2>2, Zenon DEF EmitValueChange, EmitVariableLengthValueChange, BeginChange
    <2>3. ASSUME NEW tim \in 0 .. MaxTime, EmitTimeChange(tim) PROVE maxhandle' = maxhandle
      BY <2>3, Zenon DEF EmitTimeChange, FirstTimeChange, PlainTimeChange, FlushTimeChange,
         EmptyFlushTimeChange, BeginTime
    <2>4. ASSUME FlushContext \/ CrashInFlush \/ UNCHANGED vars
                 \/ \E limit \in BOOLEAN : SetDumpSizeLimit(limit)
          PROVE  maxhandle' = maxhandle
      BY <2>4, Zenon DEF FlushContext, SetDumpSizeLimit, CrashInFlush
    <2>5. ASSUME Close PROVE maxhandle' = maxhandle
      BY <2>5, Zenon DEF Close, CloseTruncate, CloseLocked, CloseFlush, CloseEmpty, CloseInitial, Finalize
    <2> QED
      BY <2>1, <2>2, <2>3, <2>4, <2>5, Zenon DEF Next
  <1>2. maxhandle \in Nat
    BY DEF TypeOK
  <1> QED
    BY <1>1, <1>2

(* The header counts no more handles than there can be, whenever a          *)
(* section or the close rewrites it.                                        *)
LEMMA HdrHandlesStep == TypeOK /\ HdrHandles /\ [Next]_vars => HdrHandles'
  <1> SUFFICES ASSUME TypeOK, HdrHandles, [Next]_vars PROVE HdrHandles'
    OBVIOUS
  <1> DEFINE Fields == \E start, end, sections : hdr' = HdrFields(start, end, sections)
  <1>1. hdr' = hdr \/ Fields
    <2>1. ASSUME NEW alias \in 0 .. MaxHandle, CreateVar(alias) PROVE hdr' = hdr
      BY <2>1, Zenon DEF CreateVar
    <2>2. ASSUME NEW h \in Handle, NEW v \in Value,
                 EmitValueChange(h, v) \/ EmitVariableLengthValueChange(h, v)
          PROVE  hdr' = hdr \/ Fields
      BY <2>2, Zenon DEF EmitValueChange, EmitVariableLengthValueChange, BeginChange, CreateMmaps
    <2>3. ASSUME NEW tim \in 0 .. MaxTime, EmitTimeChange(tim) PROVE hdr' = hdr \/ Fields
      BY <2>3, Zenon DEF EmitTimeChange, FirstTimeChange, PlainTimeChange, FlushTimeChange,
         EmptyFlushTimeChange, CreateMmaps
    <2>4. ASSUME FlushContext \/ CrashInFlush \/ UNCHANGED vars
                 \/ \E limit \in BOOLEAN : SetDumpSizeLimit(limit)
          PROVE  hdr' = hdr
      BY <2>4, Zenon DEF FlushContext, SetDumpSizeLimit, CrashInFlush
    <2>5. ASSUME Close PROVE Fields
      BY <2>5, Zenon DEF Close, CloseTruncate, CloseLocked, CloseFlush, CloseEmpty, CloseInitial, Finalize
    <2> QED
      BY <2>1, <2>2, <2>3, <2>4, <2>5, Zenon DEF Next
  <1>2. Fields => hdr'.maxhandle = maxhandle
    BY DEF HdrFields
  <1>3. maxhandle \in 0 .. MaxHandle
    BY DEF TypeOK
  <1> QED
    BY <1>1, <1>2, <1>3, Zenon DEF HdrHandles

(* A section written behind the others continues them, and the next one's   *)
(* header continues it.                                                     *)
LEMMA WriteContinues ==
  ASSUME TypeInv, KnownChains, PastAligned, JoinInv, Dumping, mapped,
         NEW full, NEW stop, WriteSection(full, stop)
  PROVE  /\ Continues(blocks', past')
         /\ tail' # NoSection => tail'.maxhandle = maxhandle /\ tail'.begin = curtime
         /\ blocks' # <<>> /\ blocks'[Len(blocks')].maxhandle = maxhandle
  <1> DEFINE b == Section(tail, curtime, chain, tchn)
             p == [times |-> times, marks |-> marks]
             n == Len(blocks)
  <1>0. TypeOK /\ tail \in SectionHeader
    BY Zenon DEF TypeInv
  <1>1. /\ b.begin = tail.begin /\ b.frame_maxhandle = tail.maxhandle
        /\ b.maxhandle = maxhandle /\ b.chain = chain /\ p.times = times
    BY DEF Section
  <1>2. /\ blocks' = Append(blocks, b) /\ past' = Append(past, p)
        /\ tail' = NoSection \/ tail' = EmitSectionHeader(curtime, Checkpoint)
    BY Zenon DEF WriteSection
  <1>3. TailContinues(tail, blocks, times, maxhandle) /\ maxhandle >= 1 /\ Continues(blocks, past)
    BY Zenon DEF JoinInv, MappedHandles
  <1>4. OwnHandles(b) /\ p.times # <<>>
    BY <1>1, <1>3, Zenon DEF OwnHandles, TailContinues, KnownChains
  <1> HIDE DEF b, p
  <1>5. tail' # NoSection => tail'.maxhandle = maxhandle /\ tail'.begin = curtime
    BY <1>2 DEF EmitSectionHeader
  <1>6. /\ blocks \in Seq(Block) /\ past \in Seq([times : Seq(Nat), marks : [Handle -> Seq(Mark)]])
        /\ Len(past) = n
    BY <1>0 DEF TypeOK, PastAligned
  <1>7. /\ n \in Nat /\ Len(blocks') = n + 1 /\ Len(past') = n + 1 /\ blocks' # <<>>
        /\ blocks'[n + 1] = b /\ past'[n + 1] = p /\ (n # 0 => blocks # <<>>)
        /\ \A i \in 1 .. n : blocks'[i] = blocks[i] /\ past'[i] = past[i]
    <2>1. n \in Nat /\ (n # 0 => blocks # <<>>)
      BY <1>6
    <2>2. /\ Len(blocks') = n + 1 /\ blocks'[n + 1] = b /\ blocks' # <<>>
          /\ \A i \in 1 .. n : blocks'[i] = blocks[i]
      BY <1>2, <1>6
    <2>3. /\ Len(past') = n + 1 /\ past'[n + 1] = p
          /\ \A i \in 1 .. n : past'[i] = past[i]
      BY <1>2, <1>6
    <2> QED
      BY <2>1, <2>2, <2>3, Zenon
  <1>8. n # 0 => b.frame_maxhandle = blocks[n].maxhandle /\ p.times[1] = b.begin
    BY <1>1, <1>3, <1>7, Zenon DEF TailContinues
  <1> HIDE DEF n
  <1>9. ASSUME NEW i \in 1 .. n + 1
        PROVE  /\ OwnHandles(blocks'[i]) /\ past'[i].times # <<>>
               /\ i > 1 => /\ blocks'[i].frame_maxhandle = blocks'[i - 1].maxhandle
                           /\ past'[i].times[1] = blocks'[i].begin
    <2>1. CASE i = n + 1
      <3>1. blocks'[i] = b /\ past'[i] = p
        BY <2>1, <1>7
      <3>2. i > 1 => i - 1 = n /\ n \in 1 .. n /\ n # 0
        BY <2>1, <1>7
      <3>3. i > 1 => blocks'[i - 1] = blocks[n]
        BY <3>2, <1>7, Zenon
      <3> QED
        BY <3>1, <3>2, <3>3, <1>4, <1>8, Zenon
    <2>2. CASE i \in 1 .. n
      <3>1. i > 1 => i - 1 \in 1 .. n
        BY <2>2, <1>7
      <3>2. blocks'[i] = blocks[i] /\ past'[i] = past[i] /\ (i > 1 => blocks'[i - 1] = blocks[i - 1])
        BY <2>2, <3>1, <1>7, Zenon
      <3>3. /\ OwnHandles(blocks[i]) /\ past[i].times # <<>>
            /\ i > 1 => /\ blocks[i].frame_maxhandle = blocks[i - 1].maxhandle
                        /\ past[i].times[1] = blocks[i].begin
        BY <2>2, <1>3, Zenon DEF Continues, n
      <3> QED
        BY <3>2, <3>3, Zenon
    <2> QED
      BY <2>1, <2>2, <1>7
  <1>10. Continues(blocks', past')
    BY <1>7, <1>9, Zenon DEF Continues
  <1>11. blocks'[Len(blocks')].maxhandle = maxhandle
    BY <1>1, <1>7, Zenon
  <1> QED
    BY <1>5, <1>7, <1>10, <1>11, Zenon

(* An empty writer has written nothing that could disagree.                 *)
LEMMA JoinInit == Init => JoinInv
  <1> SUFFICES ASSUME Init PROVE JoinInv
    OBVIOUS
  <1>1. mapped = FALSE /\ ~Dumping /\ blocks = <<>>
    BY Zenon DEF Init, Dumping
  <1>2. HdrHandles
    BY BoundsAssumption DEF Init, HdrHandles, BoundsAssumption
  <1>3. Continues(blocks, past)
    BY <1>1 DEF Continues
  <1> QED
    BY <1>1, <1>2, <1>3, Zenon DEF JoinInv, MappedHandles

(* A header of a section that stays open.                                   *)
LEMMA TailStays ==
  ASSUME TypeInv, TypeOK', Dumping, TailContinues(tail, blocks, times, maxhandle), [Next]_vars,
         NEW ts \in Seq(Nat), ts # <<>>, ts[1] = times[1]
  PROVE  TailContinues(tail, blocks, ts, maxhandle')
  <1>1. maxhandle \in Nat /\ maxhandle <= maxhandle' /\ maxhandle' \in Nat
    <2>1. TypeOK
      BY Zenon DEF TypeInv
    <2>2. maxhandle <= maxhandle' /\ maxhandle' \in Nat
      BY <2>1, HandlesGrow, Zenon
    <2> QED
      BY <2>1, <2>2 DEF TypeOK
  <1>2. tail.maxhandle \in Nat /\ tail.maxhandle <= maxhandle
    BY BoundsAssumption DEF TypeInv, SectionHeader, TailContinues, BoundsAssumption
  <1>3. tail.maxhandle <= maxhandle'
    BY <1>1, <1>2
  <1> QED
    BY <1>3, Zenon DEF TailContinues

(* The one section of a file whose time never advanced.                     *)
LEMMA InitialContinues ==
  ASSUME TypeOK, Unstarted, CloseInitial
  PROVE  Continues(blocks', past')
  <1> DEFINE at0 == EmitSectionHeader(0, curval)
             cloned == [h \in Handle |-> IF h \in Fixed
                          THEN <<[delta |-> 0, val |-> curval[h]]>> ELSE <<>>]
             b == Section(at0, 0, cloned, <<0>>)
  <1>1. \/ blocks' = <<>>
        \/ /\ Fixed # {} /\ blocks' = <<b>>
           /\ \E ms : past' = <<[times |-> <<0>>, marks |-> ms]>>
    BY Zenon DEF CloseInitial, Unstarted
  <1>2. CASE blocks' = <<>>
    BY <1>2 DEF Continues
  <1>3. CASE Fixed # {} /\ blocks' = <<b>> /\ \E ms : past' = <<[times |-> <<0>>, marks |-> ms]>>
    <2>1. /\ b.frame_maxhandle = maxhandle /\ b.maxhandle = maxhandle /\ b.chain = cloned
      BY DEF Section, EmitSectionHeader
    <2>2. maxhandle \in Nat /\ maxhandle >= 1 /\ \A h \in Handle : h > maxhandle => h \notin Fixed
      BY <1>3, BoundsAssumption DEF Fixed, TypeOK, Handle, BoundsAssumption
    <2>3. \A h \in Handle : h > maxhandle => cloned[h] = <<>>
      BY <2>2, Zenon
    <2>4. maxhandle <= maxhandle
      BY <2>2
    <2> HIDE DEF b, cloned
    <2>5. OwnHandles(b)
      BY <2>1, <2>2, <2>3, <2>4, Zenon DEF OwnHandles
    <2>6. Len(blocks') = 1 /\ blocks'[1] = b /\ past'[1].times = <<0>>
      BY <1>3
    <2>7. \A i \in 1 .. Len(blocks') : i = 1 /\ ~(i > 1)
      BY <2>6
    <2>8. <<0>> # <<>>
      OBVIOUS
    <2> QED
      BY <2>5, <2>6, <2>7, <2>8, Zenon DEF Continues
  <1> QED
    BY <1>1, <1>2, <1>3, Zenon

(* Every step keeps the sections and the memory behind them in agreement:   *)
(* the step that ends a section makes the next one continue it, the others  *)
(* leave both sides of the agreement alone.                                 *)
LEMMA JoinStep ==
  ASSUME TypeInv, LimitStops, Unstarted, KnownChains, PastAligned, JoinInv, [Next]_vars
  PROVE  JoinInv'
  <1>0. TypeOK /\ TruncAtEnd /\ MappedHandles' /\ HdrHandles'
    BY MappedStep, HdrHandlesStep, Zenon DEF TypeInv, JoinInv
  <1>1. Continues(blocks, past) /\ (Dumping => TailContinues(tail, blocks, times, maxhandle))
    BY Zenon DEF JoinInv
  <1>2. TypeOK'
    BY FlagStep, CounterStep, BufferStep, FileStep, Zenon DEF TypeInv, TypeOK
  <1>3. times \in Seq(Nat) /\ times' \in Seq(Nat)
    BY <1>0, <1>2 DEF TypeOK
  <1>4. CASE Quiet
    <2>1. UNCHANGED <<blocks, past, tail, times>> /\ (Dumping' => Dumping)
      BY <1>4, Zenon DEF Quiet, Dumping
    <2>2. Continues(blocks, past)'
      BY <1>1, <2>1, Zenon
    <2>3. Dumping' => TailContinues(tail, blocks, times, maxhandle')
      <3>1. Dumping' => times # <<>>
        BY <1>1, <2>1, Zenon DEF TailContinues
      <3> QED
        BY <1>1, <1>2, <1>3, <2>1, <3>1, TailStays, Zenon
    <2> QED
      BY <1>0, <2>1, <2>2, <2>3, Zenon DEF JoinInv
  <1>5. CASE TimeChanged
    <2>1. PICK tim \in 0 .. MaxTime : EmitTimeChange(tim)
      BY <1>5, Zenon DEF TimeChanged
    <2>2. maxhandle' = maxhandle /\ tim \in Nat
      <3>1. BeginTime(tim)
        BY <2>1, Zenon DEF EmitTimeChange, FirstTimeChange, PlainTimeChange, FlushTimeChange,
           EmptyFlushTimeChange
      <3> QED
        BY <3>1 DEF BeginTime
    <2>3. CASE FirstTimeChange(tim)
      <3>1. /\ blocks = <<>> /\ UNCHANGED <<blocks, past>> /\ times' = Append(times, tim)
            /\ tail' = EmitSectionHeader(firsttime', curval)
        BY <2>3, Zenon DEF FirstTimeChange, Unstarted
      <3>2. times' # <<>>
        BY <1>3, <3>1
      <3>3. tail'.maxhandle = maxhandle /\ maxhandle <= maxhandle
        BY <1>0, <3>1 DEF EmitSectionHeader, TypeOK
      <3>4. TailContinues(tail, blocks, times, maxhandle)'
        BY <2>2, <3>1, <3>2, <3>3, Zenon DEF TailContinues
      <3> QED
        BY <1>0, <1>1, <3>1, <3>4, Zenon DEF JoinInv
    <2>4. CASE PlainTimeChange(tim) \/ EmptyFlushTimeChange(tim)
      <3>1. Dumping /\ UNCHANGED <<blocks, past, tail>> /\ times' = Append(times, tim)
        BY <2>4, Zenon DEF PlainTimeChange, EmptyFlushTimeChange, BeginTime, Dumping
      <3>2. times # <<>>
        BY <1>1, <3>1, Zenon DEF TailContinues
      <3>3. times' # <<>> /\ times'[1] = times[1]
        BY <1>3, <2>2, <3>1, <3>2
      <3>4. TailContinues(tail, blocks, times', maxhandle')
        BY <1>1, <1>2, <1>3, <3>1, <3>3, TailStays, Zenon
      <3> QED
        BY <1>0, <1>1, <3>1, <3>4, Zenon DEF JoinInv
    <2>5. CASE FlushTimeChange(tim)
      <3>1. /\ Dumping /\ mapped /\ \E full \in LimitOutcomes : WriteSection(full, FALSE)
            /\ times' = <<curtime, tim>>
        BY <2>5, Zenon DEF FlushTimeChange, BeginTime, Dumping
      <3>2. /\ Continues(blocks', past')
            /\ tail' # NoSection => tail'.maxhandle = maxhandle /\ tail'.begin = curtime
            /\ blocks' # <<>> /\ blocks'[Len(blocks')].maxhandle = maxhandle
        BY <3>1, WriteContinues, Zenon
      <3>3. Dumping' => tail' # NoSection
        BY DataAssumption, FileStep, Zenon DEF DataAssumption, HeaderThere
      <3>4. times' # <<>> /\ times'[1] = curtime /\ maxhandle <= maxhandle
        BY <1>0, <3>1 DEF TypeOK
      <3>5. Dumping' => TailContinues(tail, blocks, times, maxhandle)'
        BY <2>2, <3>2, <3>3, <3>4, Zenon DEF TailContinues
      <3> QED
        BY <1>0, <3>2, <3>5, Zenon DEF JoinInv
    <2> QED
      BY <2>1, <2>3, <2>4, <2>5, Zenon DEF EmitTimeChange
  <1>6. CASE Close
    <2>0. ~Dumping'
      BY <1>6, CloseEnds
    <2>1. CASE CloseTruncate \/ CloseLocked \/ CloseEmpty
      <3>1. blocks' = blocks /\ past' = past
        BY <2>1, <1>0, TruncateKeeps, Zenon DEF CloseTruncate, CloseLocked, CloseEmpty
      <3> QED
        BY <1>0, <1>1, <2>0, <3>1, Zenon DEF JoinInv
    <2>2. CASE CloseFlush
      <3>1. Dumping /\ mapped /\ \E full \in LimitOutcomes : WriteSection(full, TRUE)
        BY <2>2, Zenon DEF CloseFlush, Finalize, Dumping
      <3>2. Continues(blocks', past')
        BY <3>1, WriteContinues, Zenon
      <3> QED
        BY <1>0, <2>0, <3>2, Zenon DEF JoinInv
    <2>3. CASE CloseInitial
      BY <1>0, <2>0, <2>3, InitialContinues, Zenon DEF JoinInv
    <2> QED
      BY <1>6, <2>1, <2>2, <2>3, Zenon DEF Close
  <1> QED
    BY <1>0, <1>4, <1>5, <1>6, QuietCases, Zenon

(* The file handed to the reader is the one the writer left.                *)
LEMMA WrittenFields ==
  /\ writtenFile.blocks = blocks /\ writtenFile.end = hdr.end
  /\ writtenFile.maxhandle = hdr.maxhandle /\ writtenFile.varlen = VarLen
  BY DEF writtenFile

(* The reader's sums over a sequence of numbers are those of FstDecode.     *)
LEMMA SameSums ==
  ASSUME NEW deltas
  PROVE  Read!RunningSum(deltas) = RunningSum(deltas) /\ Read!TimeTable(deltas) = RunningSum(deltas)
  BY Zenon DEF Read!RunningSum, RunningSum, Read!TimeTable

(* What a section of the file is made of.                                   *)
LEMMA WrittenTypes ==
  ASSUME TypeOK, SectionsDecode, JoinInv, NEW k \in 1 .. Len(blocks)
  PROVE  /\ blocks[k] \in Block /\ blocks[k].tchn \in Seq(Nat) /\ blocks[k].tchn # <<>>
         /\ blocks[k].chain \in [Handle -> Seq(Change)] /\ blocks[k].frame \in [Handle -> Value]
         /\ blocks[k].begin \in Nat /\ blocks[k].end \in Nat
         /\ blocks[k].frame_maxhandle \in Nat /\ blocks[k].maxhandle \in 0 .. MaxHandle
         /\ past[k].times \in Seq(Nat) /\ past[k].times # <<>> /\ past[k].marks \in [Handle -> Seq(Mark)]
         /\ DecodesTimes(blocks[k].tchn, past[k].times)
  <1>1. /\ blocks[k] \in Block
        /\ past[k] \in [times : Seq(Nat), marks : [Handle -> Seq(Mark)]]
    <2>1. blocks \in Seq(Block) /\ past \in Seq([times : Seq(Nat), marks : [Handle -> Seq(Mark)]])
          /\ Len(past) = Len(blocks)
      BY DEF TypeOK, SectionsDecode
    <2>2. k \in 1 .. Len(past)
      BY <2>1, Zenon
    <2> QED
      BY <2>1, <2>2, ElementOfSeq, Zenon
  <1>2. /\ blocks[k].tchn \in Seq(Nat)
        /\ blocks[k].chain \in [Handle -> Seq(Change)] /\ blocks[k].frame \in [Handle -> Value]
        /\ blocks[k].begin \in Nat /\ blocks[k].end \in Nat
        /\ blocks[k].frame_maxhandle \in 0 .. MaxHandle /\ blocks[k].maxhandle \in 0 .. MaxHandle
    BY <1>1 DEF Block
  <1>3. past[k].times \in Seq(Nat) /\ past[k].marks \in [Handle -> Seq(Mark)]
    BY <1>1
  <1>4. past[k].times # <<>> /\ DecodesTimes(blocks[k].tchn, past[k].times)
    BY Zenon DEF JoinInv, Continues, SectionsDecode
  <1>5. blocks[k].tchn # <<>>
    <2>1. Len(past[k].times) = Len(blocks[k].tchn)
      BY <1>4, Zenon DEF DecodesTimes
    <2> QED
      BY <1>2, <1>3, <1>4, <2>1
  <1> QED
    BY <1>1, <1>2, <1>3, <1>4, <1>5

(* The reader's table of a section is the times the simulator emitted.      *)
LEMMA WrittenTable ==
  ASSUME TypeOK, SectionsDecode, JoinInv, NEW k \in 1 .. Len(blocks)
  PROVE  Read!TimeTable(blocks[k].tchn) = past[k].times
  BY WrittenTypes, SameSums, SumIsUnique, Zenon

(* No chain leaves its section's table.                                     *)
LEMMA WrittenChain ==
  ASSUME TypeOK, SectionsDecode, JoinInv, NEW k \in 1 .. Len(blocks), NEW h \in Handle,
         blocks[k].chain[h] # <<>>
  PROVE  Read!Last(Read!Indices(blocks[k].chain[h])) < Len(past[k].times)
  <1> DEFINE records == blocks[k].chain[h]
             ms == past[k].marks[h]
             ts == past[k].times
             n  == Len(records)
             ds == [j \in 1 .. n |-> records[j].delta]
             is == [j \in 1 .. n |-> ms[j].idx]
  <1>1. records \in Seq(Change) /\ ms \in Seq(Mark) /\ ts \in Seq(Nat)
    BY WrittenTypes
  <1>2. DecodesChain(records, ms, ts)
    BY Zenon DEF SectionsDecode
  <1> HIDE DEF records, ms, ts
  <1>3. n \in Nat \ {0} /\ Len(ms) = n
    <2>1. records # <<>>
      BY DEF records
    <2> QED
      BY <1>1, <1>2, <2>1 DEF DecodesChain
  <1>4. \A j \in 1 .. n : /\ records[j].delta \in Nat /\ ms[j].idx \in Nat
                          /\ ms[j].idx = records[j].delta + (IF j = 1 THEN 0 ELSE ms[j - 1].idx)
                          /\ ms[j].idx < Len(ts)
    <2>1. \A j \in 1 .. n : records[j] \in Change /\ ms[j] \in Mark
      BY <1>1, <1>3
    <2>2. \A j \in 1 .. n : records[j].delta \in Nat /\ ms[j].idx \in Nat
      BY <2>1 DEF Change, Mark
    <2> QED
      BY <1>2, <2>2, Zenon DEF DecodesChain
  <1> HIDE DEF n
  <1>5. ds \in Seq(Nat) /\ Len(ds) = n /\ is \in Seq(Nat) /\ Len(is) = n
    BY <1>3, <1>4
  <1>6. DecodesTimes(ds, is)
    <2>1. \A j \in 1 .. n : j # 1 => j - 1 \in 1 .. n
      BY <1>3
    <2> QED
      BY <1>4, <1>5, <2>1 DEF DecodesTimes
  <1>7. Read!Indices(records) = is
    <2>1. RunningSum(ds) = is
      BY <1>5, <1>6, SumIsUnique
    <2>2. Read!Indices(records) = Read!RunningSum(ds)
      BY Zenon DEF Read!Indices, n
    <2> QED
      BY <2>1, <2>2, SameSums, Zenon
  <1>8. Read!Last(is) = ms[n].idx
    <2>1. Read!Last(is) = is[Len(is)]
      BY Zenon DEF Read!Last
    <2> QED
      BY <1>3, <1>5, <2>1
  <1>9. n \in 1 .. n
    BY <1>3
  <1> QED
    BY <1>4, <1>7, <1>8, <1>9 DEF records, ts

(* A frame has what the section before it ended with.                       *)
LEMMA WrittenFrame ==
  ASSUME TypeOK, FramesChain, SectionsDecode, JoinInv, NEW k \in 2 .. Len(blocks),
         NEW h \in Handle \ VarLen
  PROVE  Read!EndValue(blocks[k - 1], h) \in {NoValue, Read!FrameValue(blocks[k], h)}
  <1> DEFINE a == blocks[k - 1]
             b == blocks[k]
  <1> SUFFICES Read!EndValue(a, h) \in {NoValue, Read!FrameValue(b, h)}
    OBVIOUS
  <1>1. /\ k \in 1 .. Len(blocks) /\ k - 1 \in 1 .. Len(blocks) /\ k > 1
        /\ k - 1 \in 1 .. Len(blocks) - 1 /\ (k - 1) + 1 = k
    <2>1. Len(blocks) \in Nat
      BY DEF TypeOK
    <2> QED
      BY <2>1
  <1>2. b.frame = NextFrame(a)
    BY <1>1, Zenon DEF FramesChain
  <1>3. b.frame[h] = IF a.chain[h] = <<>> THEN a.frame[h] ELSE a.chain[h][Len(a.chain[h])].val
    BY <1>2 DEF NextFrame
  <1>4. OwnHandles(a) /\ b.frame_maxhandle = a.maxhandle
    BY <1>1, Zenon DEF JoinInv, Continues
  <1>5. a.frame_maxhandle \in Nat /\ a.maxhandle \in Nat /\ a.frame_maxhandle <= a.maxhandle /\ h \in Nat
        /\ (h > a.maxhandle => a.chain[h] = <<>>)
    <2>1. a.frame_maxhandle \in Nat /\ a.maxhandle \in 0 .. MaxHandle
      BY <1>1, WrittenTypes
    <2>2. h \in Nat
      BY BoundsAssumption DEF Handle, BoundsAssumption
    <2> HIDE DEF a, b
    <2> QED
      BY <1>4, <2>1, <2>2 DEF OwnHandles
  <1> HIDE DEF a, b
  <1>6. Read!EndValue(a, h) = IF a.chain[h] = <<>> THEN Read!FrameValue(a, h) ELSE a.chain[h][Len(a.chain[h])].val
    BY Zenon DEF Read!EndValue, Read!Last
  <1>7. CASE a.chain[h] = <<>> /\ ~(h <= a.frame_maxhandle)
    BY <1>6, <1>7, Zenon DEF Read!FrameValue
  <1>8. CASE a.chain[h] = <<>> /\ h <= a.frame_maxhandle
    <2>1. h <= b.frame_maxhandle
      BY <1>4, <1>5, <1>8
    <2> QED
      BY <1>3, <1>6, <1>8, <2>1, Zenon DEF Read!FrameValue
  <1>9. CASE a.chain[h] # <<>>
    <2>1. h <= b.frame_maxhandle
      BY <1>4, <1>5, <1>9
    <2> QED
      BY <1>3, <1>6, <1>9, <2>1, Zenon DEF Read!FrameValue
  <1> QED
    BY <1>7, <1>8, <1>9, Zenon

(* A section of the file is a section for the reader.                       *)
LEMMA WrittenSections ==
  ASSUME TypeOK, SectionsDecode, JoinInv, blocks # <<>>
  PROVE  blocks \in Seq(Read!Section) \ {<<>>}
  <1>1. ASSUME NEW k \in 1 .. Len(blocks) PROVE blocks[k] \in Read!Section
    <2> DEFINE b == blocks[k]
    <2>1. b \in Block /\ b.tchn \in Seq(Nat) \ {<<>>}
      BY WrittenTypes
    <2>2. Read!Handle = Handle /\ Read!Change = Change
      BY Zenon DEF Read!Handle, Handle, Read!Change, Change
    <2> HIDE DEF b
    <2>3. /\ b.begin \in Nat /\ b.end \in Nat /\ b.frame \in [Handle -> Value]
          /\ b.frame_maxhandle \in Nat /\ b.maxhandle \in Nat /\ b.chain \in [Handle -> Seq(Change)]
          /\ b = [begin |-> b.begin, end |-> b.end, frame |-> b.frame,
                  frame_maxhandle |-> b.frame_maxhandle, maxhandle |-> b.maxhandle,
                  chain |-> b.chain, tchn |-> b.tchn]
      BY <2>1 DEF Block
    <2> DEFINE T == Seq(Nat) \ {<<>>}
               C == [Handle -> Seq(Change)]
               F == [Handle -> Value]
    <2>4. b.tchn \in T /\ b.chain \in C /\ b.frame \in F
      BY <2>1, <2>3
    <2>5. Read!Section = [begin : Nat, end : Nat, tchn : T, frame : F, frame_maxhandle : Nat,
                          chain : C, maxhandle : Nat]
      BY <2>2, Zenon DEF Read!Section
    <2> HIDE DEF T, C, F
    <2>6. b \in [begin : Nat, end : Nat, tchn : T, frame : F, frame_maxhandle : Nat,
                 chain : C, maxhandle : Nat]
      BY <2>3, <2>4
    <2> QED
      BY <2>5, <2>6, Zenon DEF b
  <1>2. blocks \in Seq(Block)
    BY DEF TypeOK
  <1> QED
    BY <1>1, <1>2

(* A section of the file is what the reader relies on.                      *)
LEMMA WrittenSection ==
  ASSUME TypeOK, FramesChain, SectionsTile, SectionsDecode, HeaderDescribesFile, JoinInv,
         phase = "closed", NEW k \in 1 .. Len(blocks)
  PROVE  LET b == blocks[k]  T == Read!TimeTable(b.tchn)
         IN /\ b.frame_maxhandle <= b.maxhandle /\ b.maxhandle <= hdr.maxhandle
            /\ b.begin <= b.end
            /\ k > 1 => b.begin = blocks[k - 1].end /\ T[1] = b.begin
            /\ \A i \in DOMAIN T : T[i] \in b.begin .. b.end
            /\ \A h \in Read!Handle :
                 /\ h > b.maxhandle => b.chain[h] = <<>>
                 /\ b.chain[h] # <<>> => Read!Last(Read!Indices(b.chain[h])) < Len(T)
            /\ k > 1 => \A h \in Read!Handle \ VarLen :
                 Read!EndValue(blocks[k - 1], h) \in {NoValue, Read!FrameValue(b, h)}
  <1> DEFINE b == blocks[k]
             T == Read!TimeTable(b.tchn)
  <1>1. T = past[k].times /\ past[k].times \in Seq(Nat)
    BY WrittenTable, WrittenTypes
  <1>2. Read!Handle = Handle
    BY Zenon DEF Read!Handle, Handle
  <1>3. OwnHandles(b) /\ (k > 1 => past[k].times[1] = b.begin)
    BY Zenon DEF JoinInv, Continues
  <1>4. b.maxhandle <= hdr.maxhandle
    BY Zenon DEF HeaderDescribesFile
  <1>5. /\ b.begin = IF k = 1 THEN firsttime ELSE blocks[k - 1].end
        /\ b.begin <= b.end
        /\ \A i \in 1 .. Len(past[k].times) : past[k].times[i] \in b.begin .. b.end
    BY Zenon DEF SectionsTile
  <1>6. DOMAIN T = 1 .. Len(T)
    BY <1>1
  <1>7. \A h \in Handle : b.chain[h] # <<>> => Read!Last(Read!Indices(b.chain[h])) < Len(T)
    BY <1>1, WrittenChain, Zenon
  <1>8. k > 1 => k # 1 /\ k \in 2 .. Len(blocks)
    OBVIOUS
  <1>9. k > 1 => \A h \in Handle \ VarLen :
          Read!EndValue(blocks[k - 1], h) \in {NoValue, Read!FrameValue(b, h)}
    BY <1>8, WrittenFrame, Zenon
  <1> QED
    BY <1>1, <1>2, <1>3, <1>4, <1>5, <1>6, <1>7, <1>8, <1>9, Zenon DEF OwnHandles

(* A closed file with sections has what makes it well formed.               *)
LEMMA WrittenReads ==
  ASSUME TypeOK, FramesChain, SectionsTile, SectionsDecode, HeaderDescribesFile, JoinInv
  PROVE  WrittenFileReads
  <1> SUFFICES ASSUME phase = "closed", blocks # <<>> PROVE Read!WellFormed(writtenFile)
    BY DEF WrittenFileReads
  <1>1. blocks \in Seq(Read!Section) \ {<<>>}
    BY WrittenSections
  <1>2. Len(blocks) \in 1 .. Len(blocks) /\ 1 \in 1 .. Len(blocks) /\ DOMAIN blocks = 1 .. Len(blocks)
    BY <1>1
  <1>3. hdr.maxhandle \in Read!Handle /\ VarLen \subseteq Read!Handle
    <2>1. OwnHandles(blocks[1]) /\ blocks[1].maxhandle <= hdr.maxhandle /\ hdr.maxhandle \in 0 .. MaxHandle
      BY <1>2, Zenon DEF JoinInv, Continues, HeaderDescribesFile, HdrHandles
    <2>2. blocks[1].maxhandle \in 0 .. MaxHandle /\ blocks[1].maxhandle >= 1
      BY <1>2, <2>1, WrittenTypes, Zenon DEF OwnHandles
    <2>3. hdr.maxhandle \in 1 .. MaxHandle
      BY <2>1, <2>2
    <2> QED
      BY <2>3, DataAssumption, Zenon DEF Read!Handle, Handle, DataAssumption
  <1>4. blocks[Len(blocks)].end <= hdr.end
    BY <1>2, Zenon DEF HeaderDescribesFile
  <1> QED
    BY <1>1, <1>2, <1>3, <1>4, WrittenSection, WrittenFields, Zenon DEF Read!WellFormed

(* Whatever the simulator does, short of queueing flushes of nothing, the   *)
(* file it closes is one the reader relies on: with ReaderAnswers and       *)
(* ReaderReplays, it is read as it was written.                             *)
THEOREM WrittenFilesRead ==
  ASSUME "flush_empty" \notin Usage
  PROVE  Spec => []WrittenFileReads
  <1>1. TypeInv /\ (LimitStops /\ Unstarted) /\ FramesInv /\ [Next]_vars => FramesInv'
    BY FramesStep
  <1>2. TypeInv /\ (LimitStops /\ Unstarted) /\ FramesInv /\ TileInv /\ [Next]_vars => TileInv'
    BY TileStep, Zenon DEF FramesInv
  <1>3. TypeInv /\ (LimitStops /\ Unstarted) /\ FramesInv /\ TileInv /\ JoinInv /\ [Next]_vars => JoinInv'
    BY JoinStep, Zenon DEF FramesInv, TileInv
  <1>4. TypeInv /\ DecodeInv /\ CloseInv /\ FramesInv /\ TileInv /\ JoinInv => WrittenFileReads
    BY WrittenReads, Zenon DEF TypeInv, DecodeInv, CloseInv, FramesInv, TileInv
  <1> QED
    BY TypeInvCorrect, StoppedInvCorrect, DecodeInit, DecodeStep, CloseInvCorrect, FramesInit, TileInit,
       JoinInit, <1>1, <1>2, <1>3, <1>4, PTL DEF Spec
=============================================================================
