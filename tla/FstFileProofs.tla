--------------------------- MODULE FstFileProofs ---------------------------
(***************************************************************************)
(* What the writer leaves on disk, for any number of records, times and    *)
(* blackouts and any set of modes: wherever the process stops, the reader  *)
(* finds every completed section.                                          *)
(*                                                                         *)
(* The invariant names the stage: nothing in progress (Quiet), the first   *)
(* mapping and header (Starting), a flush by the call or by the thread     *)
(* (Flushing), and close (Truncating, Appending, Ending).  Each says which *)
(* operations are left and what of the file is there by then, so that an   *)
(* operation leads from one alternative to the next.  What a reader makes  *)
(* of the file is said of each stage, once.                                *)
(***************************************************************************)
EXTENDS FstFile, Induction, FiniteSetTheorems, SequenceTheorems

(* The types of the context and of the disk.                                *)
Records == {"var", "other"}
SectionTags == {"geom", "blackout", "hier"}
Blocks == [tag : {"skip", "vc"} \cup SectionTags, len : {0, 1}, begin : Nat, end : Nat, data : Nat]
Ctx == [hier : Seq(Records), mapped : BOOLEAN, vc_emitted : BOOLEAN, is_initial_time : BOOLEAN,
        firsttime : Nat, curtime : Nat, changed : BOOLEAN, section_header_only : BOOLEAN,
        section_header_truncpos : Nat, section_start : Nat, secnum : Nat, blackouts : Nat,
        already_in_close : BOOLEAN, closed : BOOLEAN]
Disk == [file : Seq(Blocks), start : Nat, end : Nat, hier : Seq(Records), cut : BOOLEAN,
         hier_exists : BOOLEAN, packed : Seq(Records), padded : BOOLEAN, named : BOOLEAN,
         pak : {"none", "begun", "done"}]

Handles(c) == MaxHandleOf(c.hier)
CtxInv(c) ==
  /\ c.is_initial_time => c.firsttime = 0 /\ c.curtime = 0 /\ c.secnum = 0 /\ ~c.changed
  /\ ~c.is_initial_time => c.mapped
  /\ c.firsttime <= c.curtime
  /\ c.changed \/ c.secnum > 0 => Handles(c) # 0
Places(c, d) ==
  /\ c.section_start <= Len(d.file) + 1
  /\ c.section_header_truncpos <= Len(d.file)
Spilled(c, d) == Len(d.hier) <= Len(c.hier) /\ d.hier = SubSeq(c.hier, 1, Len(d.hier))

----------------------------------------------------------------------------
(* What has been written: m sections, the time the next one begins at, and  *)
(* the header of it.                                                        *)
Upto(c, f, m) == IF m = 0 THEN c.firsttime ELSE f[m].end
Section(c, f, i) ==
  /\ f[i].tag = "vc" /\ f[i].len = 1 /\ f[i].data = i
  /\ f[i].begin = Upto(c, f, i - 1) /\ f[i].end <= c.curtime
Sections(c, f, m) == m <= Len(f) /\ \A i \in 1 .. m : Section(c, f, i)
Begun(c, f, m, data) ==
  /\ Len(f) = m + 1 /\ Sections(c, f, m)
  /\ f[m + 1] = Block("skip", 0, Upto(c, f, m), Upto(c, f, m), data)

(* The last section, before it is tagged and behind it.                     *)
Sized(c, f, n, cur) ==
  /\ Len(f) = n /\ Sections(c, f, n - 1)
  /\ f[n] = Block("skip", 1, Upto(c, f, n - 1), cur, n)
Complete(c, f, n, cur) == Len(f) = n /\ Sections(c, f, n) /\ f[n].end = cur

(* What close has appended to them, up to block m: those of tags.           *)
Val(c, tag) == IF tag = "geom" THEN Handles(c) ELSE IF tag = "blackout" THEN c.blackouts ELSE 0
Once(c, f, m, tag) ==
  \E j \in 1 .. m : /\ f[j].tag = tag /\ f[j].data = Val(c, tag)
                    /\ \A i \in 1 .. m : f[i].tag = tag => i = j
None(f, m, tag) == \A i \in 1 .. m : f[i].tag # tag
Appended(c, f, m, tags) ==
  IF c.secnum = 0 THEN m >= 1 /\ m <= Len(f) /\ f[1].len = 0
  ELSE /\ c.secnum <= m /\ m <= Len(f) /\ Sections(c, f, c.secnum)
       /\ \A i \in c.secnum + 1 .. m : f[i].len = 1 /\ f[i].tag # "vc"
       /\ \A tag \in tags : Once(c, f, m, tag)
       /\ \A tag \in SectionTags \ tags : None(f, m, tag)
Whole(c, f, tags) == Appended(c, f, Len(f), tags)
Growing(c, f, tags, len, data) ==
  /\ Len(f) > 0 /\ Appended(c, f, Len(f) - 1, tags)
  /\ f[Len(f)] = Block("skip", len, 0, 0, data)

WithGeom(c) == IF Handles(c) = 0 THEN {} ELSE {"geom"}
WithBlackouts(c) == IF c.blackouts = 0 THEN WithGeom(c) ELSE WithGeom(c) \cup {"blackout"}
WithHier(md, c) ==
  IF "compress_hier" \in md THEN WithBlackouts(c) \cup {"hier"} ELSE WithBlackouts(c)

----------------------------------------------------------------------------
(* What close still has to do, from each of its operations on.              *)
Then(op, arg, rest) == << Op(op, arg) >> \o rest
ToClosed == << Op("closed", "") >>
ToRename == Then("rename", "", ToClosed)
ToUnlink == Then("unlink", "", ToRename)
ToPakDone == Then("pak", "done", ToUnlink)
ToRepack(md) == IF "repack" \in md THEN Then("pak", "begun", ToPakDone) ELSE ToClosed
ToFlushHier(md, c) == Then("flush_hier", c.hier, ToRepack(md))
ToTimes(md, c) == Then("times", <<c.firsttime, c.curtime>>, ToFlushHier(md, c))
ToUnlinkHier(md, c) == Then("unlink_hier", "", ToTimes(md, c))
ToTagHier(md, c) == Then("tag_last", "hier", ToUnlinkHier(md, c))
ToMeasureHier(md, c) == Then("length_last", "hier", ToTagHier(md, c))
ToPack(md, c) == Then("pack", Len(c.hier), ToMeasureHier(md, c))
ToSpill(md, c) ==
  IF "fourpack" \in md THEN ToPack(md, c) ELSE Then("flush_hier", c.hier, ToPack(md, c))
ToHier(md, c) ==
  IF "compress_hier" \in md THEN Then("append", <<"hier", 0, 0>>, ToSpill(md, c)) ELSE ToTimes(md, c)
ToTagBlackouts(md, c) == Then("tag_last", "blackout", ToHier(md, c))
ToMeasureBlackouts(md, c) == Then("length_last", "blackout", ToTagBlackouts(md, c))
ToBlackouts(md, c) ==
  IF c.blackouts = 0 THEN ToHier(md, c)
  ELSE Then("append", <<"blackout", 0, c.blackouts>>, ToMeasureBlackouts(md, c))
ToTagGeom(md, c) == Then("tag_last", "geom", ToBlackouts(md, c))
ToGeom(md, c) ==
  IF Handles(c) = 0 THEN ToBlackouts(md, c)
  ELSE Then("append", <<"geom", 1, Handles(c)>>, ToTagGeom(md, c))

(* The same for a flush of section n that ends at cur, and what is behind.  *)
ToHeader(cur, more, rest) == IF more THEN Then("header", cur, rest) ELSE rest
ToTruncpos(n, cur, more, rest) == Then("section_header_truncpos", n, ToHeader(cur, more, rest))
ToTag(n, cur, more, rest) == Then("tag", <<n, "vc">>, ToTruncpos(n, cur, more, rest))
ToLength(n, cur, more, rest) == Then("length", <<n, cur>>, ToTag(n, cur, more, rest))
ToBody(n, cur, more, rest) == Then("body", n, ToLength(n, cur, more, rest))

(* Behind a flush, and the flush itself, by the call or by a thread.        *)
Threads(md) == "parallel" \in md
ToWait(md, c) == Then("wait", "", ToGeom(md, c))
AfterFlush(md, c) ==
  IF ~c.already_in_close THEN <<>> ELSE IF Threads(md) THEN ToWait(md, c) ELSE ToGeom(md, c)
ToFlush(md, c, cur) ==
  IF Threads(md)
  THEN Then("spawn", ToBody(c.secnum, cur, ~c.already_in_close, <<>>), AfterFlush(md, c))
  ELSE ToBody(c.secnum, cur, ~c.already_in_close, AfterFlush(md, c))

----------------------------------------------------------------------------
(* The states between the operations: md, c, t, p and d are the mode, the   *)
(* context, main, the flusher and the disk.                                 *)
Unnamed(d) == d.start = 0 /\ d.end = 0
Timed(c, d) == d.start = c.firsttime /\ d.end = c.curtime
Intact(d) == d.named /\ d.pak = "none"
Untouched(c, d) == Unnamed(d) /\ d.hier_exists /\ Intact(d) /\ ~c.closed
HierFlushed(c, d) == d.hier = c.hier /\ ~d.cut
Packed(c, d) == d.packed = c.hier /\ ~d.padded
HierKept(md, c, d) ==
  IF "compress_hier" \in md THEN ~d.hier_exists /\ Packed(c, d) ELSE d.hier_exists
At(c, start, trunc) == c.section_start = start /\ c.section_header_truncpos = trunc

Resting(md, c, d) ==
  IF c.is_initial_time THEN d.file = <<>> /\ At(c, 0, 0)
  ELSE /\ Begun(c, d.file, c.secnum, 0) /\ At(c, c.secnum + 1, c.secnum)
       /\ ~Threads(md) /\ c.secnum > 0 => c.section_header_only
Quiet(md, c, t, p, d) ==
  /\ t = <<>> /\ p.state = "none" /\ ~c.already_in_close
  /\ Untouched(c, d) /\ (c.mapped => HierFlushed(c, d)) /\ Resting(md, c, d)

(* The first mapping, the first section header, and close before them.      *)
AfterHeader(md, c) ==
  IF ~c.already_in_close THEN <<>>
  ELSE IF c.secnum = 0 THEN ToGeom(md, c) ELSE ToFlush(md, c, 0)
AfterMapping(md, c) ==
  IF c.is_initial_time THEN <<>> ELSE Then("header", c.firsttime, AfterHeader(md, c))
ToMapTimes(md, c) == Then("times", <<0, 0>>, AfterMapping(md, c))
ToMapping(md, c) == Then("flush_hier", c.hier, ToMapTimes(md, c))
Starting(md, c, t, p, d) ==
  /\ p.state = "none" /\ Untouched(c, d) /\ d.file = <<>> /\ c.mapped /\ ~c.changed /\ At(c, 0, 0)
  /\ c.is_initial_time => ~c.already_in_close
  /\ ~c.already_in_close => c.secnum = 0
  /\ c.already_in_close =>
       c.firsttime = 0 /\ c.curtime = 0 /\ c.secnum = IF Handles(c) = 0 THEN 0 ELSE 1
  /\ \/ t = ToMapping(md, c)
     \/ HierFlushed(c, d) /\ t = ToMapTimes(md, c)
     \/ HierFlushed(c, d) /\ ~c.is_initial_time /\ t = AfterMapping(md, c)

(* A flush: what of its operations is left.                                *)
ToDo(c, f, todo, cur, rest) ==
  LET n == c.secnum
      more == ~c.already_in_close
  IN \/ todo = ToBody(n, cur, more, rest) /\ At(c, n, n - 1) /\ Begun(c, f, n - 1, 0)
     \/ todo = ToLength(n, cur, more, rest) /\ At(c, n, n - 1) /\ Begun(c, f, n - 1, n)
     \/ todo = ToTag(n, cur, more, rest) /\ At(c, n, n - 1) /\ Sized(c, f, n, cur)
     \/ todo = ToTruncpos(n, cur, more, rest) /\ At(c, n, n - 1) /\ Complete(c, f, n, cur)
     \/ more /\ todo = ToHeader(cur, more, rest) /\ At(c, n, n) /\ Complete(c, f, n, cur)
FlushLeft(c, d, todo, rest) ==
  \E cur \in 0 .. c.curtime : cur >= Upto(c, d.file, c.secnum - 1) /\ ToDo(c, d.file, todo, cur, rest)
Flushed(md, c, d) ==
  IF c.already_in_close
  THEN Len(d.file) = c.secnum /\ Sections(c, d.file, c.secnum) /\ At(c, c.secnum, c.secnum)
  ELSE Begun(c, d.file, c.secnum, 0) /\ At(c, c.secnum + 1, c.secnum)
Unbegun(c, d, todo) ==
  \E cur \in 0 .. c.curtime :
    /\ cur >= Upto(c, d.file, c.secnum - 1) /\ At(c, c.secnum, c.secnum - 1)
    /\ todo = ToBody(c.secnum, cur, ~c.already_in_close, <<>>)
    /\ Begun(c, d.file, c.secnum - 1, 0)
Mapped(c, d) ==
  /\ Untouched(c, d) /\ HierFlushed(c, d) /\ c.mapped /\ ~c.is_initial_time /\ c.secnum > 0
Serial(md, c, t, p, d) ==
  ~Threads(md) /\ p.state = "none" /\ FlushLeft(c, d, t, AfterFlush(md, c))
Spawning(md, c, t, p, d) ==
  /\ Threads(md) /\ p.state = "none"
  /\ t # <<>> /\ t = Then("spawn", Head(t).arg, AfterFlush(md, c)) /\ Unbegun(c, d, Head(t).arg)
Created(md, c, t, p, d) ==
  Threads(md) /\ p.state = "created" /\ t = AfterFlush(md, c) /\ Unbegun(c, d, p.todo)
Locked(md, c, t, p, d) ==
  /\ Threads(md) /\ p.state = "locked" /\ t = AfterFlush(md, c)
  /\ FlushLeft(c, d, p.todo, <<>>) \/ (p.todo = <<>> /\ Flushed(md, c, d))
Waiting(md, c, t, p, d) ==
  /\ Threads(md) /\ p.state = "none" /\ c.already_in_close
  /\ t = ToWait(md, c) /\ Flushed(md, c, d)
Flushing(md, c, t, p, d) ==
  /\ Mapped(c, d)
  /\ Serial(md, c, t, p, d) \/ Spawning(md, c, t, p, d) \/ Created(md, c, t, p, d)
     \/ Locked(md, c, t, p, d) \/ Waiting(md, c, t, p, d)

(* Close.                                                                   *)
InClose(c, p, d) ==
  c.already_in_close /\ p.state = "none" /\ c.mapped /\ ~c.is_initial_time /\ HierFlushed(c, d)
Truncating(md, c, t, p, d) ==
  /\ InClose(c, p, d) /\ Untouched(c, d) /\ c.secnum > 0 /\ Begun(c, d.file, c.secnum, 0)
  /\ At(c, c.secnum + 1, c.secnum) /\ t = Then("truncate", c.secnum, ToGeom(md, c))
AtGeom(md, c, t, d) ==
  \/ t = ToGeom(md, c) /\ Whole(c, d.file, {})
  \/ Handles(c) # 0 /\ t = ToTagGeom(md, c) /\ Growing(c, d.file, {}, 1, Handles(c))
AtBlackouts(md, c, t, d) ==
  \/ t = ToBlackouts(md, c) /\ Whole(c, d.file, WithGeom(c))
  \/ /\ c.blackouts # 0
     /\ \/ t = ToMeasureBlackouts(md, c) /\ Growing(c, d.file, WithGeom(c), 0, c.blackouts)
        \/ t = ToTagBlackouts(md, c) /\ Growing(c, d.file, WithGeom(c), 1, c.blackouts)
AtHier(md, c, t, d) ==
  \/ t = ToHier(md, c) /\ Whole(c, d.file, WithBlackouts(c))
  \/ /\ "compress_hier" \in md
     /\ \/ t \in {ToSpill(md, c), ToPack(md, c)} /\ Growing(c, d.file, WithBlackouts(c), 0, 0)
        \/ t = ToMeasureHier(md, c) /\ Growing(c, d.file, WithBlackouts(c), 0, 0) /\ Packed(c, d)
        \/ t = ToTagHier(md, c) /\ Growing(c, d.file, WithBlackouts(c), 1, 0) /\ Packed(c, d)
        \/ t = ToUnlinkHier(md, c) /\ Whole(c, d.file, WithHier(md, c)) /\ Packed(c, d)
Appending(md, c, t, p, d) ==
  /\ InClose(c, p, d) /\ Untouched(c, d)
  /\ AtGeom(md, c, t, d) \/ AtBlackouts(md, c, t, d) \/ AtHier(md, c, t, d)
Ending(md, c, t, p, d) ==
  /\ InClose(c, p, d) /\ HierKept(md, c, d) /\ Whole(c, d.file, WithHier(md, c))
  /\ \/ t = ToTimes(md, c) /\ Unnamed(d) /\ Intact(d) /\ ~c.closed
     \/ t = ToFlushHier(md, c) /\ Timed(c, d) /\ Intact(d) /\ ~c.closed
     \/ t = ToRepack(md) /\ Timed(c, d) /\ Intact(d) /\ ~c.closed
     \/ t = ToPakDone /\ Timed(c, d) /\ d.named /\ d.pak = "begun" /\ ~c.closed
     \/ t = ToUnlink /\ Timed(c, d) /\ d.named /\ d.pak = "done" /\ ~c.closed
     \/ t = ToRename /\ Timed(c, d) /\ ~d.named /\ d.pak = "done" /\ ~c.closed
     \/ t = ToClosed /\ Timed(c, d) /\ Intact(d) /\ ~c.closed
     \/ t = <<>> /\ Timed(c, d) /\ Intact(d) /\ c.closed

Stage(md, c, t, p, d) ==
  \/ Quiet(md, c, t, p, d) \/ Starting(md, c, t, p, d) \/ Flushing(md, c, t, p, d)
  \/ Truncating(md, c, t, p, d) \/ Appending(md, c, t, p, d) \/ Ending(md, c, t, p, d)
Base(c, d) == c \in Ctx /\ d \in Disk /\ CtxInv(c) /\ Places(c, d) /\ Spilled(c, d)
IInv ==
  /\ mode \in Modes /\ alive \in BOOLEAN
  /\ flusher.state \in {"none", "created", "locked"}
  /\ flusher = [state |-> flusher.state, todo |-> flusher.todo]
  /\ Base(xc, disk) /\ Stage(mode, xc, main, flusher, disk)

----------------------------------------------------------------------------
(* The operations a call still has to do.                                   *)

(* A list of operations, and one without a spawn or a tag to come.          *)
IsList(s) == \E S : s \in Seq(S)
Marks(w) == w.op = "spawn" \/ (w.op = "tag" /\ w.arg[2] = "vc")
Clean(s) == IsList(s) /\ ~Queued(s)

(* Putting an operation in front of a list.                                 *)
LEMMA ThenList ==
  ASSUME NEW op, NEW arg, NEW rest, IsList(rest)
  PROVE  /\ IsList(Then(op, arg, rest)) /\ Then(op, arg, rest) # <<>>
         /\ Head(Then(op, arg, rest)) = Op(op, arg) /\ Tail(Then(op, arg, rest)) = rest
         /\ Then(op, arg, rest) = << Op(op, arg) >> \o rest
  <1>1. PICK S : rest \in Seq(S)
    BY DEF IsList
  <1> DEFINE w == Op(op, arg)
             T == S \cup {w}
  <1>2. w \in T /\ rest \in Seq(T)
    BY <1>1
  <1>3. Then(op, arg, rest) = << w >> \o rest
    BY DEF Then
  <1> HIDE DEF w, T
  <1>4. << w >> \o rest \in Seq(T) /\ Head(<< w >> \o rest) = w /\ Tail(<< w >> \o rest) = rest
        /\ << w >> \o rest # <<>>
    BY <1>2
  <1> QED
    BY <1>3, <1>4 DEF IsList, w

(* A list asks for a flush if its first operation does, or what is behind   *)
(* it.                                                                      *)
LEMMA ThenQueued ==
  ASSUME NEW op, NEW arg, NEW rest, IsList(rest)
  PROVE  Queued(Then(op, arg, rest)) <=> Marks(Op(op, arg)) \/ Queued(rest)
  <1>1. PICK S : rest \in Seq(S)
    BY DEF IsList
  <1> DEFINE w == Op(op, arg)
             T == S \cup {w}
             t == << w >> \o rest
  <1>2. w \in T /\ rest \in Seq(T)
    BY <1>1
  <1>3. Then(op, arg, rest) = t
    BY DEF Then
  <1> HIDE DEF w, T
  <1>4. Len(t) = Len(rest) + 1 /\ Len(rest) \in Nat /\ t[1] = w
        /\ \A i \in 1 .. Len(rest) : t[i + 1] = rest[i]
    BY <1>2
  <1>5. \A i \in 1 .. Len(t) : i = 1 \/ (i - 1 \in 1 .. Len(rest) /\ t[i] = rest[i - 1])
    <2> SUFFICES ASSUME NEW i \in 1 .. Len(t), i # 1
                 PROVE  i - 1 \in 1 .. Len(rest) /\ t[i] = rest[i - 1]
      OBVIOUS
    <2>1. i - 1 \in 1 .. Len(rest) /\ (i - 1) + 1 = i
      BY <1>4
    <2> QED
      BY <1>4, <2>1
  <1> HIDE DEF t
  <1>6. Queued(t) <=> \E i \in 1 .. Len(t) : Marks(t[i])
    BY Zenon DEF Queued, Marks
  <1>7. Queued(rest) <=> \E i \in 1 .. Len(rest) : Marks(rest[i])
    BY Zenon DEF Queued, Marks
  <1>8. 1 \in 1 .. Len(t) /\ \A i \in 1 .. Len(rest) : i + 1 \in 1 .. Len(t)
    BY <1>4
  <1>9. Queued(t) <=> Marks(w) \/ Queued(rest)
    BY <1>4, <1>5, <1>6, <1>7, <1>8, Zenon
  <1> QED
    BY <1>3, <1>9 DEF w

(* No flush, by an operation in front of a list without one.                *)
LEMMA ThenClean ==
  ASSUME NEW op, NEW arg, NEW rest, Clean(rest), op \notin {"spawn", "tag"}
  PROVE  Clean(Then(op, arg, rest))
  <1>1. ~Marks(Op(op, arg))
    BY DEF Marks, Op
  <1> QED
    BY <1>1, ThenList, ThenQueued DEF Clean

(* ... nor in the empty list.                                               *)
LEMMA EmptyClean == Clean(<<>>)
  <1>1. <<>> \in Seq({})
    OBVIOUS
  <1>2. IsList(<<>>)
    BY <1>1 DEF IsList
  <1>3. 1 .. Len(<<>>) = {}
    OBVIOUS
  <1> QED
    BY <1>2, <1>3, Zenon DEF Clean, Queued

(* The last operation, in the same form.                                    *)
LEMMA LastThen ==
  ToClosed = Then("closed", "", <<>>)
  <1>1. \A w : << w >> \o <<>> = << w >>
    OBVIOUS
  <1> QED
    BY <1>1 DEF ToClosed, Then

(* What close still has to do never has a section to complete.              *)
LEMMA CloseClean ==
  ASSUME NEW md, NEW c
  PROVE  /\ Clean(ToClosed) /\ Clean(ToRename) /\ Clean(ToUnlink) /\ Clean(ToPakDone)
         /\ Clean(ToRepack(md)) /\ Clean(ToFlushHier(md, c)) /\ Clean(ToTimes(md, c))
         /\ Clean(ToUnlinkHier(md, c)) /\ Clean(ToTagHier(md, c)) /\ Clean(ToMeasureHier(md, c))
         /\ Clean(ToPack(md, c)) /\ Clean(ToSpill(md, c)) /\ Clean(ToHier(md, c))
         /\ Clean(ToTagBlackouts(md, c)) /\ Clean(ToMeasureBlackouts(md, c))
         /\ Clean(ToBlackouts(md, c)) /\ Clean(ToTagGeom(md, c)) /\ Clean(ToGeom(md, c))
         /\ Clean(ToWait(md, c)) /\ Clean(AfterFlush(md, c))
  <1>1. Clean(ToClosed)
    BY EmptyClean, ThenClean, LastThen
  <1>2. Clean(ToRename) /\ Clean(ToUnlink) /\ Clean(ToPakDone)
    BY <1>1, ThenClean DEF ToRename, ToUnlink, ToPakDone
  <1>3. Clean(ToRepack(md)) /\ Clean(ToFlushHier(md, c)) /\ Clean(ToTimes(md, c))
    BY <1>1, <1>2, ThenClean DEF ToRepack, ToFlushHier, ToTimes
  <1>4. /\ Clean(ToUnlinkHier(md, c)) /\ Clean(ToTagHier(md, c)) /\ Clean(ToMeasureHier(md, c))
        /\ Clean(ToPack(md, c))
    BY <1>3, ThenClean DEF ToUnlinkHier, ToTagHier, ToMeasureHier, ToPack
  <1>5. Clean(ToSpill(md, c)) /\ Clean(ToHier(md, c))
    BY <1>3, <1>4, ThenClean DEF ToSpill, ToHier
  <1>6. /\ Clean(ToTagBlackouts(md, c)) /\ Clean(ToMeasureBlackouts(md, c))
        /\ Clean(ToBlackouts(md, c))
    BY <1>5, ThenClean DEF ToTagBlackouts, ToMeasureBlackouts, ToBlackouts
  <1>7. Clean(ToTagGeom(md, c)) /\ Clean(ToGeom(md, c)) /\ Clean(ToWait(md, c))
    BY <1>6, ThenClean DEF ToTagGeom, ToGeom, ToWait
  <1>8. Clean(AfterFlush(md, c))
    BY <1>7, EmptyClean DEF AfterFlush
  <1> QED
    BY <1>1, <1>2, <1>3, <1>4, <1>5, <1>6, <1>7, <1>8

(* A flush has one until its tag is written.                                *)
LEMMA FlushQueued ==
  ASSUME NEW n, NEW cur, NEW more, NEW rest, IsList(rest)
  PROVE  /\ IsList(ToHeader(cur, more, rest)) /\ IsList(ToTruncpos(n, cur, more, rest))
         /\ IsList(ToTag(n, cur, more, rest)) /\ IsList(ToLength(n, cur, more, rest))
         /\ IsList(ToBody(n, cur, more, rest))
         /\ Queued(ToHeader(cur, more, rest)) <=> Queued(rest)
         /\ Queued(ToTruncpos(n, cur, more, rest)) <=> Queued(rest)
         /\ Queued(ToTag(n, cur, more, rest)) /\ Queued(ToLength(n, cur, more, rest))
         /\ Queued(ToBody(n, cur, more, rest))
  <1>1. /\ IsList(ToHeader(cur, more, rest)) /\ IsList(ToTruncpos(n, cur, more, rest))
        /\ IsList(ToTag(n, cur, more, rest)) /\ IsList(ToLength(n, cur, more, rest))
        /\ IsList(ToBody(n, cur, more, rest))
    BY ThenList DEF ToHeader, ToTruncpos, ToTag, ToLength, ToBody
  <1>2. /\ ~Marks(Op("header", cur)) /\ ~Marks(Op("section_header_truncpos", n))
        /\ Marks(Op("tag", <<n, "vc">>))
    BY DEF Marks, Op
  <1>3. Queued(ToHeader(cur, more, rest)) <=> Queued(rest)
    BY <1>2, ThenQueued DEF ToHeader
  <1>4. Queued(ToTruncpos(n, cur, more, rest)) <=> Queued(rest)
    BY <1>1, <1>2, <1>3, ThenQueued DEF ToTruncpos
  <1>5. Queued(ToTag(n, cur, more, rest))
    BY <1>1, <1>2, ThenQueued DEF ToTag
  <1>6. Queued(ToLength(n, cur, more, rest))
    BY <1>1, <1>5, ThenQueued DEF ToLength
  <1>7. Queued(ToBody(n, cur, more, rest))
    BY <1>1, <1>6, ThenQueued DEF ToBody
  <1> QED
    BY <1>1, <1>3, <1>4, <1>5, <1>6, <1>7

(* The operations of a call, as the lists above.                            *)
LEMMA ListsConcat ==
  ASSUME NEW s, NEW t, NEW u, IsList(s), IsList(t), IsList(u)
  PROVE  IsList(s \o t) /\ (s \o t) \o u = s \o (t \o u) /\ <<>> \o s = s /\ s \o <<>> = s
  <1>1. PICK S, T, U : s \in Seq(S) /\ t \in Seq(T) /\ u \in Seq(U)
    BY DEF IsList
  <1> DEFINE V == S \cup T \cup U
  <1>2. s \in Seq(V) /\ t \in Seq(V) /\ u \in Seq(V)
    BY <1>1
  <1> HIDE DEF V
  <1>3. s \o t \in Seq(V)
    BY <1>2
  <1>4. (s \o t) \o u = s \o (t \o u)
    BY <1>2, ConcatAssociative
  <1>5. <<>> \o s = s /\ s \o <<>> = s
    BY <1>2, ConcatEmptySeq
  <1> QED
    BY <1>3, <1>4, <1>5 DEF IsList

(* Tuples, one element at a time.                                           *)
InFront(v, s, t) ==
  Len(t) = Len(s) + 1 /\ t[1] = v /\ \A i \in 1 .. Len(s) : t[i + 1] = s[i]
(* An element in front of a sequence.                                       *)
LEMMA OneMore ==
  ASSUME NEW S, NEW v \in S, NEW s \in Seq(S), NEW t \in Seq(S), InFront(v, s, t)
  PROVE  << v >> \o s = t
  <1>0. Len(t) = Len(s) + 1 /\ t[1] = v /\ \A i \in 1 .. Len(s) : t[i + 1] = s[i]
    BY DEF InFront
  <1>1. << v >> \o s \in Seq(S) /\ Len(<< v >> \o s) = Len(t)
    BY <1>0
  <1>2. ASSUME NEW i \in 1 .. Len(t) PROVE (<< v >> \o s)[i] = t[i]
    <2>1. CASE i = 1
      BY <1>0, <2>1
    <2>2. CASE i # 1
      <3>1. i - 1 \in 1 .. Len(s)
        BY <1>0, <2>2
      <3>2. (<< v >> \o s)[i] = s[i - 1]
        BY <3>1
      <3>3. t[(i - 1) + 1] = s[i - 1] /\ (i - 1) + 1 = i
        BY <1>0, <3>1
      <3> QED
        BY <3>2, <3>3
    <2> QED
      BY <2>1, <2>2
  <1> QED
    BY <1>1, <1>2, SeqEqual

(* A pair, as its first element in front of the second.                     *)
LEMMA Pair ==
  ASSUME NEW v, NEW w
  PROVE  IsList(<< v, w >>) /\ << v, w >> = << v >> \o << w >>
  <1> DEFINE S == {v, w}
             s == << w >>
             t == << v, w >>
  <1>1. v \in S /\ w \in S
    OBVIOUS
  <1>2. s \in Seq(S) /\ t \in Seq(S)
    <2> HIDE DEF S
    <2> QED
      BY <1>1
  <1>3. Len(s) = 1 /\ Len(t) = 2 /\ t[1] = v
    OBVIOUS
  <1>4. s[1] = t[2]
    OBVIOUS
  <1> HIDE DEF S, s, t
  <1>5. \A i \in 1 .. Len(s) : t[i + 1] = s[i]
    <2> SUFFICES ASSUME NEW i \in 1 .. Len(s) PROVE t[i + 1] = s[i]
      OBVIOUS
    <2>1. i = 1
      BY <1>3
    <2> QED
      BY <1>4, <2>1
  <1>6. << v >> \o s = t
    <2>1. InFront(v, s, t)
      BY <1>3, <1>5 DEF InFront
    <2> QED
      BY <1>1, <1>2, <2>1, OneMore, Zenon
  <1>7. IsList(t)
    BY <1>2 DEF IsList
  <1> QED
    BY <1>6, <1>7 DEF s, t

(* Three elements.                                                          *)
LEMMA Triple ==
  ASSUME NEW v, NEW w, NEW x
  PROVE  IsList(<< v, w, x >>) /\ << v, w, x >> = << v >> \o << w, x >>
  <1> DEFINE S == {v, w, x}
             s == << w, x >>
             t == << v, w, x >>
  <1>1. v \in S /\ w \in S /\ x \in S
    OBVIOUS
  <1>2. s \in Seq(S) /\ t \in Seq(S)
    <2> HIDE DEF S
    <2> QED
      BY <1>1
  <1>3. Len(s) = 2 /\ Len(t) = 3 /\ t[1] = v
    OBVIOUS
  <1>4. s[1] = t[2] /\ s[2] = t[3]
    OBVIOUS
  <1> HIDE DEF S, s, t
  <1>5. \A i \in 1 .. Len(s) : t[i + 1] = s[i]
    <2> SUFFICES ASSUME NEW i \in 1 .. Len(s) PROVE t[i + 1] = s[i]
      OBVIOUS
    <2>1. i = 1 \/ i = 2
      BY <1>3
    <2> QED
      BY <1>4, <2>1
  <1>6. << v >> \o s = t
    <2>1. InFront(v, s, t)
      BY <1>3, <1>5 DEF InFront
    <2> QED
      BY <1>1, <1>2, <2>1, OneMore, Zenon
  <1>7. IsList(t)
    BY <1>2 DEF IsList
  <1> QED
    BY <1>6, <1>7 DEF s, t

(* Four.                                                                    *)
LEMMA Quadruple ==
  ASSUME NEW v, NEW w, NEW x, NEW y
  PROVE  IsList(<< v, w, x, y >>) /\ << v, w, x, y >> = << v >> \o << w, x, y >>
  <1> DEFINE S == {v, w, x, y}
             s == << w, x, y >>
             t == << v, w, x, y >>
  <1>1. v \in S /\ w \in S /\ x \in S /\ y \in S
    OBVIOUS
  <1>2. s \in Seq(S) /\ t \in Seq(S)
    <2> HIDE DEF S
    <2> QED
      BY <1>1
  <1>3. Len(s) = 3 /\ Len(t) = 4 /\ t[1] = v
    OBVIOUS
  <1>4. s[1] = t[2] /\ s[2] = t[3] /\ s[3] = t[4]
    OBVIOUS
  <1> HIDE DEF S, s, t
  <1>5. \A i \in 1 .. Len(s) : t[i + 1] = s[i]
    <2> SUFFICES ASSUME NEW i \in 1 .. Len(s) PROVE t[i + 1] = s[i]
      OBVIOUS
    <2>1. i = 1 \/ i = 2 \/ i = 3
      BY <1>3
    <2> QED
      BY <1>4, <2>1
  <1>6. << v >> \o s = t
    <2>1. InFront(v, s, t)
      BY <1>3, <1>5 DEF InFront
    <2> QED
      BY <1>1, <1>2, <2>1, OneMore, Zenon
  <1>7. IsList(t)
    BY <1>2 DEF IsList
  <1> QED
    BY <1>6, <1>7 DEF s, t

(* Tuples are lists.                                                        *)
LEMMA TupleLists ==
  ASSUME NEW v, NEW w, NEW x, NEW y
  PROVE  /\ IsList(<<>>) /\ IsList(<<v>>) /\ IsList(<<v, w>>) /\ IsList(<<v, w, x>>)
         /\ IsList(<<v, w, x, y>>)
  <1>1. <<>> \in Seq({v}) /\ << v >> \in Seq({v})
    OBVIOUS
  <1>2. IsList(<<>>) /\ IsList(<<v>>)
    BY <1>1 DEF IsList
  <1> QED
    BY <1>2, Pair, Triple, Quadruple, Zenon

(* So is what is put together of two.                                       *)
LEMMA ListOfConcat ==
  ASSUME NEW s, NEW t, IsList(s), IsList(t)
  PROVE  IsList(s \o t)
  BY ListsConcat, Zenon

Unfolds2(s, v, w, rest) == s \o rest = << v >> \o (<< w >> \o rest)
(* A pair in front of a list, element by element.                           *)
LEMMA TwoThen ==
  ASSUME NEW v, NEW w, NEW rest, IsList(rest)
  PROVE  Unfolds2(<< v, w >>, v, w, rest)
  <1>1. << v, w >> = << v >> \o << w >>
    BY Pair, Zenon
  <1>2. IsList(<< v >>) /\ IsList(<< w >>)
    BY TupleLists, Zenon
  <1>3. (<< v >> \o << w >>) \o rest = << v >> \o (<< w >> \o rest)
    BY <1>2, ListsConcat
  <1> QED
    BY <1>1, <1>3 DEF Unfolds2

Unfolds4(s, v, w, x, y, rest) == s \o rest = << v >> \o (<< w >> \o (<< x >> \o (<< y >> \o rest)))
(* The same for four.                                                       *)
LEMMA FourThen ==
  ASSUME NEW v, NEW w, NEW x, NEW y, NEW rest, IsList(rest)
  PROVE  Unfolds4(<< v, w, x, y >>, v, w, x, y, rest)
  <1>1. << v, w, x, y >> = << v >> \o (<< w >> \o (<< x >> \o << y >>))
    <2>1. << v, w, x, y >> = << v >> \o << w, x, y >>
      BY Quadruple, Zenon
    <2>2. << w, x, y >> = << w >> \o << x, y >>
      BY Triple, Zenon
    <2>3. << x, y >> = << x >> \o << y >>
      BY Pair, Zenon
    <2> QED
      BY <2>1, <2>2, <2>3
  <1>2. IsList(<< v >>) /\ IsList(<< w >>) /\ IsList(<< x >>) /\ IsList(<< y >>)
    BY TupleLists, Zenon
  <1>3. IsList(<< x >> \o << y >>)
    BY <1>2, ListOfConcat
  <1>4. IsList(<< w >> \o (<< x >> \o << y >>))
    BY <1>2, <1>3, ListOfConcat
  <1>5. << v, w, x, y >> \o rest = << v >> \o ((<< w >> \o (<< x >> \o << y >>)) \o rest)
    BY <1>1, <1>2, <1>4, ListsConcat
  <1>6. (<< w >> \o (<< x >> \o << y >>)) \o rest = << w >> \o ((<< x >> \o << y >>) \o rest)
    BY <1>2, <1>3, ListsConcat
  <1>7. (<< x >> \o << y >>) \o rest = << x >> \o (<< y >> \o rest)
    BY <1>2, ListsConcat
  <1> QED
    BY <1>5, <1>6, <1>7 DEF Unfolds4

(* What has no flush in it is a list.                                       *)
LEMMA CleanIsList ==
  ASSUME NEW s, Clean(s)
  PROVE  IsList(s)
  BY DEF Clean

(* fstWriterClose behind the flush.                                         *)
LEMMA CloseIsToGeom ==
  ASSUME NEW c
  PROVE  CloseRest(c.hier, c.blackouts, c.firsttime, c.curtime) = ToGeom(mode, c)
  <1> DEFINE g == CloseGeom(c.hier)
             b == CloseBlackouts(c.blackouts)
             h == IF "compress_hier" \in mode THEN CloseHier(c.hier) ELSE <<>>
             t == << Op("times", <<c.firsttime, c.curtime>>), Op("flush_hier", c.hier) >>
             r == IF "repack" \in mode THEN Repack ELSE <<>>
             e == << Op("closed", "") >>
             spill == IF "fourpack" \in mode THEN <<>> ELSE << Op("flush_hier", c.hier) >>
             pack == << Op("pack", Len(c.hier)), Op("length_last", "hier"), Op("tag_last", "hier"),
                        Op("unlink_hier", "") >>
  <1>0. CloseRest(c.hier, c.blackouts, c.firsttime, c.curtime) = ((((g \o b) \o h) \o t) \o r) \o e
    BY DEF CloseRest
  <1>1. CloseHier(c.hier) = (<< Op("append", <<"hier", 0, 0>>) >> \o spill) \o pack
    BY DEF CloseHier
  <1>2. IsList(spill) /\ IsList(pack) /\ IsList(t) /\ IsList(e) /\ IsList(r)
    BY TupleLists, Zenon DEF Repack
  <1>3. IsList(CloseHier(c.hier))
    <2>1. IsList(<< Op("append", <<"hier", 0, 0>>) >>)
      BY TupleLists
    <2> QED
      BY <1>1, <1>2, <2>1, ListOfConcat, Zenon
  <1>4. IsList(h) /\ IsList(b) /\ IsList(g)
    <2>1. IsList(Measured("geom", MaxHandleOf(c.hier)))
      BY TupleLists, Zenon DEF Measured
    <2>2. IsList(Patched("blackout", c.blackouts))
      BY TupleLists, Zenon DEF Patched
    <2>3. IsList(<<>>)
      BY TupleLists
    <2> QED
      BY <1>3, <2>1, <2>2, <2>3 DEF CloseBlackouts, CloseGeom
  <1> HIDE DEF g, b, h, t, r, e, spill, pack
  <1>5. r \o e = ToRepack(mode)
    <2>1. CASE "repack" \in mode
      <3>1. r = << Op("pak", "begun"), Op("pak", "done"), Op("unlink", ""), Op("rename", "") >>
        BY <2>1 DEF r, Repack
      <3>2. e = ToClosed
        BY DEF e, ToClosed
      <3>3. IsList(ToClosed)
        BY CloseClean, CleanIsList
      <3>4. Unfolds4(r, Op("pak", "begun"), Op("pak", "done"), Op("unlink", ""), Op("rename", ""), ToClosed)
        BY <3>1, <3>3, FourThen, Zenon
      <3> QED
        BY <2>1, <3>2, <3>4 DEF ToRepack, ToPakDone, ToUnlink, ToRename, Then, Unfolds4
    <2>2. CASE "repack" \notin mode
      BY <1>2, <2>2, ListsConcat DEF r, e, ToRepack, ToClosed
    <2> QED
      BY <2>1, <2>2
  <1>6. t \o (r \o e) = ToTimes(mode, c)
    <2>1. IsList(ToRepack(mode))
      BY CloseClean, CleanIsList
    <2>2. Unfolds2(t, Op("times", <<c.firsttime, c.curtime>>), Op("flush_hier", c.hier), ToRepack(mode))
      BY <2>1, TwoThen, Zenon DEF t
    <2> QED
      BY <1>5, <2>2 DEF ToTimes, ToFlushHier, Then, Unfolds2
  <1>7. h \o (t \o (r \o e)) = ToHier(mode, c)
    <2>0. IsList(ToTimes(mode, c)) /\ IsList(ToPack(mode, c))
      BY CloseClean, CleanIsList
    <2>1. CASE "compress_hier" \in mode
      <3>1. pack \o ToTimes(mode, c) = ToPack(mode, c)
        <4>1. Unfolds4(pack, Op("pack", Len(c.hier)), Op("length_last", "hier"), Op("tag_last", "hier"),
                       Op("unlink_hier", ""), ToTimes(mode, c))
          BY <2>0, FourThen, Zenon DEF pack
        <4> QED
          BY <4>1 DEF Unfolds4, ToPack, ToMeasureHier, ToTagHier, ToUnlinkHier, Then
      <3>2. spill \o ToPack(mode, c) = ToSpill(mode, c)
        <4>1. <<>> \o ToPack(mode, c) = ToPack(mode, c)
          BY <2>0, ListsConcat
        <4> QED
          BY <4>1 DEF spill, ToSpill, Then
      <3> DEFINE a == << Op("append", <<"hier", 0, 0>>) >>
      <3>3. IsList(a)
        BY TupleLists
      <3>4. h = (a \o spill) \o pack
        BY <1>1, <2>1 DEF h
      <3> HIDE DEF a
      <3>5. IsList(a \o spill)
        BY <1>2, <3>3, ListsConcat
      <3>6. ((a \o spill) \o pack) \o ToTimes(mode, c) = (a \o spill) \o (pack \o ToTimes(mode, c))
        BY <1>2, <2>0, <3>5, ListsConcat
      <3>7. (a \o spill) \o ToPack(mode, c) = a \o (spill \o ToPack(mode, c))
        BY <1>2, <2>0, <3>3, ListsConcat
      <3>8. h \o ToTimes(mode, c) = a \o ToSpill(mode, c)
        BY <3>1, <3>2, <3>4, <3>6, <3>7
      <3> QED
        BY <1>6, <2>1, <3>8 DEF ToHier, Then, a
    <2>2. CASE "compress_hier" \notin mode
      <3>1. h = <<>>
        BY <2>2 DEF h
      <3>2. <<>> \o ToTimes(mode, c) = ToTimes(mode, c)
        BY <2>0, ListsConcat
      <3> QED
        BY <1>6, <2>2, <3>1, <3>2 DEF ToHier
    <2> QED
      BY <2>1, <2>2
  <1>8. b \o ToHier(mode, c) = ToBlackouts(mode, c)
    <2>0. IsList(ToHier(mode, c)) /\ IsList(ToTagBlackouts(mode, c))
      BY CloseClean, CleanIsList
    <2>1. CASE c.blackouts = 0
      <3>1. b = <<>>
        BY <2>1 DEF b, CloseBlackouts
      <3> QED
        BY <2>0, <2>1, <3>1, ListsConcat DEF ToBlackouts
    <2>2. CASE c.blackouts # 0
      <3> DEFINE v == Op("append", <<"blackout", 0, c.blackouts>>)
                 w == Op("length_last", "blackout")
                 x == Op("tag_last", "blackout")
      <3>1. b = << v, w, x >>
        BY <2>2 DEF b, CloseBlackouts, Patched
      <3>2. << v, w, x >> = << v >> \o << w, x >> /\ IsList(<<v>>) /\ IsList(<<w, x>>)
        <4> HIDE DEF v, w, x
        <4>1. << v, w, x >> = << v >> \o << w, x >>
          OBVIOUS
        <4> QED
          BY <4>1, TupleLists
      <3>3. << w, x >> \o ToHier(mode, c) = ToMeasureBlackouts(mode, c)
        <4>1. Unfolds2(<< w, x >>, w, x, ToHier(mode, c))
          BY <2>0, TwoThen, Zenon
        <4> QED
          BY <4>1 DEF ToMeasureBlackouts, ToTagBlackouts, Unfolds2, Then
      <3>4. (<< v >> \o << w, x >>) \o ToHier(mode, c) = << v >> \o (<< w, x >> \o ToHier(mode, c))
        <4> HIDE DEF v, w, x
        <4> QED
          BY <2>0, <3>2, ListsConcat
      <3>5. b \o ToHier(mode, c) = << v >> \o ToMeasureBlackouts(mode, c)
        <4> HIDE DEF v, w, x
        <4> QED
          BY <3>1, <3>2, <3>3, <3>4
      <3> QED
        BY <2>2, <3>5 DEF ToBlackouts, Then
    <2> QED
      BY <2>1, <2>2
  <1>9. g \o ToBlackouts(mode, c) = ToGeom(mode, c)
    <2>0. IsList(ToBlackouts(mode, c))
      BY CloseClean, CleanIsList
    <2>1. CASE Handles(c) = 0
      <3>1. g = <<>>
        BY <2>1 DEF g, CloseGeom, Handles
      <3> QED
        BY <2>0, <2>1, <3>1, ListsConcat DEF ToGeom
    <2>2. CASE Handles(c) # 0
      <3>1. g = << Op("append", <<"geom", 1, Handles(c)>>), Op("tag_last", "geom") >>
        BY <2>2 DEF g, CloseGeom, Handles, Measured
      <3> QED
        <4>1. Unfolds2(g, Op("append", <<"geom", 1, Handles(c)>>), Op("tag_last", "geom"), ToBlackouts(mode, c))
          BY <2>0, <3>1, TwoThen, Zenon
        <4> QED
          BY <2>2, <4>1 DEF ToGeom, ToTagGeom, Unfolds2, Then
    <2> QED
      BY <2>1, <2>2
  <1>10. ((((g \o b) \o h) \o t) \o r) \o e = g \o (b \o (h \o (t \o (r \o e))))
    <2>1. IsList(g \o b)
      BY <1>4, ListsConcat
    <2>2. IsList((g \o b) \o h)
      BY <1>4, <2>1, ListsConcat
    <2>3. IsList(((g \o b) \o h) \o t)
      BY <1>2, <2>2, ListsConcat
    <2>4. ((((g \o b) \o h) \o t) \o r) \o e = (((g \o b) \o h) \o t) \o (r \o e)
      BY <1>2, <2>3, ListsConcat
    <2>5. IsList(r \o e)
      BY <1>2, ListsConcat
    <2>6. (((g \o b) \o h) \o t) \o (r \o e) = ((g \o b) \o h) \o (t \o (r \o e))
      BY <1>2, <2>2, <2>5, ListsConcat
    <2>7. IsList(t \o (r \o e))
      BY <1>2, <2>5, ListsConcat
    <2>8. ((g \o b) \o h) \o (t \o (r \o e)) = (g \o b) \o (h \o (t \o (r \o e)))
      BY <1>4, <2>1, <2>7, ListsConcat
    <2>9. PICK u : u = h \o (t \o (r \o e)) /\ IsList(u)
      BY <1>4, <2>7, ListsConcat
    <2>10. (g \o b) \o u = g \o (b \o u)
      BY <1>4, <2>9, ListsConcat
    <2> QED
      BY <2>4, <2>6, <2>8, <2>9, <2>10
  <1>11. b \o (h \o (t \o (r \o e))) = ToBlackouts(mode, c)
    BY <1>7, <1>8
  <1> QED
    BY <1>0, <1>9, <1>10, <1>11

(* fstWriterFlushContextPrivate, with rest behind it.                       *)
LEMMA FlushIsToBody ==
  ASSUME NEW n, NEW cur, NEW more, more \in BOOLEAN, NEW rest, IsList(rest)
  PROVE  Flush(n, n, cur, more) \o rest = ToBody(n, cur, more, rest)
  <1> DEFINE s == << Op("body", n), Op("length", <<n, cur>>), Op("tag", <<n, "vc">>),
                     Op("section_header_truncpos", n) >>
             h == IF more THEN EmitSectionHeader(cur) ELSE <<>>
  <1>1. Flush(n, n, cur, more) = s \o h
    BY DEF Flush
  <1>2. IsList(s) /\ IsList(h)
    BY TupleLists, Zenon DEF EmitSectionHeader
  <1>3. h \o rest = ToHeader(cur, more, rest)
    <2>1. <<>> \o rest = rest
      BY ListsConcat
    <2> QED
      BY <2>1 DEF EmitSectionHeader, ToHeader, Then
  <1>4. IsList(ToHeader(cur, more, rest))
    BY FlushQueued, Zenon
  <1>5. s \o ToHeader(cur, more, rest) = ToBody(n, cur, more, rest)
    <2>1. Unfolds4(s, Op("body", n), Op("length", <<n, cur>>), Op("tag", <<n, "vc">>),
                   Op("section_header_truncpos", n), ToHeader(cur, more, rest))
      BY <1>4, FourThen, Zenon DEF s
    <2> QED
      BY <2>1 DEF Unfolds4, ToBody, ToLength, ToTag, ToTruncpos, Then
  <1> HIDE DEF s, h
  <1>6. (s \o h) \o rest = s \o (h \o rest)
    BY <1>2, ListsConcat
  <1> QED
    BY <1>1, <1>3, <1>5, <1>6

(* A flush with nothing behind it.                                          *)
LEMMA FlushAlone ==
  ASSUME NEW n, NEW cur, NEW more, more \in BOOLEAN
  PROVE  Flush(n, n, cur, more) = ToBody(n, cur, more, <<>>)
  <1>1. Flush(n, n, cur, more) \o <<>> = ToBody(n, cur, more, <<>>)
    BY FlushIsToBody, EmptyClean, CleanIsList
  <1>2. IsList(Flush(n, n, cur, more))
    <2>1. IsList(<< Op("body", n), Op("length", <<n, cur>>), Op("tag", <<n, "vc">>),
                     Op("section_header_truncpos", n) >>)
      BY TupleLists
    <2>2. IsList(IF more THEN EmitSectionHeader(cur) ELSE <<>>)
      BY TupleLists, Zenon DEF EmitSectionHeader
    <2> QED
      BY <2>1, <2>2, ListsConcat DEF Flush
  <1> QED
    BY <1>1, <1>2, ListsConcat

----------------------------------------------------------------------------
(* What an operation does to the disk and to the context.                   *)

(* What an operation does to a disk, field by field.                        *)
OnlyFile(d, e, f) ==
  /\ e \in Disk /\ e.file = f /\ e.start = d.start /\ e.end = d.end /\ e.hier = d.hier
  /\ e.cut = d.cut /\ e.hier_exists = d.hier_exists /\ e.packed = d.packed
  /\ e.padded = d.padded /\ e.named = d.named /\ e.pak = d.pak
Patch(f, i, b) == [f EXCEPT ![i] = b]

(* A disk with another file is a disk.                                      *)
LEMMA FileReplaced ==
  ASSUME NEW d \in Disk, NEW f \in Seq(Blocks)
  PROVE  OnlyFile(d, [d EXCEPT !.file = f], f)
  BY DEF OnlyFile, Disk

(* A block more.                                                            *)
LEMMA FileAppended ==
  ASSUME NEW f \in Seq(Blocks), NEW b \in Blocks
  PROVE  /\ Append(f, b) \in Seq(Blocks) /\ Len(Append(f, b)) = Len(f) + 1
         /\ Append(f, b)[Len(f) + 1] = b /\ \A i \in 1 .. Len(f) : Append(f, b)[i] = f[i]
  <1> HIDE DEF Blocks
  <1> QED
    OBVIOUS

(* A block replaced.                                                        *)
LEMMA FilePatched ==
  ASSUME NEW f \in Seq(Blocks), NEW n \in 1 .. Len(f), NEW b \in Blocks
  PROVE  /\ Patch(f, n, b) \in Seq(Blocks) /\ Len(Patch(f, n, b)) = Len(f)
         /\ Patch(f, n, b)[n] = b /\ \A i \in 1 .. Len(f) : i # n => Patch(f, n, b)[i] = f[i]
  <1> USE DEF Patch
  <1>1. Patch(f, n, b) \in Seq(Blocks) /\ Len(Patch(f, n, b)) = Len(f)
    BY ExceptSeq DEF Patch
  <1> QED
    BY <1>1, ExceptSeq

(* The type of a block.                                                     *)
LEMMA BlockIn ==
  ASSUME NEW tag \in {"skip", "vc"} \cup SectionTags, NEW len \in {0, 1}, NEW begin \in Nat,
         NEW end \in Nat, NEW data \in Nat
  PROVE  Block(tag, len, begin, end, data) \in Blocks
  BY DEF Block, Blocks

(* The header of the next section is appended.                              *)
LEMMA WriteHeader ==
  ASSUME NEW d \in Disk, NEW b \in Nat
  PROVE  OnlyFile(d, Write(d, Op("header", b)), Append(d.file, Block("skip", 0, b, b, 0)))
  <1>1. Write(d, Op("header", b)) = [d EXCEPT !.file = Append(d.file, Block("skip", 0, b, b, 0))]
    BY DEF Write, Op
  <1>2. Block("skip", 0, b, b, 0) \in Blocks /\ d.file \in Seq(Blocks)
    BY BlockIn DEF Disk
  <1>3. Append(d.file, Block("skip", 0, b, b, 0)) \in Seq(Blocks)
    BY <1>2, FileAppended
  <1> QED
    BY <1>1, <1>3, FileReplaced

(* So is a section of close.                                                *)
LEMMA WriteAppend ==
  ASSUME NEW d \in Disk, NEW tag, NEW len \in {0, 1}, NEW data \in Nat
  PROVE  OnlyFile(d, Write(d, Op("append", <<tag, len, data>>)),
                  Append(d.file, Block("skip", len, 0, 0, data)))
  <1>1. Write(d, Op("append", <<tag, len, data>>))
          = [d EXCEPT !.file = Append(d.file, Block("skip", len, 0, 0, data))]
    BY DEF Write, Op
  <1>2. Block("skip", len, 0, 0, data) \in Blocks /\ d.file \in Seq(Blocks)
    BY BlockIn DEF Disk
  <1>3. Append(d.file, Block("skip", len, 0, 0, data)) \in Seq(Blocks)
    BY <1>2, FileAppended
  <1> QED
    BY <1>1, <1>3, FileReplaced

(* The changes go into the last block.                                      *)
LEMMA WriteBody ==
  ASSUME NEW d \in Disk, NEW n \in Nat, d.file # <<>>
  PROVE  OnlyFile(d, Write(d, Op("body", n)),
                  Patch(d.file, Len(d.file), [d.file[Len(d.file)] EXCEPT !.data = n]))
  <1> DEFINE f == d.file
             b == [f[Len(f)] EXCEPT !.data = n]
  <1>1. f \in Seq(Blocks) /\ Len(f) \in 1 .. Len(f) /\ f[Len(f)] \in Blocks
    BY DEF Disk
  <1>2. b \in Blocks
    BY <1>1 DEF Blocks
  <1>3. Write(d, Op("body", n)) = [d EXCEPT !.file = Patch(f, Len(f), b)]
    BY DEF Write, Op, Patch, End
  <1> HIDE DEF b, f
  <1>4. Patch(f, Len(f), b) \in Seq(Blocks)
    BY <1>1, <1>2, FilePatched
  <1> QED
    BY <1>3, <1>4, FileReplaced DEF f, b

(* The last block gets its length and end.                                  *)
LEMMA WriteLength ==
  ASSUME NEW d \in Disk, NEW n, NEW cur \in Nat, d.file # <<>>, n = Len(d.file)
  PROVE  OnlyFile(d, Write(d, Op("length", <<n, cur>>)),
                  Patch(d.file, n, [[d.file[n] EXCEPT !.len = 1] EXCEPT !.end = cur]))
  <1> DEFINE f == d.file
             b == [[f[n] EXCEPT !.len = 1] EXCEPT !.end = cur]
  <1>1. f \in Seq(Blocks) /\ n \in 1 .. Len(f) /\ f[n] \in Blocks /\ n \in Nat
    BY DEF Disk
  <1>2. b \in Blocks
    BY <1>1 DEF Blocks
  <1>3. Len(f) + 1 - n = 1
    BY <1>1
  <1>4. Write(d, Op("length", <<n, cur>>))
          = [d EXCEPT !.file[n].len = Len(f) + 1 - n, !.file[n].end = cur]
    BY DEF Write, Op, End
  <1>5. [d EXCEPT !.file[n].len = 1, !.file[n].end = cur] = [d EXCEPT !.file = Patch(f, n, b)]
    <2> DEFINE g == [f EXCEPT ![n] = [f[n] EXCEPT !.len = 1]]
               e == [d EXCEPT !.file = g]
    <2>1. [d EXCEPT !.file[n].len = 1] = e
      BY DEF Disk
    <2>2. g \in Seq(Blocks) /\ g[n] = [f[n] EXCEPT !.len = 1] /\ [g EXCEPT ![n] = b] = [f EXCEPT ![n] = b]
      <3>1. [f[n] EXCEPT !.len = 1] \in Blocks
        BY <1>1 DEF Blocks
      <3> QED
        BY <1>1, <3>1
    <2>3. e.file = g
      BY DEF Disk
    <2> HIDE DEF g
    <2>4. [e EXCEPT !.file[n].end = cur] = [d EXCEPT !.file = [g EXCEPT ![n] = [g[n] EXCEPT !.end = cur]]]
      BY <2>3 DEF Disk
    <2> QED
      BY <2>1, <2>2, <2>4 DEF Patch
  <1> HIDE DEF b, f
  <1>6. Patch(f, n, b) \in Seq(Blocks)
    BY <1>1, <1>2, FilePatched
  <1> QED
    BY <1>3, <1>4, <1>5, <1>6, FileReplaced DEF f, b

(* A block becomes a section of changes.                                    *)
LEMMA WriteTag ==
  ASSUME NEW d \in Disk, NEW n \in 1 .. Len(d.file)
  PROVE  OnlyFile(d, Write(d, Op("tag", <<n, "vc">>)),
                  Patch(d.file, n, [d.file[n] EXCEPT !.tag = "vc"]))
  <1> DEFINE f == d.file
             b == [f[n] EXCEPT !.tag = "vc"]
  <1>1. f \in Seq(Blocks) /\ n \in 1 .. Len(f) /\ f[n] \in Blocks
    BY DEF Disk
  <1>2. b \in Blocks
    BY <1>1 DEF Blocks
  <1>3. Write(d, Op("tag", <<n, "vc">>)) = [d EXCEPT !.file = Patch(f, n, b)]
    BY DEF Write, Op, Patch
  <1> HIDE DEF b, f
  <1>4. Patch(f, n, b) \in Seq(Blocks)
    BY <1>1, <1>2, FilePatched
  <1> QED
    BY <1>3, <1>4, FileReplaced DEF f, b

(* The last block gets its length.                                          *)
LEMMA WriteLengthLast ==
  ASSUME NEW d \in Disk, d.file # <<>>, NEW tag
  PROVE  OnlyFile(d, Write(d, Op("length_last", tag)),
                  Patch(d.file, Len(d.file), [d.file[Len(d.file)] EXCEPT !.len = 1]))
  <1> DEFINE f == d.file
             b == [f[Len(f)] EXCEPT !.len = 1]
  <1>1. f \in Seq(Blocks) /\ Len(f) \in 1 .. Len(f) /\ f[Len(f)] \in Blocks
    BY DEF Disk
  <1>2. b \in Blocks
    BY <1>1 DEF Blocks
  <1>3. Write(d, Op("length_last", tag)) = [d EXCEPT !.file = Patch(f, Len(f), b)]
    BY DEF Write, Op, Patch, End
  <1> HIDE DEF b, f
  <1>4. Patch(f, Len(f), b) \in Seq(Blocks)
    BY <1>1, <1>2, FilePatched
  <1> QED
    BY <1>3, <1>4, FileReplaced DEF f, b

(* The last block gets its tag.                                             *)
LEMMA WriteTagLast ==
  ASSUME NEW d \in Disk, d.file # <<>>, NEW tag \in SectionTags
  PROVE  OnlyFile(d, Write(d, Op("tag_last", tag)),
                  Patch(d.file, Len(d.file), [d.file[Len(d.file)] EXCEPT !.tag = tag]))
  <1> DEFINE f == d.file
             b == [f[Len(f)] EXCEPT !.tag = tag]
  <1>1. f \in Seq(Blocks) /\ Len(f) \in 1 .. Len(f) /\ f[Len(f)] \in Blocks
    BY DEF Disk
  <1>2. b \in Blocks
    BY <1>1 DEF Blocks
  <1>3. Write(d, Op("tag_last", tag)) = [d EXCEPT !.file = Patch(f, Len(f), b)]
    BY DEF Write, Op, Patch, End
  <1> HIDE DEF b, f
  <1>4. Patch(f, Len(f), b) \in Seq(Blocks)
    BY <1>1, <1>2, FilePatched
  <1> QED
    BY <1>3, <1>4, FileReplaced DEF f, b

(* The file is cut off.                                                     *)
LEMMA WriteTruncate ==
  ASSUME NEW d \in Disk, NEW n \in 0 .. Len(d.file)
  PROVE  OnlyFile(d, Write(d, Op("truncate", n)), SubSeq(d.file, 1, n))
  <1>1. Write(d, Op("truncate", n)) = [d EXCEPT !.file = SubSeq(d.file, 1, n)]
    BY DEF Write, Op
  <1>2. d.file \in Seq(Blocks)
    BY DEF Disk
  <1>3. SubSeq(d.file, 1, n) \in Seq(Blocks)
    <2> HIDE DEF Blocks
    <2> QED
      BY <1>2
  <1> QED
    BY <1>1, <1>3, FileReplaced

(* Two operations do nothing to the disk.                                   *)
LEMMA WriteOther ==
  ASSUME NEW d, NEW arg
  PROVE  Write(d, Op("section_header_truncpos", arg)) = d /\ Write(d, Op("closed", arg)) = d
  BY DEF Write, Op

(* ... and those that leave the file alone.                                 *)
SameFile(d, e) == e \in Disk /\ e.file = d.file
(* The header of the file.                                                  *)
LEMMA WriteTimes ==
  ASSUME NEW d \in Disk, NEW a \in Nat, NEW b \in Nat
  PROVE  LET e == Write(d, Op("times", <<a, b>>)) IN
           /\ SameFile(d, e) /\ e.start = a /\ e.end = b /\ e.hier = d.hier /\ e.cut = d.cut
           /\ e.hier_exists = d.hier_exists /\ e.packed = d.packed /\ e.padded = d.padded
           /\ e.named = d.named /\ e.pak = d.pak
  BY DEF Write, Op, Disk, SameFile

(* All of the hierarchy reaches its file.                                   *)
LEMMA WriteFlushHier ==
  ASSUME NEW d \in Disk, NEW h \in Seq(Records)
  PROVE  LET e == Write(d, Op("flush_hier", h)) IN
           /\ SameFile(d, e) /\ e.start = d.start /\ e.end = d.end /\ e.hier = h /\ e.cut = FALSE
           /\ e.hier_exists = d.hier_exists /\ e.packed = d.packed /\ e.padded = d.padded
           /\ e.named = d.named /\ e.pak = d.pak
  BY DEF Write, Op, Disk, SameFile

(* The hierarchy is copied into the section.                                *)
LEMMA WritePack ==
  ASSUME NEW d \in Disk, NEW n \in Nat
  PROVE  LET e == Write(d, Op("pack", n)) IN
           /\ SameFile(d, e) /\ e.start = d.start /\ e.end = d.end /\ e.hier = d.hier /\ e.cut = d.cut
           /\ e.hier_exists = d.hier_exists /\ e.packed = d.hier /\ (e.padded <=> Len(d.hier) < n)
           /\ e.named = d.named /\ e.pak = d.pak
  <1>0. Len(d.hier) \in Nat
    BY DEF Disk
  <1>1. PICK m \in BOOLEAN : m <=> Len(d.hier) < n
    <2>1. CASE Len(d.hier) < n
      <3>1. TRUE <=> Len(d.hier) < n
        BY <2>1
      <3> QED
        BY <3>1
    <2>2. CASE ~(Len(d.hier) < n)
      <3>1. FALSE <=> Len(d.hier) < n
        BY <2>2
      <3> QED
        BY <3>1
    <2> QED
      BY <2>1, <2>2
  <1>2. Write(d, Op("pack", n)) = [d EXCEPT !.packed = d.hier, !.padded = m]
    <2>1. m = (Len(d.hier) < n)
      BY <1>1
    <2> QED
      BY <2>1 DEF Write, Op
  <1> QED
    BY <1>1, <1>2 DEF Disk, SameFile

(* The .hier file is removed.                                               *)
LEMMA WriteUnlinkHier ==
  ASSUME NEW d \in Disk, NEW n
  PROVE  LET e == Write(d, Op("unlink_hier", n)) IN
           /\ SameFile(d, e) /\ e.start = d.start /\ e.end = d.end /\ e.hier = d.hier /\ e.cut = d.cut
           /\ e.hier_exists = FALSE /\ e.packed = d.packed /\ e.padded = d.padded
           /\ e.named = d.named /\ e.pak = d.pak
  BY DEF Write, Op, Disk, SameFile

(* Repacking, as far as the file's names go.                                *)
LEMMA WriteNames ==
  ASSUME NEW d \in Disk, NEW w \in {Op("pak", "begun"), Op("pak", "done"), Op("unlink", ""), Op("rename", "")}
  PROVE  LET e == Write(d, w) IN
           /\ SameFile(d, e) /\ e.start = d.start /\ e.end = d.end /\ e.hier = d.hier /\ e.cut = d.cut
           /\ e.hier_exists = d.hier_exists /\ e.packed = d.packed /\ e.padded = d.padded
           /\ (w.op = "pak" => e.named = d.named /\ e.pak = w.arg)
           /\ (w.op = "unlink" => e.named = FALSE /\ e.pak = d.pak)
           /\ (w.op = "rename" => e.named = TRUE /\ e.pak = "none")
  <1>1. CASE w = Op("pak", "begun")
    BY <1>1 DEF Write, Op, Disk, SameFile
  <1>2. CASE w = Op("pak", "done")
    BY <1>2 DEF Write, Op, Disk, SameFile
  <1>3. CASE w = Op("unlink", "")
    BY <1>3 DEF Write, Op, Disk, SameFile
  <1>4. CASE w = Op("rename", "")
    BY <1>4 DEF Write, Op, Disk, SameFile
  <1> QED
    BY <1>1, <1>2, <1>3, <1>4

(* The context hears of a new section header, of the truncation point and   *)
(* of being closed.                                                         *)
SameCtx(c, k) ==
  /\ k \in Ctx /\ k.hier = c.hier /\ k.mapped = c.mapped /\ k.vc_emitted = c.vc_emitted
  /\ k.is_initial_time = c.is_initial_time /\ k.firsttime = c.firsttime /\ k.curtime = c.curtime
  /\ k.changed = c.changed /\ k.secnum = c.secnum /\ k.blackouts = c.blackouts
  /\ k.already_in_close = c.already_in_close
(* The next section starts at the end.                                      *)
LEMMA NoteHeader ==
  ASSUME NEW c \in Ctx, NEW d \in Disk, NEW b, NEW own \in BOOLEAN
  PROVE  LET k == Note(c, d, Op("header", b), own) IN
           /\ SameCtx(c, k) /\ k.section_start = Len(d.file) /\ k.closed = c.closed
           /\ k.section_header_truncpos = c.section_header_truncpos
           /\ k.section_header_only = (own \/ c.section_header_only)
  <1>1. Len(d.file) \in Nat
    BY DEF Disk
  <1>2. PICK m : m = (own \/ c.section_header_only)
    OBVIOUS
  <1>3. m \in BOOLEAN
    BY <1>2 DEF Ctx
  <1>4. Note(c, d, Op("header", b), own)
          = [c EXCEPT !.section_start = Len(d.file), !.section_header_only = m]
    BY <1>2 DEF Note, Op, End
  <1> QED
    BY <1>1, <1>2, <1>3, <1>4 DEF Ctx, SameCtx

(* The truncation point moves to the end.                                   *)
LEMMA NoteTruncpos ==
  ASSUME NEW c \in Ctx, NEW d \in Disk, NEW n, NEW own
  PROVE  LET k == Note(c, d, Op("section_header_truncpos", n), own) IN
           /\ SameCtx(c, k) /\ k.section_start = c.section_start /\ k.closed = c.closed
           /\ k.section_header_truncpos = Len(d.file) /\ k.section_header_only = c.section_header_only
  <1>1. Len(d.file) \in Nat
    BY DEF Disk
  <1> QED
    BY <1>1 DEF Note, Op, End, Ctx, SameCtx

(* The context is given back.                                               *)
LEMMA NoteClosed ==
  ASSUME NEW c \in Ctx, NEW d, NEW n, NEW own
  PROVE  LET k == Note(c, d, Op("closed", n), own) IN
           /\ SameCtx(c, k) /\ k.section_start = c.section_start /\ k.closed
           /\ k.section_header_truncpos = c.section_header_truncpos
           /\ k.section_header_only = c.section_header_only
  BY DEF Note, Op, Ctx, SameCtx

----------------------------------------------------------------------------
(* The sections of the file.                                                *)

(* Sections stay sections where the file does not change, while time passes.*)
Agree(f, g, m) == m <= Len(g) /\ \A i \in 1 .. m : g[i] = f[i]
(* Sections are what the blocks and the first time say.                     *)
LEMMA SectionsKept ==
  ASSUME NEW c \in Ctx, NEW k \in Ctx, k.firsttime = c.firsttime, c.curtime <= k.curtime,
         NEW f \in Seq(Blocks), NEW g \in Seq(Blocks), NEW m \in Nat, Sections(c, f, m), Agree(f, g, m)
  PROVE  Sections(k, g, m) /\ Upto(k, g, m) = Upto(c, f, m)
  <1>1. m <= Len(g) /\ \A i \in 1 .. m : g[i] = f[i]
    BY DEF Agree
  <1>2. m <= Len(f) /\ \A i \in 1 .. m : Section(c, f, i)
    BY DEF Sections
  <1>3. \A i \in 0 .. m : Upto(k, g, i) = Upto(c, f, i)
    BY <1>1 DEF Upto
  <1>4. ASSUME NEW i \in 1 .. m PROVE Section(k, g, i)
    <2>1. g[i] = f[i] /\ Section(c, f, i) /\ i - 1 \in 0 .. m
      BY <1>1, <1>2
    <2>2. Upto(k, g, i - 1) = Upto(c, f, i - 1)
      BY <1>3, <2>1
    <2>3. f[i] \in Blocks
      <3>1. i \in 1 .. Len(f)
        BY <1>2
      <3> QED
        BY <3>1
    <2>4. f[i].end \in Nat /\ c.curtime \in Nat /\ k.curtime \in Nat
      BY <2>3 DEF Blocks, Ctx
    <2> QED
      BY <2>1, <2>2, <2>4 DEF Section
  <1> QED
    BY <1>1, <1>3, <1>4 DEF Sections

(* The next section begins no later than the present.                       *)
LEMMA SectionsUpto ==
  ASSUME NEW c \in Ctx, NEW f \in Seq(Blocks), NEW m \in Nat, Sections(c, f, m), CtxInv(c)
  PROVE  Upto(c, f, m) \in 0 .. c.curtime
  <1>1. CASE m = 0
    BY <1>1 DEF Upto, CtxInv, Ctx
  <1>2. CASE m # 0
    <2>1. m \in 1 .. m /\ m \in 1 .. Len(f)
      BY <1>2 DEF Sections
    <2>2. Section(c, f, m) /\ f[m] \in Blocks
      BY <2>1 DEF Sections
    <2> QED
      BY <1>2, <2>2 DEF Section, Upto, Blocks, Ctx
  <1> QED
    BY <1>1, <1>2

(* Fewer sections are sections.                                             *)
LEMMA SectionsFewer ==
  ASSUME NEW c \in Ctx, NEW f \in Seq(Blocks), NEW m \in Nat, NEW n \in 0 .. m, Sections(c, f, m)
  PROVE  Sections(c, f, n)
  BY DEF Sections

(* The header of a section, at the end of the file.                         *)
LEMMA HeaderBegins ==
  ASSUME NEW c \in Ctx, NEW f \in Seq(Blocks), NEW m \in Nat, Len(f) = m, Sections(c, f, m),
         NEW cur \in Nat, cur = Upto(c, f, m)
  PROVE  Begun(c, Append(f, Block("skip", 0, cur, cur, 0)), m, 0)
  <1> DEFINE b == Block("skip", 0, cur, cur, 0)
             g == Append(f, b)
  <1>1. b \in Blocks
    BY BlockIn
  <1> HIDE DEF b
  <1>2. g \in Seq(Blocks) /\ Len(g) = m + 1 /\ g[m + 1] = b /\ \A i \in 1 .. m : g[i] = f[i]
    BY <1>1, FileAppended
  <1> HIDE DEF g
  <1>3. Agree(f, g, m)
    BY <1>2 DEF Agree
  <1>4. c.firsttime = c.firsttime /\ c.curtime <= c.curtime
    BY DEF Ctx
  <1>5. Sections(c, g, m) /\ Upto(c, g, m) = Upto(c, f, m)
    BY <1>3, <1>2, <1>4, SectionsKept
  <1>6. Begun(c, g, m, 0)
    BY <1>2, <1>5 DEF Begun, b
  <1> QED
    BY <1>6 DEF g, b

(* Its last block is patched: by what, and what stays.                      *)
LastPatched(f, g, b) ==
  /\ g \in Seq(Blocks) /\ Len(g) = Len(f) /\ g[Len(f)] = b /\ \A i \in 1 .. Len(f) - 1 : g[i] = f[i]
(* Patching the last block does that.                                       *)
LEMMA PatchLast ==
  ASSUME NEW f \in Seq(Blocks), f # <<>>, NEW b \in Blocks
  PROVE  LastPatched(f, Patch(f, Len(f), b), b)
  <1>1. Len(f) \in 1 .. Len(f)
    OBVIOUS
  <1> DEFINE n == Len(f)
  <1>2. n \in 1 .. Len(f) /\ n = Len(f)
    BY <1>1
  <1> HIDE DEF n
  <1>3. /\ Patch(f, n, b) \in Seq(Blocks) /\ Len(Patch(f, n, b)) = Len(f)
        /\ Patch(f, n, b)[n] = b /\ \A i \in 1 .. Len(f) : i # n => Patch(f, n, b)[i] = f[i]
    BY <1>2, FilePatched, Zenon
  <1> QED
    BY <1>2, <1>3 DEF LastPatched

(* Replacing the last block leaves the sections before it.                  *)
LEMMA LastSections ==
  ASSUME NEW c \in Ctx, NEW f \in Seq(Blocks), NEW g, NEW b, NEW n \in Nat \ {0}, Len(f) = n,
         Sections(c, f, n - 1), LastPatched(f, g, b)
  PROVE  Sections(c, g, n - 1) /\ Upto(c, g, n - 1) = Upto(c, f, n - 1) /\ Len(g) = n /\ g[n] = b
  <1>1. Agree(f, g, n - 1) /\ g \in Seq(Blocks) /\ Len(g) = n /\ g[n] = b
    BY DEF Agree, LastPatched
  <1>2. c.firsttime = c.firsttime /\ c.curtime <= c.curtime /\ n - 1 \in Nat
    BY DEF Ctx
  <1> QED
    BY <1>1, <1>2, SectionsKept

(* The changes are written.                                                 *)
LEMMA BodyWritten ==
  ASSUME NEW c \in Ctx, NEW f \in Seq(Blocks), NEW n \in Nat \ {0}, Begun(c, f, n - 1, 0)
  PROVE  Begun(c, Patch(f, Len(f), [f[Len(f)] EXCEPT !.data = n]), n - 1, n)
  <1> DEFINE u == Upto(c, f, n - 1)
             b == [f[Len(f)] EXCEPT !.data = n]
  <1>1. Len(f) = n /\ Sections(c, f, n - 1) /\ f[n] = Block("skip", 0, u, u, 0) /\ f[n] \in Blocks
    BY DEF Begun
  <1>2. b = Block("skip", 0, u, u, n)
    BY <1>1 DEF Block
  <1>3. b \in Blocks /\ f # <<>>
    BY <1>1 DEF Blocks
  <1> HIDE DEF b, u
  <1>4. LastPatched(f, Patch(f, Len(f), b), b)
    BY <1>3, PatchLast
  <1> DEFINE g == Patch(f, Len(f), b)
  <1> HIDE DEF g
  <1>5. Sections(c, g, n - 1) /\ Upto(c, g, n - 1) = Upto(c, f, n - 1) /\ Len(g) = n /\ g[n] = b
    BY <1>1, <1>4, LastSections DEF g
  <1>6. Begun(c, g, n - 1, n)
    BY <1>2, <1>5 DEF Begun, u
  <1> QED
    BY <1>6 DEF g, b

(* The last block is measured.                                              *)
LEMMA LengthWritten ==
  ASSUME NEW c \in Ctx, NEW f \in Seq(Blocks), NEW n \in Nat \ {0}, NEW cur \in Nat, Begun(c, f, n - 1, n)
  PROVE  LET g == Patch(f, n, [[f[n] EXCEPT !.len = 1] EXCEPT !.end = cur]) IN
           Sized(c, g, n, cur) /\ Upto(c, g, n - 1) = Upto(c, f, n - 1)
  <1> DEFINE u == Upto(c, f, n - 1)
             b == [[f[n] EXCEPT !.len = 1] EXCEPT !.end = cur]
  <1>1. Len(f) = n /\ Sections(c, f, n - 1) /\ f[n] = Block("skip", 0, u, u, n) /\ f[n] \in Blocks
    BY DEF Begun
  <1>2. b = Block("skip", 1, u, cur, n)
    <2> DEFINE a == [f[n] EXCEPT !.len = 1]
    <2>1. a = Block("skip", 1, u, u, n)
      BY <1>1 DEF Block
    <2>2. b = [a EXCEPT !.end = cur]
      OBVIOUS
    <2> HIDE DEF a, b
    <2> QED
      BY <2>1, <2>2 DEF Block
  <1>3. b \in Blocks /\ f # <<>>
    BY <1>1 DEF Blocks
  <1> HIDE DEF b, u
  <1>4. LastPatched(f, Patch(f, n, b), b)
    BY <1>1, <1>3, PatchLast
  <1> DEFINE g == Patch(f, n, b)
  <1> HIDE DEF g
  <1>5. Sections(c, g, n - 1) /\ Upto(c, g, n - 1) = Upto(c, f, n - 1) /\ Len(g) = n /\ g[n] = b
    BY <1>1, <1>4, LastSections DEF g
  <1> QED
    BY <1>2, <1>5 DEF g, b, u, Sized

(* The last block is replaced.                                              *)
LEMMA LastPatch ==
  ASSUME NEW c \in Ctx, NEW f \in Seq(Blocks), NEW n \in Nat \ {0}, Len(f) = n,
         Sections(c, f, n - 1), NEW b \in Blocks
  PROVE  LET g == Patch(f, n, b) IN
           Sections(c, g, n - 1) /\ Upto(c, g, n - 1) = Upto(c, f, n - 1) /\ Len(g) = n /\ g[n] = b
  <1>1. LastPatched(f, Patch(f, n, b), b)
    BY PatchLast
  <1> DEFINE g == Patch(f, n, b)
  <1> HIDE DEF g
  <1>2. Sections(c, g, n - 1) /\ Upto(c, g, n - 1) = Upto(c, f, n - 1) /\ Len(g) = n /\ g[n] = b
    BY <1>1, LastSections DEF g
  <1> QED
    BY <1>2 DEF g

(* The last block is tagged and complete.                                   *)
LEMMA TagWritten ==
  ASSUME NEW c \in Ctx, NEW f \in Seq(Blocks), NEW n \in Nat \ {0}, NEW cur \in 0 .. c.curtime,
         Sized(c, f, n, cur)
  PROVE  LET g == Patch(f, n, [f[n] EXCEPT !.tag = "vc"]) IN
           Complete(c, g, n, cur) /\ Upto(c, g, n - 1) = Upto(c, f, n - 1)
  <1> DEFINE u == Upto(c, f, n - 1)
             b == [f[n] EXCEPT !.tag = "vc"]
  <1>1. /\ Len(f) = n /\ Sections(c, f, n - 1)
        /\ f[n] = Block("skip", 1, u, cur, n) /\ f[n] \in Blocks
    BY DEF Sized
  <1>2. b.tag = "vc" /\ b.len = 1 /\ b.begin = u /\ b.end = cur /\ b.data = n
    BY <1>1 DEF Block
  <1>3. b \in Blocks /\ f # <<>>
    BY <1>1 DEF Blocks
  <1> HIDE DEF b, u
  <1> DEFINE g == Patch(f, n, b)
  <1>4. n \in Nat \ {0} /\ Len(f) = n /\ Sections(c, f, n - 1)
    BY <1>1
  <1>5. Sections(c, g, n - 1) /\ Upto(c, g, n - 1) = Upto(c, f, n - 1) /\ Len(g) = n /\ g[n] = b
    BY <1>3, <1>4, LastPatch
  <1> HIDE DEF g
  <1>6. Section(c, g, n)
    BY <1>2, <1>5 DEF Section, u
  <1>7. Sections(c, g, n)
    BY <1>5, <1>6 DEF Sections
  <1> QED
    BY <1>2, <1>5, <1>7 DEF g, b, Complete

(* What close has appended stays where the file does not change.            *)
LEMMA AppendedKept ==
  ASSUME NEW c \in Ctx, NEW f \in Seq(Blocks), NEW g \in Seq(Blocks), NEW m \in Nat, NEW tags,
         Appended(c, f, m, tags), Agree(f, g, m)
  PROVE  Appended(c, g, m, tags)
  <1>1. m <= Len(g) /\ \A i \in 1 .. m : g[i] = f[i]
    BY DEF Agree
  <1>2. CASE c.secnum = 0
    <2>1. m >= 1 /\ f[1].len = 0
      BY <1>2 DEF Appended
    <2>2. g[1] = f[1]
      BY <1>1, <2>1
    <2> QED
      BY <1>1, <1>2, <2>1, <2>2 DEF Appended
  <1>3. CASE c.secnum # 0
    <2>1. /\ c.secnum <= m /\ Sections(c, f, c.secnum)
          /\ \A i \in c.secnum + 1 .. m : f[i].len = 1 /\ f[i].tag # "vc"
          /\ \A tag \in tags : Once(c, f, m, tag)
          /\ \A tag \in SectionTags \ tags : None(f, m, tag)
      BY <1>3 DEF Appended
    <2>2. c.secnum \in Nat /\ c.firsttime = c.firsttime /\ c.curtime <= c.curtime
      BY DEF Ctx
    <2>3. Agree(f, g, c.secnum)
      BY <1>1, <2>1, <2>2 DEF Agree
    <2>4. Sections(c, g, c.secnum)
      BY <2>1, <2>2, <2>3, SectionsKept
    <2>5. \A i \in c.secnum + 1 .. m : i \in 1 .. m
      BY <2>2
    <2>6. \A i \in c.secnum + 1 .. m : g[i].len = 1 /\ g[i].tag # "vc"
      BY <1>1, <2>1, <2>5
    <2>7. ASSUME NEW tag \in tags PROVE Once(c, g, m, tag)
      <3>1. Once(c, f, m, tag)
        BY <2>1
      <3> QED
        BY <1>1, <3>1 DEF Once
    <2>8. ASSUME NEW tag \in SectionTags \ tags PROVE None(g, m, tag)
      <3>1. None(f, m, tag)
        BY <2>1
      <3> QED
        BY <1>1, <3>1 DEF None
    <2> QED
      BY <1>1, <1>3, <2>1, <2>4, <2>6, <2>7, <2>8 DEF Appended
  <1> QED
    BY <1>2, <1>3

(* A block is appended, ...                                                 *)
LEMMA WholeGrows ==
  ASSUME NEW c \in Ctx, NEW f \in Seq(Blocks), NEW tags, NEW len \in {0, 1}, NEW data \in Nat, Whole(c, f, tags)
  PROVE  Growing(c, Append(f, Block("skip", len, 0, 0, data)), tags, len, data)
  <1> DEFINE b == Block("skip", len, 0, 0, data)
             g == Append(f, b)
             m == Len(f)
  <1>1. b \in Blocks
    BY BlockIn
  <1> HIDE DEF b
  <1>2. g \in Seq(Blocks) /\ Len(g) = m + 1 /\ g[m + 1] = b /\ \A i \in 1 .. m : g[i] = f[i]
    BY <1>1, FileAppended
  <1>3. m \in Nat /\ Appended(c, f, m, tags)
    BY DEF Whole
  <1> HIDE DEF g, m
  <1>4. Agree(f, g, m)
    BY <1>2, <1>3 DEF Agree
  <1>5. Appended(c, g, m, tags)
    BY <1>2, <1>3, <1>4, AppendedKept
  <1>6. Len(g) > 0 /\ Len(g) - 1 = m
    BY <1>2, <1>3
  <1>7. Growing(c, g, tags, len, data)
    BY <1>2, <1>5, <1>6 DEF Growing, b
  <1> QED
    BY <1>7 DEF g, b

(* ... measured ...                                                         *)
LEMMA LastAppended ==
  ASSUME NEW c \in Ctx, NEW f \in Seq(Blocks), NEW g, NEW b, NEW tags, Len(f) > 0,
         Appended(c, f, Len(f) - 1, tags), LastPatched(f, g, b)
  PROVE  /\ g \in Seq(Blocks) /\ Len(g) = Len(f) /\ g[Len(g)] = b /\ Len(f) \in Nat
         /\ Appended(c, g, Len(g) - 1, tags)
  <1>1. /\ g \in Seq(Blocks) /\ Len(g) = Len(f) /\ g[Len(g)] = b /\ Len(f) \in Nat
        /\ \A i \in 1 .. Len(f) - 1 : g[i] = f[i]
    BY DEF LastPatched
  <1> DEFINE m == Len(f) - 1
  <1>2. m \in Nat /\ m = Len(g) - 1 /\ m <= Len(g) /\ Appended(c, f, m, tags)
    BY <1>1
  <1>3. \A i \in 1 .. m : g[i] = f[i]
    BY <1>1
  <1> HIDE DEF m
  <1>4. Agree(f, g, m)
    BY <1>2, <1>3 DEF Agree
  <1>5. Appended(c, g, m, tags)
    BY <1>1, <1>2, <1>4, AppendedKept
  <1> QED
    BY <1>1, <1>2, <1>5

(* The block that close appends is measured.                                *)
LEMMA GrowingMeasured ==
  ASSUME NEW c \in Ctx, NEW f \in Seq(Blocks), NEW tags, NEW data \in Nat, Growing(c, f, tags, 0, data)
  PROVE  Growing(c, Patch(f, Len(f), [f[Len(f)] EXCEPT !.len = 1]), tags, 1, data)
  <1> DEFINE b == [f[Len(f)] EXCEPT !.len = 1]
  <1>1. /\ f # <<>> /\ Len(f) > 0 /\ Appended(c, f, Len(f) - 1, tags)
        /\ f[Len(f)] = Block("skip", 0, 0, 0, data)
    BY DEF Growing
  <1>2. b = Block("skip", 1, 0, 0, data)
    BY <1>1 DEF Block
  <1>3. b \in Blocks
    <2>1. Block("skip", 1, 0, 0, data) \in Blocks
      BY BlockIn
    <2> QED
      BY <1>2, <2>1
  <1> HIDE DEF b
  <1>4. LastPatched(f, Patch(f, Len(f), b), b)
    BY <1>1, <1>3, PatchLast
  <1> DEFINE g == Patch(f, Len(f), b)
  <1> HIDE DEF g
  <1>5. Len(g) = Len(f) /\ g[Len(g)] = b /\ Appended(c, g, Len(g) - 1, tags)
    BY <1>1, <1>4, LastAppended DEF g
  <1>6. Growing(c, g, tags, 1, data)
    BY <1>1, <1>2, <1>5 DEF Growing
  <1> QED
    BY <1>6 DEF g, b

(* ... and tagged.                                                          *)
LEMMA GrowingTagged ==
  ASSUME NEW c \in Ctx, NEW f \in Seq(Blocks), NEW tag \in SectionTags, NEW tags \in SUBSET SectionTags,
         tag \notin tags, Growing(c, f, tags, 1, Val(c, tag))
  PROVE  Whole(c, Patch(f, Len(f), [f[Len(f)] EXCEPT !.tag = tag]), tags \cup {tag})
  <1> DEFINE b == [f[Len(f)] EXCEPT !.tag = tag]
  <1>1. /\ f # <<>> /\ Len(f) > 0 /\ Appended(c, f, Len(f) - 1, tags)
        /\ f[Len(f)] = Block("skip", 1, 0, 0, Val(c, tag)) /\ f[Len(f)] \in Blocks
    <2>1. /\ Len(f) > 0 /\ Appended(c, f, Len(f) - 1, tags)
          /\ f[Len(f)] = Block("skip", 1, 0, 0, Val(c, tag))
      BY DEF Growing
    <2>2. f # <<>> /\ Len(f) \in 1 .. Len(f)
      BY <2>1
    <2> QED
      BY <2>1, <2>2
  <1>2. b \in Blocks /\ b.len = 1 /\ b.tag = tag /\ b.data = Val(c, tag)
    <2>1. b \in Blocks
      BY <1>1 DEF Blocks
    <2>2. f[Len(f)].len = 1 /\ f[Len(f)].data = Val(c, tag)
      BY <1>1 DEF Block
    <2>3. b.len = f[Len(f)].len /\ b.data = f[Len(f)].data /\ b.tag = tag
      BY <1>1 DEF Blocks
    <2> QED
      BY <2>1, <2>2, <2>3
  <1> HIDE DEF b
  <1>4. LastPatched(f, Patch(f, Len(f), b), b)
    BY <1>1, <1>2, PatchLast
  <1> DEFINE g == Patch(f, Len(f), b)
             n == Len(g)
  <1> HIDE DEF g
  <1>5. /\ g \in Seq(Blocks) /\ Len(g) = Len(f) /\ g[n] = b /\ Len(f) \in Nat
        /\ Appended(c, g, n - 1, tags)
    BY <1>1, <1>4, LastAppended DEF g
  <1>6. n \in Nat /\ n > 0 /\ \A i \in 1 .. n : i = n \/ i \in 1 .. n - 1
    BY <1>1, <1>5
  <1> HIDE DEF n
  <1>7. ASSUME c.secnum = 0 PROVE Whole(c, g, tags \cup {tag})
    BY <1>5, <1>6, <1>7 DEF Appended, Whole, n
  <1>8. ASSUME c.secnum # 0 PROVE Whole(c, g, tags \cup {tag})
    <2>1. /\ c.secnum <= n - 1 /\ Sections(c, g, c.secnum)
          /\ \A i \in c.secnum + 1 .. n - 1 : g[i].len = 1 /\ g[i].tag # "vc"
          /\ \A t \in tags : Once(c, g, n - 1, t)
          /\ \A t \in SectionTags \ tags : None(g, n - 1, t)
      BY <1>5, <1>8 DEF Appended
    <2>2. c.secnum \in Nat
      BY DEF Ctx
    <2>3. \A i \in c.secnum + 1 .. n : g[i].len = 1 /\ g[i].tag # "vc"
      <3> SUFFICES ASSUME NEW i \in c.secnum + 1 .. n PROVE g[i].len = 1 /\ g[i].tag # "vc"
        OBVIOUS
      <3>1. CASE i = n
        BY <1>2, <1>5, <3>1 DEF SectionTags
      <3>2. CASE i # n
        <4>1. i \in c.secnum + 1 .. n - 1
          BY <1>6, <2>2, <3>2
        <4> QED
          BY <2>1, <4>1
      <3> QED
        BY <3>1, <3>2
    <2>4. ASSUME NEW t \in tags PROVE Once(c, g, n, t)
      <3>1. t # tag /\ Once(c, g, n - 1, t)
        BY <2>1
      <3>2. PICK j \in 1 .. n - 1 : /\ g[j].tag = t /\ g[j].data = Val(c, t)
                                    /\ \A i \in 1 .. n - 1 : g[i].tag = t => i = j
        BY <3>1 DEF Once
      <3>3. \A i \in 1 .. n : g[i].tag = t => i = j
        BY <1>2, <1>5, <1>6, <3>1, <3>2
      <3>4. j \in 1 .. n
        BY <1>6
      <3> QED
        BY <3>2, <3>3, <3>4 DEF Once
    <2>5. Once(c, g, n, tag)
      <3>1. None(g, n - 1, tag)
        BY <2>1
      <3>2. \A i \in 1 .. n : g[i].tag = tag => i = n
        BY <1>6, <3>1 DEF None
      <3>3. n \in 1 .. n
        BY <1>6
      <3> QED
        BY <1>2, <1>5, <3>2, <3>3 DEF Once
    <2>6. ASSUME NEW t \in SectionTags \ (tags \cup {tag}) PROVE None(g, n, t)
      <3>1. None(g, n - 1, t) /\ t # tag
        BY <2>1
      <3> QED
        BY <1>2, <1>5, <1>6, <3>1 DEF None
    <2>7. \A t \in tags \cup {tag} : Once(c, g, n, t)
      BY <2>4, <2>5
    <2>8. c.secnum <= n
      BY <1>6, <2>1, <2>2
    <2>9. n = Len(g) /\ n <= Len(g)
      BY <1>6 DEF n
    <2>10. Appended(c, g, n, tags \cup {tag})
      BY <1>8, <2>1, <2>3, <2>6, <2>7, <2>8, <2>9 DEF Appended
    <2> QED
      BY <2>9, <2>10 DEF Whole
  <1>9. Whole(c, g, tags \cup {tag})
    BY <1>7, <1>8
  <1> QED
    BY <1>9 DEF g, b

(* Behind the sections close begins with nothing appended.                  *)
LEMMA SectionsAreWhole ==
  ASSUME NEW c \in Ctx, NEW f \in Seq(Blocks), Len(f) = c.secnum, c.secnum > 0, Sections(c, f, c.secnum)
  PROVE  Whole(c, f, {})
  <1>1. c.secnum \in Nat /\ c.secnum # 0 /\ c.secnum <= Len(f)
    BY DEF Ctx
  <1>2. \A i \in c.secnum + 1 .. Len(f) : FALSE
    BY <1>1
  <1>3. \A i \in 1 .. Len(f) : f[i].tag = "vc"
    BY DEF Sections, Section
  <1>4. \A tag \in SectionTags : None(f, Len(f), tag)
    BY <1>3 DEF None, SectionTags
  <1> QED
    BY <1>1, <1>2, <1>4 DEF Whole, Appended

(* Without a section, the open header.                                      *)
LEMMA OpenIsWhole ==
  ASSUME NEW c \in Ctx, NEW f \in Seq(Blocks), c.secnum = 0, NEW data, Begun(c, f, 0, data)
  PROVE  Whole(c, f, {})
  <1>1. Len(f) = 1 /\ f[1] = Block("skip", 0, Upto(c, f, 0), Upto(c, f, 0), data)
    BY DEF Begun
  <1>2. f[1].len = 0
    BY <1>1 DEF Block
  <1> QED
    BY <1>1, <1>2 DEF Whole, Appended

(* With the open header cut off.                                            *)
LEMMA TruncatedIsWhole ==
  ASSUME NEW c \in Ctx, NEW f \in Seq(Blocks), c.secnum > 0, NEW data, Begun(c, f, c.secnum, data)
  PROVE  Whole(c, SubSeq(f, 1, c.secnum), {}) /\ Len(SubSeq(f, 1, c.secnum)) = c.secnum
  <1> DEFINE n == c.secnum
             g == SubSeq(f, 1, n)
  <1>1. n \in Nat /\ Len(f) = n + 1 /\ Sections(c, f, n)
    BY DEF Begun, Ctx
  <1>2. g \in Seq(Blocks) /\ Len(g) = n /\ \A i \in 1 .. n : g[i] = f[i]
    <2> HIDE DEF Blocks
    <2> QED
      BY <1>1
  <1> HIDE DEF g
  <1>3. Agree(f, g, n)
    BY <1>1, <1>2 DEF Agree
  <1>4. c.firsttime = c.firsttime /\ c.curtime <= c.curtime
    BY DEF Ctx
  <1>5. Sections(c, g, n)
    BY <1>1, <1>2, <1>3, <1>4, SectionsKept
  <1>6. Whole(c, g, {})
    BY <1>2, <1>5, SectionsAreWhole
  <1> QED
    BY <1>2, <1>6 DEF g

----------------------------------------------------------------------------
(* Steps: close names the file.                                             *)

(* A context that is the same but for what Note changes.                    *)
LEMMA SameCtxSame ==
  ASSUME NEW c \in Ctx, NEW k, SameCtx(c, k), NEW md
  PROVE  /\ k \in Ctx /\ Handles(k) = Handles(c) /\ (CtxInv(c) => CtxInv(k))
         /\ \A f, m : Upto(k, f, m) = Upto(c, f, m)
         /\ \A f, m : Sections(c, f, m) => Sections(k, f, m)
         /\ \A f, m, data : Begun(c, f, m, data) => Begun(k, f, m, data)
         /\ \A f, tags : Whole(c, f, tags) => Whole(k, f, tags)
         /\ WithHier(md, k) = WithHier(md, c)
  <1>1. /\ k \in Ctx /\ k.hier = c.hier /\ k.mapped = c.mapped /\ k.vc_emitted = c.vc_emitted
        /\ k.is_initial_time = c.is_initial_time /\ k.firsttime = c.firsttime /\ k.curtime = c.curtime
        /\ k.changed = c.changed /\ k.secnum = c.secnum /\ k.blackouts = c.blackouts
        /\ k.already_in_close = c.already_in_close
    BY DEF SameCtx
  <1>2. Handles(k) = Handles(c)
    BY <1>1 DEF Handles
  <1>3. CtxInv(c) => CtxInv(k)
    BY <1>1, <1>2 DEF CtxInv
  <1>4. \A f, m : Upto(k, f, m) = Upto(c, f, m)
    BY <1>1 DEF Upto
  <1>5. \A f, i : Section(c, f, i) => Section(k, f, i)
    BY <1>1, <1>4 DEF Section
  <1>6. \A f, m : Sections(c, f, m) => Sections(k, f, m)
    BY <1>5 DEF Sections
  <1>7. \A f, m, data : Begun(c, f, m, data) => Begun(k, f, m, data)
    BY <1>4, <1>6 DEF Begun
  <1>8. \A f, m, tag : Once(c, f, m, tag) => Once(k, f, m, tag)
    BY <1>1, <1>2 DEF Once, Val
  <1>9. \A f, m, tags : Appended(c, f, m, tags) => Appended(k, f, m, tags)
    BY <1>1, <1>6, <1>8 DEF Appended
  <1>10. \A f, tags : Whole(c, f, tags) => Whole(k, f, tags)
    BY <1>9 DEF Whole
  <1>11. WithHier(md, k) = WithHier(md, c)
    BY <1>1, <1>2 DEF WithHier, WithBlackouts, WithGeom
  <1> QED
    BY <1>1, <1>2, <1>3, <1>4, <1>6, <1>7, <1>10, <1>11

(* The lists of operations depend on nothing that a note of it changes.     *)
LEMMA SameLists ==
  ASSUME NEW c \in Ctx, NEW k, SameCtx(c, k), NEW md
  PROVE  ToGeom(md, k) = ToGeom(md, c) /\ ToWait(md, k) = ToWait(md, c)
         /\ AfterFlush(md, k) = AfterFlush(md, c) /\ AfterHeader(md, k) = AfterHeader(md, c)
  <1>1. /\ k.hier = c.hier /\ k.is_initial_time = c.is_initial_time
        /\ k.firsttime = c.firsttime /\ k.curtime = c.curtime
        /\ k.secnum = c.secnum /\ k.blackouts = c.blackouts
        /\ k.already_in_close = c.already_in_close
    BY DEF SameCtx
  <1>2. Handles(k) = Handles(c)
    BY <1>1 DEF Handles
  <1>3. ToTimes(md, k) = ToTimes(md, c)
    BY <1>1 DEF ToTimes, ToFlushHier
  <1>4. ToHier(md, k) = ToHier(md, c)
    BY <1>1, <1>3 DEF ToHier, ToSpill, ToPack, ToMeasureHier, ToTagHier, ToUnlinkHier
  <1>5. ToGeom(md, k) = ToGeom(md, c)
    BY <1>1, <1>2, <1>4 DEF ToGeom, ToTagGeom, ToBlackouts, ToMeasureBlackouts, ToTagBlackouts
  <1>6. ToWait(md, k) = ToWait(md, c) /\ AfterFlush(md, k) = AfterFlush(md, c)
    BY <1>1, <1>5 DEF ToWait, AfterFlush
  <1>7. AfterHeader(md, k) = AfterHeader(md, c)
    BY <1>1, <1>5, <1>6 DEF AfterHeader, ToFlush
  <1> QED
    BY <1>5, <1>6, <1>7

(* The basic facts hold with a longer file,                                 *)
LEMMA BaseGrows ==
  ASSUME NEW c, NEW d, NEW e, NEW f, Base(c, d), OnlyFile(d, e, f), Len(f) >= Len(d.file)
  PROVE  Base(c, e)
  <1>1. f \in Seq(Blocks) /\ d.file \in Seq(Blocks) /\ e.file = f
    BY DEF Base, OnlyFile, Disk
  <1>2. Len(f) \in Nat /\ Len(d.file) \in Nat
    BY <1>1
  <1>3. c.section_start \in Nat /\ c.section_header_truncpos \in Nat
    BY DEF Base, Ctx
  <1> QED
    BY <1>1, <1>2, <1>3 DEF Base, OnlyFile, Places, Spilled

(* with another header,                                                     *)
LEMMA BaseSame ==
  ASSUME NEW c, NEW d, NEW e, Base(c, d), SameFile(d, e), e.hier = d.hier
  PROVE  Base(c, e)
  BY DEF Base, SameFile, Places, Spilled

(* and with all of the hierarchy flushed.                                   *)
LEMMA BaseFlushed ==
  ASSUME NEW c, NEW d, NEW e, Base(c, d), SameFile(d, e), e.hier = c.hier
  PROVE  Base(c, e)
  <1>1. c.hier \in Seq(Records)
    BY DEF Base, Ctx
  <1>2. SubSeq(c.hier, 1, Len(c.hier)) = c.hier /\ Len(c.hier) <= Len(c.hier)
    BY <1>1
  <1> QED
    BY <1>2 DEF Base, SameFile, Places, Spilled

(* The next operation of a call is done.                                    *)
After(md, c, t, p, d) ==
  LET w == Head(t)
      e == Write(d, w)
      k == Note(c, e, w, TRUE)
  IN Base(k, e) /\ Stage(md, k, Tail(t), p, e)
Noteless(op) == op \notin {"header", "section_header_truncpos", "closed"}
(* An operation of which the context takes no note.                         *)
LEMMA AfterWrite ==
  ASSUME NEW md, NEW c, NEW t, NEW p, NEW d, NEW op, NEW arg, NEW rest, IsList(rest),
         t = Then(op, arg, rest), Noteless(op),
         Base(c, Write(d, Op(op, arg))), Stage(md, c, rest, p, Write(d, Op(op, arg)))
  PROVE  After(md, c, t, p, d)
  <1>1. Head(t) = Op(op, arg) /\ Tail(t) = rest
    BY ThenList
  <1>2. Note(c, Write(d, Op(op, arg)), Op(op, arg), TRUE) = c
    BY DEF Note, Op, Noteless
  <1> QED
    BY <1>1, <1>2 DEF After
AfterAs(md, c, p, d, op, arg, rest) ==
  LET e == Write(d, Op(op, arg))
      k == Note(c, e, Op(op, arg), TRUE)
  IN Base(k, e) /\ Stage(md, k, rest, p, e)
(* The operation in front of a list, noted in the context or not.           *)
LEMMA AfterThen ==
  ASSUME NEW md, NEW c, NEW t, NEW p, NEW d, NEW op, NEW arg, NEW rest, IsList(rest),
         t = Then(op, arg, rest), AfterAs(md, c, p, d, op, arg, rest)
  PROVE  After(md, c, t, p, d)
  <1>1. Head(t) = Op(op, arg) /\ Tail(t) = rest
    BY ThenList
  <1> QED
    BY <1>1 DEF After, AfterAs

(* An operation that leaves the context as it is.                           *)
LEMMA WriteAs ==
  ASSUME NEW md, NEW c, NEW p, NEW d, NEW op, NEW arg, NEW rest, Noteless(op),
         NEW e, e = Write(d, Op(op, arg)), Base(c, e), Stage(md, c, rest, p, e)
  PROVE  AfterAs(md, c, p, d, op, arg, rest)
  <1>1. Note(c, e, Op(op, arg), TRUE) = c
    BY DEF Note, Op, Noteless
  <1> QED
    BY <1>1 DEF AfterAs

----------------------------------------------------------------------------
(* The end of close: times, hierarchy, names.                               *)
LEMMA EndingStep ==
  ASSUME NEW md, NEW c, NEW t, NEW p, NEW d, Base(c, d), Ending(md, c, t, p, d), t # <<>>
  PROVE  After(md, c, t, p, d)
  <1>0. /\ c \in Ctx /\ d \in Disk /\ c.firsttime \in Nat /\ c.curtime \in Nat /\ c.hier \in Seq(Records)
    BY DEF Base, Ctx
  <1>1. InClose(c, p, d) /\ HierKept(md, c, d) /\ Whole(c, d.file, WithHier(md, c))
    BY DEF Ending
  <1>2. /\ IsList(ToClosed) /\ IsList(ToRename) /\ IsList(ToUnlink) /\ IsList(ToPakDone)
        /\ IsList(ToRepack(md)) /\ IsList(ToFlushHier(md, c))
    BY CloseClean, CleanIsList
  <1>3. Noteless("times") /\ Noteless("flush_hier") /\ Noteless("pak") /\ Noteless("unlink")
        /\ Noteless("rename")
    BY DEF Noteless
  <1>4. ASSUME t = ToTimes(md, c), Unnamed(d), Intact(d), ~c.closed PROVE After(md, c, t, p, d)
    <2> DEFINE e == Write(d, Op("times", <<c.firsttime, c.curtime>>))
    <2>1. /\ SameFile(d, e) /\ e.start = c.firsttime /\ e.end = c.curtime /\ e.hier = d.hier /\ e.cut = d.cut
          /\ e.hier_exists = d.hier_exists /\ e.packed = d.packed /\ e.padded = d.padded
          /\ e.named = d.named /\ e.pak = d.pak
      BY <1>0, WriteTimes
    <2> HIDE DEF e
    <2>2. Base(c, e)
      BY <2>1, BaseSame
    <2>3. Ending(md, c, ToFlushHier(md, c), p, e)
      BY <1>1, <1>4, <2>1 DEF Ending, InClose, HierFlushed, HierKept, Packed, Timed, Intact, SameFile
    <2>4. AfterAs(md, c, p, d, "times", <<c.firsttime, c.curtime>>, ToFlushHier(md, c))
      BY <1>3, <2>2, <2>3, WriteAs DEF Stage, e
    <2> QED
      BY <1>2, <1>4, <2>4, AfterThen DEF ToTimes
  <1>5. ASSUME t = ToFlushHier(md, c), Timed(c, d), Intact(d), ~c.closed PROVE After(md, c, t, p, d)
    <2> DEFINE e == Write(d, Op("flush_hier", c.hier))
    <2>1. /\ SameFile(d, e) /\ e.start = d.start /\ e.end = d.end /\ e.hier = c.hier /\ e.cut = FALSE
          /\ e.hier_exists = d.hier_exists /\ e.packed = d.packed /\ e.padded = d.padded
          /\ e.named = d.named /\ e.pak = d.pak
      BY <1>0, WriteFlushHier
    <2> HIDE DEF e
    <2>2. Base(c, e)
      BY <2>1, BaseFlushed
    <2>3. Ending(md, c, ToRepack(md), p, e)
      BY <1>1, <1>5, <2>1 DEF Ending, InClose, HierFlushed, HierKept, Packed, Timed, Intact, SameFile
    <2>4. AfterAs(md, c, p, d, "flush_hier", c.hier, ToRepack(md))
      BY <1>3, <2>2, <2>3, WriteAs DEF Stage, e
    <2> QED
      BY <1>2, <1>5, <2>4, AfterThen DEF ToFlushHier
  <1>6. ASSUME NEW w \in {Op("pak", "begun"), Op("pak", "done"), Op("unlink", ""), Op("rename", "")}, NEW rest,
               Ending(md, c, rest, p, Write(d, w)), IsList(rest), t = Then(w.op, w.arg, rest)
        PROVE  After(md, c, t, p, d)
    <2> DEFINE e == Write(d, w)
    <2>1. SameFile(d, e) /\ e.hier = d.hier
      BY <1>0, WriteNames
    <2>2. w = Op(w.op, w.arg) /\ Noteless(w.op)
      <3>1. \A o, a : Op(Op(o, a).op, Op(o, a).arg) = Op(o, a) /\ Op(o, a).op = o
        BY DEF Op
      <3>2. PICK o, a : w = Op(o, a) /\ Noteless(o)
        BY <1>3, Zenon
      <3> QED
        BY <3>1, <3>2
    <2> HIDE DEF e
    <2>3. Base(c, e)
      BY <2>1, BaseSame
    <2>4. AfterAs(md, c, p, d, w.op, w.arg, rest)
      BY <1>6, <2>2, <2>3, WriteAs DEF Stage, e
    <2> QED
      BY <1>6, <2>4, AfterThen
  <1>7. ASSUME NEW w \in {Op("pak", "begun"), Op("pak", "done"), Op("unlink", ""), Op("rename", "")}
        PROVE  LET e == Write(d, w) IN
               /\ InClose(c, p, e) /\ HierKept(md, c, e) /\ Whole(c, e.file, WithHier(md, c))
               /\ Timed(c, d) => Timed(c, e)
               /\ (w.op = "pak" => e.named = d.named /\ e.pak = w.arg)
               /\ (w.op = "unlink" => e.named = FALSE /\ e.pak = d.pak)
               /\ (w.op = "rename" => e.named = TRUE /\ e.pak = "none")
    <2> DEFINE e == Write(d, w)
    <2>1. /\ SameFile(d, e) /\ e.start = d.start /\ e.end = d.end /\ e.hier = d.hier /\ e.cut = d.cut
          /\ e.hier_exists = d.hier_exists /\ e.packed = d.packed /\ e.padded = d.padded
          /\ (w.op = "pak" => e.named = d.named /\ e.pak = w.arg)
          /\ (w.op = "unlink" => e.named = FALSE /\ e.pak = d.pak)
          /\ (w.op = "rename" => e.named = TRUE /\ e.pak = "none")
      BY <1>0, WriteNames
    <2> HIDE DEF e
    <2>2. /\ InClose(c, p, e) /\ HierKept(md, c, e) /\ Whole(c, e.file, WithHier(md, c))
          /\ Timed(c, d) => Timed(c, e)
      BY <1>1, <2>1 DEF InClose, HierFlushed, HierKept, Packed, Timed, SameFile
    <2> QED
      BY <2>1, <2>2 DEF e
  <1>8. ASSUME t = ToClosed, Timed(c, d), Intact(d), ~c.closed PROVE After(md, c, t, p, d)
    <2>1. Write(d, Op("closed", "")) = d
      BY WriteOther
    <2> DEFINE k == Note(c, d, Op("closed", ""), TRUE)
    <2>2. /\ SameCtx(c, k) /\ k.section_start = c.section_start /\ k.closed
          /\ k.section_header_truncpos = c.section_header_truncpos
      BY <1>0 DEF Note, Op, Ctx, SameCtx
    <2> HIDE DEF k
    <2>3. /\ k \in Ctx /\ CtxInv(k) /\ Whole(k, d.file, WithHier(md, k))
      BY <1>0, <1>1, <2>2, SameCtxSame DEF Base
    <2>4. Base(k, d)
      BY <2>2, <2>3 DEF Base, Places, Spilled, SameCtx
    <2>5. Ending(md, k, <<>>, p, d)
      BY <1>1, <1>8, <2>2, <2>3 DEF Ending, InClose, HierFlushed, HierKept, Packed, Timed, SameCtx
    <2>6. AfterAs(md, c, p, d, "closed", "", <<>>)
      BY <2>1, <2>4, <2>5 DEF AfterAs, Stage, k
    <2> QED
      BY <1>8, <2>6, AfterThen, LastThen, EmptyClean, CleanIsList
  <1>9. ASSUME t = ToRepack(md), Timed(c, d), Intact(d), ~c.closed PROVE After(md, c, t, p, d)
    <2>1. CASE "repack" \in md
      <3> DEFINE w == Op("pak", "begun")
      <3>1. Ending(md, c, ToPakDone, p, Write(d, w))
        <4>1. w.op = "pak" /\ w.arg = "begun"
          BY DEF Op
        <4> QED
          BY <1>7, <1>9, <4>1 DEF Ending, Intact
      <3>2. t = Then(w.op, w.arg, ToPakDone)
        BY <1>9, <2>1 DEF ToRepack, Op
      <3> QED
        BY <1>2, <1>6, <3>1, <3>2
    <2>2. CASE "repack" \notin md
      BY <1>8, <1>9, <2>2 DEF ToRepack
    <2> QED
      BY <2>1, <2>2
  <1>10. ASSUME t = ToPakDone, Timed(c, d), d.named, d.pak = "begun", ~c.closed PROVE After(md, c, t, p, d)
    <2> DEFINE w == Op("pak", "done")
    <2>1. w.op = "pak" /\ w.arg = "done"
      BY DEF Op
    <2>2. Ending(md, c, ToUnlink, p, Write(d, w))
      BY <1>7, <1>10, <2>1 DEF Ending
    <2>3. t = Then(w.op, w.arg, ToUnlink)
      BY <1>10, <2>1 DEF ToPakDone
    <2> QED
      BY <1>2, <1>6, <2>2, <2>3
  <1>11. ASSUME t = ToUnlink, Timed(c, d), d.named, d.pak = "done", ~c.closed PROVE After(md, c, t, p, d)
    <2> DEFINE w == Op("unlink", "")
    <2>1. w.op = "unlink" /\ w.arg = ""
      BY DEF Op
    <2>2. Ending(md, c, ToRename, p, Write(d, w))
      BY <1>7, <1>11, <2>1 DEF Ending
    <2>3. t = Then(w.op, w.arg, ToRename)
      BY <1>11, <2>1 DEF ToUnlink
    <2> QED
      BY <1>2, <1>6, <2>2, <2>3
  <1>12. ASSUME t = ToRename, Timed(c, d), ~d.named, d.pak = "done", ~c.closed PROVE After(md, c, t, p, d)
    <2> DEFINE w == Op("rename", "")
    <2>1. w.op = "rename" /\ w.arg = ""
      BY DEF Op
    <2>2. Ending(md, c, ToClosed, p, Write(d, w))
      BY <1>7, <1>12, <2>1 DEF Ending, Intact
    <2>3. t = Then(w.op, w.arg, ToClosed)
      BY <1>12, <2>1 DEF ToRename
    <2> QED
      BY <1>2, <1>6, <2>2, <2>3
  <1> QED
    BY <1>4, <1>5, <1>8, <1>9, <1>10, <1>11, <1>12 DEF Ending

(* Close appends a section: its block, its length, its tag.                 *)
InAppend(c, p, d) == Base(c, d) /\ InClose(c, p, d) /\ Untouched(c, d)
(* An operation that only touches the end of the file.                      *)
LEMMA AppendKeeps ==
  ASSUME NEW c, NEW p, NEW d, NEW e, NEW f, InAppend(c, p, d), OnlyFile(d, e, f), Len(f) >= Len(d.file)
  PROVE  InAppend(c, p, e) /\ e.file = f /\ (Packed(c, d) => Packed(c, e))
  <1>1. Base(c, e)
    BY BaseGrows DEF InAppend
  <1> QED
    BY <1>1 DEF InAppend, InClose, HierFlushed, Untouched, Unnamed, Intact, Packed, OnlyFile

(* A block of its section is appended,                                      *)
LEMMA AppendsBlock ==
  ASSUME NEW c, NEW p, NEW d, InAppend(c, p, d), NEW tag, NEW tags, NEW len \in {0, 1}, NEW data \in Nat,
         Whole(c, d.file, tags)
  PROVE  LET e == Write(d, Op("append", <<tag, len, data>>)) IN
           InAppend(c, p, e) /\ Growing(c, e.file, tags, len, data)
  <1> DEFINE e == Write(d, Op("append", <<tag, len, data>>))
             b == Block("skip", len, 0, 0, data)
             f == Append(d.file, b)
  <1>1. d \in Disk /\ c \in Ctx /\ d.file \in Seq(Blocks) /\ b \in Blocks
    BY BlockIn DEF InAppend, Base, Disk
  <1>2. OnlyFile(d, e, f)
    BY <1>1, WriteAppend
  <1>3. Growing(c, f, tags, len, data)
    BY <1>1, WholeGrows
  <1>4. Len(f) >= Len(d.file)
    <2> HIDE DEF b
    <2> QED
      BY <1>1
  <1> HIDE DEF e, f
  <1>5. InAppend(c, p, e) /\ e.file = f
    BY <1>2, <1>4, AppendKeeps
  <1> QED
    BY <1>3, <1>5 DEF e

(* measured,                                                                *)
LEMMA AppendsLength ==
  ASSUME NEW c, NEW p, NEW d, InAppend(c, p, d), NEW tag, NEW tags, NEW data \in Nat,
         Growing(c, d.file, tags, 0, data)
  PROVE  LET e == Write(d, Op("length_last", tag)) IN
           InAppend(c, p, e) /\ Growing(c, e.file, tags, 1, data) /\ (Packed(c, d) => Packed(c, e))
  <1> DEFINE e == Write(d, Op("length_last", tag))
             b == [d.file[Len(d.file)] EXCEPT !.len = 1]
             f == Patch(d.file, Len(d.file), b)
  <1>1. d \in Disk /\ c \in Ctx /\ d.file \in Seq(Blocks) /\ Len(d.file) > 0
    BY DEF InAppend, Base, Disk, Growing
  <1>2. d.file # <<>>
    BY <1>1
  <1>3. OnlyFile(d, e, f)
    BY <1>1, <1>2, WriteLengthLast
  <1>4. Growing(c, f, tags, 1, data)
    BY <1>1, GrowingMeasured
  <1>5. Len(f) >= Len(d.file)
    BY <1>1 DEF Patch
  <1> HIDE DEF e, f
  <1>6. InAppend(c, p, e) /\ e.file = f /\ (Packed(c, d) => Packed(c, e))
    BY <1>3, <1>5, AppendKeeps
  <1> QED
    BY <1>4, <1>6 DEF e

(* and tagged.                                                              *)
LEMMA AppendsTag ==
  ASSUME NEW c, NEW p, NEW d, InAppend(c, p, d), NEW tag \in SectionTags, NEW tags \in SUBSET SectionTags,
         tag \notin tags, Growing(c, d.file, tags, 1, Val(c, tag))
  PROVE  LET e == Write(d, Op("tag_last", tag)) IN
           InAppend(c, p, e) /\ Whole(c, e.file, tags \cup {tag}) /\ (Packed(c, d) => Packed(c, e))
  <1> DEFINE e == Write(d, Op("tag_last", tag))
             b == [d.file[Len(d.file)] EXCEPT !.tag = tag]
             f == Patch(d.file, Len(d.file), b)
  <1>1. d \in Disk /\ c \in Ctx /\ d.file \in Seq(Blocks) /\ Len(d.file) > 0
    BY DEF InAppend, Base, Disk, Growing
  <1>2. d.file # <<>>
    BY <1>1
  <1>3. OnlyFile(d, e, f)
    BY <1>1, <1>2, WriteTagLast
  <1>4. Whole(c, f, tags \cup {tag})
    BY <1>1, GrowingTagged
  <1>5. Len(f) >= Len(d.file)
    BY <1>1 DEF Patch
  <1> HIDE DEF e, f
  <1>6. InAppend(c, p, e) /\ e.file = f /\ (Packed(c, d) => Packed(c, e))
    BY <1>3, <1>5, AppendKeeps
  <1> QED
    BY <1>4, <1>6 DEF e

(* The operation is the first of t, and rest is the stage it leads to.      *)
LEMMA AppendAfter ==
  ASSUME NEW md, NEW c, NEW t, NEW p, NEW d, NEW op \in {"append", "length_last", "tag_last", "pack", "flush_hier"},
         NEW arg, NEW rest, Clean(rest), t = Then(op, arg, rest),
         InAppend(c, p, Write(d, Op(op, arg))),
         LET e == Write(d, Op(op, arg)) IN
           AtGeom(md, c, rest, e) \/ AtBlackouts(md, c, rest, e) \/ AtHier(md, c, rest, e)
  PROVE  After(md, c, t, p, d)
  <1> DEFINE e == Write(d, Op(op, arg))
  <1>1. Appending(md, c, rest, p, e) /\ Base(c, e)
    BY DEF Appending, InAppend
  <1> HIDE DEF e
  <1>2. Stage(md, c, rest, p, e)
    BY <1>1 DEF Stage
  <1>3. Noteless(op)
    BY DEF Noteless
  <1>4. AfterAs(md, c, p, d, op, arg, rest)
    BY <1>1, <1>2, <1>3, WriteAs DEF e
  <1> QED
    BY <1>4, AfterThen, CleanIsList

(* The handles are counted.                                                 *)
LEMMA HandlesNat ==
  ASSUME NEW c \in Ctx
  PROVE  Handles(c) \in Nat
  <1> DEFINE S == {i \in DOMAIN c.hier : Var(c.hier[i])}
  <1>1. c.hier \in Seq(Records) /\ DOMAIN c.hier = 1 .. Len(c.hier) /\ Len(c.hier) \in Nat
    BY DEF Ctx
  <1>2. IsFiniteSet(1 .. Len(c.hier)) /\ S \subseteq 1 .. Len(c.hier)
    BY <1>1, FS_Interval
  <1>3. IsFiniteSet(S)
    BY <1>2, FS_Subset
  <1>4. Cardinality(S) \in Nat
    BY <1>3, FS_CardinalityType
  <1> QED
    BY <1>4 DEF Handles, MaxHandleOf

(* The sections of close: geometry, blackouts, hierarchy.                   *)
LEMMA AppendingStep ==
  ASSUME NEW md, NEW c, NEW t, NEW p, NEW d, Base(c, d), Appending(md, c, t, p, d)
  PROVE  After(md, c, t, p, d)
  <1>0. c \in Ctx /\ d \in Disk /\ InAppend(c, p, d) /\ c.blackouts \in Nat /\ Handles(c) \in Nat
    BY HandlesNat DEF Appending, InAppend, Base, Ctx
  <1>1. /\ Clean(ToTimes(md, c)) /\ Clean(ToUnlinkHier(md, c)) /\ Clean(ToTagHier(md, c))
        /\ Clean(ToMeasureHier(md, c)) /\ Clean(ToPack(md, c)) /\ Clean(ToSpill(md, c)) /\ Clean(ToHier(md, c))
        /\ Clean(ToTagBlackouts(md, c)) /\ Clean(ToMeasureBlackouts(md, c))
        /\ Clean(ToBlackouts(md, c)) /\ Clean(ToTagGeom(md, c))
    BY CloseClean
  <1>2. /\ WithGeom(c) \in SUBSET SectionTags /\ WithBlackouts(c) \in SUBSET SectionTags
        /\ "blackout" \notin WithGeom(c) /\ "hier" \notin WithBlackouts(c)
        /\ "geom" \in SectionTags /\ "blackout" \in SectionTags /\ "hier" \in SectionTags
        /\ {} \in SUBSET SectionTags
    BY DEF WithGeom, WithBlackouts, SectionTags
  <1>3. Val(c, "geom") = Handles(c) /\ Val(c, "blackout") = c.blackouts /\ Val(c, "hier") = 0
    BY DEF Val
  (* The hierarchy. *)
  <1>10. ASSUME t = ToTimes(md, c), Whole(c, d.file, WithHier(md, c)), HierKept(md, c, d)
         PROVE  After(md, c, t, p, d)
    <2>1. Ending(md, c, t, p, d)
      BY <1>0, <1>10 DEF Ending, InAppend, Untouched
    <2>2. t # <<>>
      <3>1. IsList(ToFlushHier(md, c))
        BY CloseClean, CleanIsList
      <3> QED
        BY <1>10, <3>1, ThenList DEF ToTimes
    <2> QED
      BY <2>1, <2>2, EndingStep
  <1>11. ASSUME "compress_hier" \in md, t = ToUnlinkHier(md, c), Whole(c, d.file, WithHier(md, c)), Packed(c, d)
         PROVE  After(md, c, t, p, d)
    <2> DEFINE e == Write(d, Op("unlink_hier", ""))
    <2>1. /\ SameFile(d, e) /\ e.start = d.start /\ e.end = d.end /\ e.hier = d.hier /\ e.cut = d.cut
          /\ ~e.hier_exists /\ e.packed = d.packed /\ e.padded = d.padded
          /\ e.named = d.named /\ e.pak = d.pak
      BY <1>0, WriteUnlinkHier
    <2> HIDE DEF e
    <2>2. Base(c, e)
      BY <1>0, <2>1, BaseSame DEF InAppend
    <2>3. Ending(md, c, ToTimes(md, c), p, e)
      BY <1>0, <1>11, <2>1 DEF Ending, InAppend, InClose, Untouched, Unnamed, Intact, HierFlushed, HierKept,
                               Packed, SameFile
    <2>4. Noteless("unlink_hier")
      BY DEF Noteless
    <2>5. AfterAs(md, c, p, d, "unlink_hier", "", ToTimes(md, c))
      BY <2>2, <2>3, <2>4, WriteAs DEF Stage, e
    <2> QED
      BY <1>1, <1>11, <2>5, AfterThen, CleanIsList DEF ToUnlinkHier
  <1>12. ASSUME "compress_hier" \in md, t = ToTagHier(md, c), Growing(c, d.file, WithBlackouts(c), 1, 0), Packed(c, d)
         PROVE  After(md, c, t, p, d)
    <2> DEFINE e == Write(d, Op("tag_last", "hier"))
    <2>1. InAppend(c, p, e) /\ Whole(c, e.file, WithBlackouts(c) \cup {"hier"}) /\ Packed(c, e)
      BY <1>0, <1>2, <1>3, <1>12, AppendsTag
    <2>2. AtHier(md, c, ToUnlinkHier(md, c), e)
      BY <1>12, <2>1 DEF AtHier, WithHier
    <2> QED
      BY <1>1, <1>12, <2>1, <2>2, AppendAfter DEF ToTagHier
  <1>13. ASSUME "compress_hier" \in md, t = ToMeasureHier(md, c), Growing(c, d.file, WithBlackouts(c), 0, 0), Packed(c, d)
         PROVE  After(md, c, t, p, d)
    <2> DEFINE e == Write(d, Op("length_last", "hier"))
    <2>1. InAppend(c, p, e) /\ Growing(c, e.file, WithBlackouts(c), 1, 0) /\ Packed(c, e)
      BY <1>0, <1>13, AppendsLength
    <2>2. AtHier(md, c, ToTagHier(md, c), e)
      BY <1>13, <2>1 DEF AtHier
    <2> QED
      BY <1>1, <1>13, <2>1, <2>2, AppendAfter DEF ToMeasureHier
  <1>14. ASSUME "compress_hier" \in md, t = ToPack(md, c), Growing(c, d.file, WithBlackouts(c), 0, 0)
         PROVE  After(md, c, t, p, d)
    <2> DEFINE e == Write(d, Op("pack", Len(c.hier)))
    <2>1. Len(c.hier) \in Nat
      BY <1>0 DEF Ctx
    <2>2. /\ SameFile(d, e) /\ e.start = d.start /\ e.end = d.end /\ e.hier = d.hier /\ e.cut = d.cut
          /\ e.hier_exists = d.hier_exists /\ e.packed = d.hier /\ (e.padded <=> Len(d.hier) < Len(c.hier))
          /\ e.named = d.named /\ e.pak = d.pak
      BY <1>0, <2>1, WritePack
    <2> HIDE DEF e
    <2>3. Base(c, e)
      BY <1>0, <2>2, BaseSame DEF InAppend
    <2>4. InAppend(c, p, e) /\ Packed(c, e)
      BY <1>0, <2>1, <2>2, <2>3 DEF InAppend, InClose, Untouched, Unnamed, Intact, HierFlushed, Packed
    <2>5. AtHier(md, c, ToMeasureHier(md, c), e)
      BY <1>14, <2>2, <2>4 DEF AtHier, SameFile
    <2> QED
      BY <1>1, <1>14, <2>4, <2>5, AppendAfter DEF ToPack, e
  <1>15. ASSUME "compress_hier" \in md, t = ToSpill(md, c), Growing(c, d.file, WithBlackouts(c), 0, 0)
         PROVE  After(md, c, t, p, d)
    <2>1. CASE "fourpack" \in md
      BY <1>14, <1>15, <2>1 DEF ToSpill
    <2>2. CASE "fourpack" \notin md
      <3> DEFINE e == Write(d, Op("flush_hier", c.hier))
      <3>1. c.hier \in Seq(Records)
        BY <1>0 DEF Ctx
      <3>2. /\ SameFile(d, e) /\ e.start = d.start /\ e.end = d.end /\ e.hier = c.hier /\ e.cut = FALSE
            /\ e.hier_exists = d.hier_exists /\ e.packed = d.packed /\ e.padded = d.padded
            /\ e.named = d.named /\ e.pak = d.pak
        BY <1>0, <3>1, WriteFlushHier
      <3> HIDE DEF e
      <3>3. Base(c, e)
        BY <1>0, <3>2, BaseFlushed DEF InAppend
      <3>4. InAppend(c, p, e)
        BY <1>0, <3>2, <3>3 DEF InAppend, InClose, Untouched, Unnamed, Intact, HierFlushed
      <3>5. AtHier(md, c, ToPack(md, c), e)
        BY <1>15, <3>2 DEF AtHier, SameFile
      <3>6. t = Then("flush_hier", c.hier, ToPack(md, c))
        BY <1>15, <2>2 DEF ToSpill
      <3> QED
        BY <1>1, <3>4, <3>5, <3>6, AppendAfter DEF e
    <2> QED
      BY <2>1, <2>2
  <1>16. ASSUME t = ToHier(md, c), Whole(c, d.file, WithBlackouts(c))
         PROVE  After(md, c, t, p, d)
    <2>1. CASE "compress_hier" \in md
      <3> DEFINE e == Write(d, Op("append", <<"hier", 0, 0>>))
      <3>1. InAppend(c, p, e) /\ Growing(c, e.file, WithBlackouts(c), 0, 0)
        BY <1>0, <1>16, AppendsBlock
      <3>2. AtHier(md, c, ToSpill(md, c), e)
        BY <2>1, <3>1 DEF AtHier
      <3>3. t = Then("append", <<"hier", 0, 0>>, ToSpill(md, c))
        BY <1>16, <2>1 DEF ToHier
      <3> QED
        BY <1>1, <3>1, <3>2, <3>3, AppendAfter
    <2>2. CASE "compress_hier" \notin md
      <3>1. t = ToTimes(md, c) /\ WithHier(md, c) = WithBlackouts(c)
        BY <1>16, <2>2 DEF ToHier, WithHier
      <3>2. HierKept(md, c, d)
        BY <1>0, <2>2 DEF HierKept, InAppend, Untouched
      <3> QED
        BY <1>10, <1>16, <3>1, <3>2
    <2> QED
      BY <2>1, <2>2
  <1>17. ASSUME AtHier(md, c, t, d) PROVE After(md, c, t, p, d)
    BY <1>11, <1>12, <1>13, <1>14, <1>15, <1>16, <1>17 DEF AtHier
  (* The blackouts. *)
  <1>20. ASSUME c.blackouts # 0, t = ToTagBlackouts(md, c), Growing(c, d.file, WithGeom(c), 1, c.blackouts)
         PROVE  After(md, c, t, p, d)
    <2> DEFINE e == Write(d, Op("tag_last", "blackout"))
    <2>1. InAppend(c, p, e) /\ Whole(c, e.file, WithGeom(c) \cup {"blackout"})
      BY <1>0, <1>2, <1>3, <1>20, AppendsTag
    <2>2. AtHier(md, c, ToHier(md, c), e)
      BY <1>20, <2>1 DEF AtHier, WithBlackouts
    <2> QED
      BY <1>1, <1>20, <2>1, <2>2, AppendAfter DEF ToTagBlackouts
  <1>21. ASSUME c.blackouts # 0, t = ToMeasureBlackouts(md, c), Growing(c, d.file, WithGeom(c), 0, c.blackouts)
         PROVE  After(md, c, t, p, d)
    <2> DEFINE e == Write(d, Op("length_last", "blackout"))
    <2>1. InAppend(c, p, e) /\ Growing(c, e.file, WithGeom(c), 1, c.blackouts)
      BY <1>0, <1>21, AppendsLength
    <2>2. AtBlackouts(md, c, ToTagBlackouts(md, c), e)
      BY <1>21, <2>1 DEF AtBlackouts
    <2> QED
      BY <1>1, <1>21, <2>1, <2>2, AppendAfter DEF ToMeasureBlackouts
  <1>22. ASSUME t = ToBlackouts(md, c), Whole(c, d.file, WithGeom(c))
         PROVE  After(md, c, t, p, d)
    <2>1. CASE c.blackouts # 0
      <3> DEFINE e == Write(d, Op("append", <<"blackout", 0, c.blackouts>>))
      <3>1. InAppend(c, p, e) /\ Growing(c, e.file, WithGeom(c), 0, c.blackouts)
        BY <1>0, <1>22, AppendsBlock
      <3>2. AtBlackouts(md, c, ToMeasureBlackouts(md, c), e)
        BY <2>1, <3>1 DEF AtBlackouts
      <3>3. t = Then("append", <<"blackout", 0, c.blackouts>>, ToMeasureBlackouts(md, c))
        BY <1>22, <2>1 DEF ToBlackouts
      <3> QED
        BY <1>1, <3>1, <3>2, <3>3, AppendAfter
    <2>2. CASE c.blackouts = 0
      BY <1>16, <1>22, <2>2 DEF ToBlackouts, WithBlackouts
    <2> QED
      BY <2>1, <2>2
  <1>23. ASSUME AtBlackouts(md, c, t, d) PROVE After(md, c, t, p, d)
    BY <1>20, <1>21, <1>22, <1>23 DEF AtBlackouts
  (* The geometry. *)
  <1>30. ASSUME Handles(c) # 0, t = ToTagGeom(md, c), Growing(c, d.file, {}, 1, Handles(c))
         PROVE  After(md, c, t, p, d)
    <2> DEFINE e == Write(d, Op("tag_last", "geom"))
    <2>1. InAppend(c, p, e) /\ Whole(c, e.file, {} \cup {"geom"})
      BY <1>0, <1>2, <1>3, <1>30, AppendsTag
    <2>2. {} \cup {"geom"} = WithGeom(c)
      BY <1>30 DEF WithGeom
    <2>3. AtBlackouts(md, c, ToBlackouts(md, c), e)
      BY <2>1, <2>2 DEF AtBlackouts
    <2> QED
      BY <1>1, <1>30, <2>1, <2>3, AppendAfter DEF ToTagGeom
  <1>31. ASSUME t = ToGeom(md, c), Whole(c, d.file, {})
         PROVE  After(md, c, t, p, d)
    <2>1. CASE Handles(c) # 0
      <3> DEFINE e == Write(d, Op("append", <<"geom", 1, Handles(c)>>))
      <3>1. InAppend(c, p, e) /\ Growing(c, e.file, {}, 1, Handles(c))
        BY <1>0, <1>31, AppendsBlock
      <3>2. AtGeom(md, c, ToTagGeom(md, c), e)
        BY <2>1, <3>1 DEF AtGeom
      <3>3. t = Then("append", <<"geom", 1, Handles(c)>>, ToTagGeom(md, c))
        BY <1>31, <2>1 DEF ToGeom
      <3> QED
        BY <1>1, <3>1, <3>2, <3>3, AppendAfter
    <2>2. CASE Handles(c) = 0
      BY <1>22, <1>31, <2>2 DEF ToGeom, WithGeom
    <2> QED
      BY <2>1, <2>2
  <1>32. ASSUME AtGeom(md, c, t, d) PROVE After(md, c, t, p, d)
    BY <1>30, <1>31, <1>32 DEF AtGeom
  <1> QED
    BY <1>17, <1>23, <1>32 DEF Appending

----------------------------------------------------------------------------
(* Steps: the flush.                                                        *)

(* One operation of a flush, by the call or by the thread.                  *)
Progress(c, k, e, todo, rest, own) ==
  /\ SameCtx(c, k) /\ k.closed = c.closed /\ Base(k, e) /\ Mapped(k, e)
  /\ \/ FlushLeft(k, e, todo, rest)
     \/ /\ todo = rest /\ \A md : Flushed(md, k, e)
        /\ own /\ ~k.already_in_close => k.section_header_only
Flushes(c, d, todo, own, rest) ==
  LET w == Head(todo)
      e == Write(d, w)
      k == Note(c, e, w, own)
  IN Progress(c, k, e, Tail(todo), rest, own)

(* A flush leaves everything but the file.                                  *)
LEMMA FlushKeeps ==
  ASSUME NEW c, NEW d, NEW e, NEW f, Base(c, d), Mapped(c, d), OnlyFile(d, e, f), Len(f) >= Len(d.file)
  PROVE  Base(c, e) /\ Mapped(c, e) /\ e.file = f
  <1>1. Base(c, e)
    BY BaseGrows
  <1> QED
    BY <1>1 DEF Mapped, HierFlushed, Untouched, Unnamed, Intact, OnlyFile

(* The next operation of a flush leads to the next of its stages.           *)
LEMMA FlushStep ==
  ASSUME NEW c, NEW d, NEW todo, NEW rest, IsList(rest), NEW own \in BOOLEAN,
         Base(c, d), Mapped(c, d), FlushLeft(c, d, todo, rest)
  PROVE  todo # <<>> /\ Flushes(c, d, todo, own, rest)
  <1> DEFINE n == c.secnum
             more == ~c.already_in_close
             f == d.file
  <1>1. /\ c \in Ctx /\ d \in Disk /\ n \in Nat \ {0} /\ n - 1 \in Nat /\ f \in Seq(Blocks) /\ CtxInv(c)
        /\ c.curtime \in Nat /\ more \in BOOLEAN
    BY DEF Base, Mapped, Ctx, Disk
  <1>2. PICK cur \in 0 .. c.curtime : cur >= Upto(c, f, n - 1) /\ ToDo(c, f, todo, cur, rest)
    BY DEF FlushLeft
  <1>3. cur \in Nat
    BY <1>1
  <1>4. /\ IsList(ToHeader(cur, more, rest)) /\ IsList(ToTruncpos(n, cur, more, rest))
        /\ IsList(ToTag(n, cur, more, rest)) /\ IsList(ToLength(n, cur, more, rest))
    BY <1>1, FlushQueued
  <1>5. SameCtx(c, c) /\ c.closed = c.closed
    BY <1>1 DEF SameCtx
  <1> HIDE DEF more
  <1>6. ASSUME NEW op, NEW arg, NEW r, NEW g, IsList(r), todo = Then(op, arg, r), Noteless(op),
               OnlyFile(d, Write(d, Op(op, arg)), g), Len(g) >= Len(f),
               Upto(c, g, n - 1) = Upto(c, f, n - 1), ToDo(c, g, r, cur, rest)
        PROVE  todo # <<>> /\ Flushes(c, d, todo, own, rest)
    <2> DEFINE e == Write(d, Op(op, arg))
    <2>1. Head(todo) = Op(op, arg) /\ Tail(todo) = r /\ todo # <<>>
      BY <1>6, ThenList
    <2>2. Note(c, e, Op(op, arg), own) = c
      BY <1>6 DEF Note, Op, Noteless
    <2>3. Base(c, e) /\ Mapped(c, e) /\ e.file = g
      BY <1>6, FlushKeeps
    <2> HIDE DEF e
    <2>4. FlushLeft(c, e, r, rest)
      BY <1>2, <1>6, <2>3 DEF FlushLeft
    <2> QED
      BY <1>5, <2>1, <2>2, <2>3, <2>4 DEF Flushes, Progress, e
  <1>7. ASSUME todo = ToBody(n, cur, more, rest), At(c, n, n - 1), Begun(c, f, n - 1, 0)
        PROVE  todo # <<>> /\ Flushes(c, d, todo, own, rest)
    <2> DEFINE g == Patch(f, Len(f), [f[Len(f)] EXCEPT !.data = n])
    <2>1. f # <<>> /\ Len(f) = n
      BY <1>1, <1>7 DEF Begun
    <2>2. OnlyFile(d, Write(d, Op("body", n)), g)
      BY <1>1, <2>1, WriteBody
    <2>3. Begun(c, g, n - 1, n)
      BY <1>1, <1>7, BodyWritten
    <2>4. Sections(c, f, n - 1) /\ Sections(c, g, n - 1) /\ Len(g) = n
      BY <1>1, <1>7, <2>3 DEF Begun
    <2>5. Upto(c, g, n - 1) = Upto(c, f, n - 1)
      <3>1. n \in 1 .. Len(f) /\ n - 1 \in 0 .. Len(f) /\ n - 1 # n
        BY <1>1, <2>1
      <3>2. \A i \in 1 .. Len(f) : i # n => g[i] = f[i]
        BY <1>1, <2>1 DEF Patch
      <3>3. n - 1 # 0 => g[n - 1] = f[n - 1]
        BY <1>1, <3>1, <3>2
      <3> HIDE DEF g
      <3> QED
        BY <3>3 DEF Upto
    <2>6. Noteless("body") /\ Len(g) >= Len(f)
      BY <1>1, <2>1, <2>4 DEF Noteless
    <2> HIDE DEF g
    <2>7. ToDo(c, g, ToLength(n, cur, more, rest), cur, rest)
      BY <1>7, <2>3 DEF ToDo, more
    <2>8. todo = Then("body", n, ToLength(n, cur, more, rest))
      BY <1>7 DEF ToBody
    <2> QED
      BY <1>4, <1>6, <2>2, <2>5, <2>6, <2>7, <2>8
  <1>8. ASSUME todo = ToLength(n, cur, more, rest), At(c, n, n - 1), Begun(c, f, n - 1, n)
        PROVE  todo # <<>> /\ Flushes(c, d, todo, own, rest)
    <2> DEFINE g == Patch(f, n, [[f[n] EXCEPT !.len = 1] EXCEPT !.end = cur])
    <2>1. f # <<>> /\ n = Len(f)
      BY <1>1, <1>8 DEF Begun
    <2>2. OnlyFile(d, Write(d, Op("length", <<n, cur>>)), g)
      BY <1>1, <1>3, <2>1, WriteLength
    <2>3. Sized(c, g, n, cur) /\ Upto(c, g, n - 1) = Upto(c, f, n - 1)
      BY <1>1, <1>3, <1>8, LengthWritten, Zenon
    <2> HIDE DEF g
    <2>4. Noteless("length") /\ Len(g) >= Len(f)
      BY <1>1, <2>1, <2>3 DEF Noteless, Sized
    <2>5. ToDo(c, g, ToTag(n, cur, more, rest), cur, rest)
      BY <1>8, <2>3 DEF ToDo, more
    <2>6. todo = Then("length", <<n, cur>>, ToTag(n, cur, more, rest))
      BY <1>8 DEF ToLength
    <2> QED
      BY <1>4, <1>6, <2>2, <2>3, <2>4, <2>5, <2>6
  <1>9. ASSUME todo = ToTag(n, cur, more, rest), At(c, n, n - 1), Sized(c, f, n, cur)
        PROVE  todo # <<>> /\ Flushes(c, d, todo, own, rest)
    <2> DEFINE g == Patch(f, n, [f[n] EXCEPT !.tag = "vc"])
    <2>1. n \in 1 .. Len(f) /\ Len(f) = n
      BY <1>1, <1>9 DEF Sized
    <2>2. OnlyFile(d, Write(d, Op("tag", <<n, "vc">>)), g)
      BY <1>1, <2>1, WriteTag
    <2>3. Complete(c, g, n, cur) /\ Upto(c, g, n - 1) = Upto(c, f, n - 1)
      BY <1>1, <1>9, TagWritten, Zenon
    <2> HIDE DEF g
    <2>4. Noteless("tag") /\ Len(g) >= Len(f)
      BY <1>1, <2>1, <2>3 DEF Noteless, Complete
    <2>5. ToDo(c, g, ToTruncpos(n, cur, more, rest), cur, rest)
      BY <1>9, <2>3 DEF ToDo, more
    <2>6. todo = Then("tag", <<n, "vc">>, ToTruncpos(n, cur, more, rest))
      BY <1>9 DEF ToTag
    <2> QED
      BY <1>4, <1>6, <2>2, <2>3, <2>4, <2>5, <2>6
  <1>10. ASSUME todo = ToTruncpos(n, cur, more, rest), At(c, n, n - 1), Complete(c, f, n, cur)
         PROVE  todo # <<>> /\ Flushes(c, d, todo, own, rest)
    <2> DEFINE w == Op("section_header_truncpos", n)
               k == Note(c, d, w, own)
               r == ToHeader(cur, more, rest)
    <2>0. Len(f) = n /\ Sections(c, f, n) /\ f[n].end = cur
      BY <1>10 DEF Complete
    <2>1. Write(d, w) = d
      BY WriteOther
    <2>2. todo # <<>> /\ Head(todo) = w /\ Tail(todo) = r
      BY <1>4, <1>10, ThenList DEF ToTruncpos
    <2>3. /\ SameCtx(c, k) /\ k.section_start = c.section_start /\ k.closed = c.closed
          /\ k.section_header_truncpos = Len(f)
      BY <1>1, NoteTruncpos
    <2> HIDE DEF k, w
    <2>4. /\ k \in Ctx /\ CtxInv(k) /\ Sections(k, f, n) /\ Upto(k, f, n - 1) = Upto(c, f, n - 1)
      BY <1>1, <2>0, <2>3, SameCtxSame
    <2>5. Len(f) <= Len(f)
      BY <1>1
    <2>6. Base(k, d)
      BY <2>3, <2>4, <2>5 DEF Base, Places, Spilled, SameCtx
    <2>7. Mapped(k, d)
      BY <2>3 DEF Mapped, HierFlushed, Untouched, SameCtx
    <2>8. At(k, n, n) /\ k.secnum = n /\ k.curtime = c.curtime /\ (more <=> ~k.already_in_close)
      BY <1>10, <2>0, <2>3 DEF At, SameCtx, more
    <2>9. CASE more
      <3>1. ToDo(k, f, r, cur, rest)
        <4>1. r = ToHeader(cur, ~k.already_in_close, rest)
          BY <2>8, <2>9 DEF ToHeader
        <4> HIDE DEF r
        <4> QED
          BY <2>0, <2>4, <2>8, <2>9, <4>1 DEF ToDo, Complete
      <3>2. FlushLeft(k, d, r, rest)
        BY <1>2, <2>4, <2>8, <3>1 DEF FlushLeft
      <3> QED
        BY <2>1, <2>2, <2>3, <2>6, <2>7, <3>2 DEF Flushes, Progress, k
    <2>10. CASE ~more
      <3>1. r = rest
        BY <2>10 DEF ToHeader
      <3>2. \A md : Flushed(md, k, d)
        BY <2>0, <2>4, <2>8, <2>10 DEF Flushed
      <3> QED
        BY <2>1, <2>2, <2>3, <2>6, <2>7, <2>8, <2>10, <3>1, <3>2 DEF Flushes, Progress, k
    <2> QED
      BY <2>9, <2>10
  <1>11. ASSUME more, todo = ToHeader(cur, more, rest), At(c, n, n), Complete(c, f, n, cur)
         PROVE  todo # <<>> /\ Flushes(c, d, todo, own, rest)
    <2> DEFINE w == Op("header", cur)
               e == Write(d, w)
               k == Note(c, e, w, own)
               g == Append(f, Block("skip", 0, cur, cur, 0))
    <2>0. Len(f) = n /\ Sections(c, f, n) /\ f[n].end = cur
      BY <1>11 DEF Complete
    <2>1. OnlyFile(d, e, g)
      BY <1>1, <1>3, WriteHeader
    <2>2. todo # <<>> /\ Head(todo) = w /\ Tail(todo) = rest
      BY <1>11, ThenList DEF ToHeader
    <2>3. cur = Upto(c, f, n)
      BY <1>1, <2>0 DEF Upto
    <2>4. Begun(c, g, n, 0)
      BY <1>1, <1>3, <2>0, <2>3, HeaderBegins
    <2>5. Len(g) = n + 1
      BY <2>4 DEF Begun
    <2>6. Base(c, e) /\ Mapped(c, e) /\ e.file = g
      <3>1. Len(g) >= Len(f)
        BY <1>1, <2>0, <2>5
      <3> QED
        BY <2>1, <3>1, FlushKeeps
    <2>7. e \in Disk
      BY <2>6 DEF Base
    <2>8. /\ SameCtx(c, k) /\ k.section_start = Len(e.file) /\ k.closed = c.closed
          /\ k.section_header_truncpos = c.section_header_truncpos /\ (own => k.section_header_only)
      BY <1>1, <2>7, NoteHeader
    <2> HIDE DEF k, w, e, g
    <2>9. k \in Ctx /\ CtxInv(k) /\ Begun(k, g, n, 0)
      BY <1>1, <2>4, <2>8, SameCtxSame
    <2>10. k.section_start = n + 1 /\ k.section_header_truncpos = n /\ n <= n + 1 /\ n + 1 <= (n + 1) + 1
      BY <1>1, <1>11, <2>0, <2>5, <2>6, <2>8 DEF At
    <2>11. Base(k, e)
      BY <2>5, <2>6, <2>8, <2>9, <2>10 DEF Base, Places, Spilled, SameCtx
    <2>12. Mapped(k, e)
      BY <2>6, <2>8 DEF Mapped, HierFlushed, Untouched, SameCtx
    <2>13. ~k.already_in_close /\ k.secnum = n
      BY <1>11, <2>8 DEF SameCtx, more
    <2>14. \A md : Flushed(md, k, e)
      BY <2>6, <2>9, <2>10, <2>13 DEF Flushed, At
    <2> QED
      BY <2>2, <2>8, <2>11, <2>12, <2>14 DEF Flushes, Progress, k, e
  <1> QED
    BY <1>2, <1>7, <1>8, <1>9, <1>10, <1>11 DEF ToDo, more

----------------------------------------------------------------------------
(* Steps: close cuts off the open header, the first mapping.                *)

(* Close cuts the open section off.                                         *)
LEMMA TruncatingStep ==
  ASSUME NEW md, NEW c, NEW t, NEW p, NEW d, Base(c, d), Truncating(md, c, t, p, d)
  PROVE  After(md, c, t, p, d)
  <1> DEFINE n == c.secnum
             f == SubSeq(d.file, 1, n)
             e == Write(d, Op("truncate", n))
  <1>1. /\ c \in Ctx /\ d \in Disk /\ n \in Nat /\ n > 0 /\ d.file \in Seq(Blocks) /\ CtxInv(c)
        /\ Begun(c, d.file, n, 0) /\ At(c, n + 1, n) /\ t = Then("truncate", n, ToGeom(md, c))
        /\ InClose(c, p, d) /\ Untouched(c, d)
    BY DEF Base, Truncating, Ctx, Disk
  <1>2. Len(d.file) = n + 1
    BY <1>1 DEF Begun
  <1>3. n \in 0 .. Len(d.file)
    BY <1>1, <1>2
  <1>4. OnlyFile(d, e, f)
    BY <1>1, <1>3, WriteTruncate
  <1>5. Whole(c, f, {}) /\ Len(f) = n
    BY <1>1, TruncatedIsWhole
  <1>6. Noteless("truncate") /\ n <= n /\ n + 1 <= n + 1
    BY <1>1 DEF Noteless
  <1> HIDE DEF e, f
  <1>7. Base(c, e)
    BY <1>1, <1>4, <1>5, <1>6 DEF Base, Places, Spilled, OnlyFile, At
  <1>8. InClose(c, p, e) /\ Untouched(c, e) /\ e.file = f
    BY <1>1, <1>4 DEF InClose, HierFlushed, Untouched, Unnamed, Intact, OnlyFile
  <1>9. Stage(md, c, ToGeom(md, c), p, e)
    BY <1>5, <1>8 DEF Stage, Appending, AtGeom
  <1>10. IsList(ToGeom(md, c))
    BY CloseClean, CleanIsList
  <1>11. AfterAs(md, c, p, d, "truncate", n, ToGeom(md, c))
    BY <1>6, <1>7, <1>9, WriteAs DEF e
  <1> QED
    BY <1>1, <1>10, <1>11, AfterThen

(* The lists before a section header are lists.                             *)
LEMMA MappingLists ==
  ASSUME NEW md, NEW c
  PROVE  /\ IsList(ToFlush(md, c, 0)) /\ IsList(AfterHeader(md, c)) /\ IsList(AfterMapping(md, c))
         /\ IsList(ToMapTimes(md, c)) /\ IsList(ToMapping(md, c))
  <1>1. IsList(AfterFlush(md, c)) /\ IsList(ToGeom(md, c)) /\ IsList(<<>>)
    BY CloseClean, CleanIsList, EmptyClean
  <1>2. IsList(ToFlush(md, c, 0))
    BY <1>1, ThenList, FlushQueued DEF ToFlush
  <1>3. IsList(AfterHeader(md, c))
    BY <1>1, <1>2 DEF AfterHeader
  <1>4. IsList(AfterMapping(md, c))
    BY <1>1, <1>3, ThenList DEF AfterMapping
  <1> QED
    BY <1>2, <1>3, <1>4, ThenList DEF ToMapTimes, ToMapping

(* What a section header is followed by.                                    *)
LEMMA HeaderStep ==
  ASSUME NEW md, NEW c, NEW p, NEW d, Base(c, d), NEW t, Starting(md, c, t, p, d),
         HierFlushed(c, d), ~c.is_initial_time
  PROVE  AfterAs(md, c, p, d, "header", c.firsttime, AfterHeader(md, c))
  <1> DEFINE b == c.firsttime
             e == Write(d, Op("header", b))
             k == Note(c, e, Op("header", b), TRUE)
             g == Append(d.file, Block("skip", 0, b, b, 0))
             r == AfterHeader(md, c)
  <1>1. /\ c \in Ctx /\ d \in Disk /\ b \in Nat /\ d.file \in Seq(Blocks) /\ CtxInv(c) /\ c.secnum \in Nat
        /\ c.curtime \in Nat
    BY DEF Base, Ctx, Disk
  <1>2. /\ p.state = "none" /\ Untouched(c, d) /\ d.file = <<>> /\ c.mapped /\ ~c.changed /\ At(c, 0, 0)
        /\ (~c.already_in_close => c.secnum = 0)
        /\ (c.already_in_close =>
             c.firsttime = 0 /\ c.curtime = 0 /\ c.secnum = IF Handles(c) = 0 THEN 0 ELSE 1)
    BY DEF Starting
  <1>3. OnlyFile(d, e, g)
    BY <1>1, WriteHeader
  <1>4. Len(d.file) = 0 /\ Sections(c, d.file, 0) /\ Upto(c, d.file, 0) = b
    BY <1>2 DEF Sections, Upto
  <1>5. Begun(c, g, 0, 0)
    BY <1>1, <1>4, HeaderBegins
  <1>6. Len(g) = 1
    BY <1>5 DEF Begun
  <1> HIDE DEF g
  <1>7. Base(c, e)
    <2>1. Len(g) >= Len(d.file)
      BY <1>4, <1>6
    <2> QED
      BY <1>3, <2>1, BaseGrows
  <1>8. e \in Disk /\ e.file = g /\ Untouched(c, e) /\ HierFlushed(c, e)
    BY <1>2, <1>3 DEF OnlyFile, Untouched, HierFlushed, Unnamed, Intact
  <1>9. /\ SameCtx(c, k) /\ k.section_start = Len(e.file) /\ k.closed = c.closed
        /\ k.section_header_truncpos = c.section_header_truncpos /\ k.section_header_only
    <2>1. PICK own \in BOOLEAN : own
      OBVIOUS
    <2>2. own = TRUE
      BY <2>1
    <2> DEFINE j == Note(c, e, Op("header", b), own)
    <2>3. /\ SameCtx(c, j) /\ j.section_start = Len(e.file) /\ j.closed = c.closed
          /\ j.section_header_truncpos = c.section_header_truncpos /\ (own => j.section_header_only)
      BY <1>1, <1>8, NoteHeader
    <2>4. j = k
      BY <2>2
    <2> HIDE DEF j, k
    <2> QED
      BY <2>1, <2>3, <2>4
  <1> HIDE DEF e, k
  <1>10. k \in Ctx /\ Handles(k) = Handles(c) /\ CtxInv(k) /\ Begun(k, e.file, 0, 0)
    BY <1>1, <1>5, <1>8, <1>9, SameCtxSame
  <1>11. At(k, 1, 0)
    BY <1>2, <1>6, <1>8, <1>9 DEF At
  <1>12. Base(k, e)
    BY <1>6, <1>7, <1>8, <1>9, <1>10, <1>11 DEF Base, Places, Spilled, SameCtx, At
  <1>13. Untouched(k, e) /\ HierFlushed(k, e) /\ k.mapped /\ ~k.is_initial_time
    BY <1>2, <1>8, <1>9 DEF Untouched, HierFlushed, SameCtx
  <1>14. /\ AfterHeader(md, k) = r /\ k.secnum = c.secnum /\ k.already_in_close = c.already_in_close
         /\ k.firsttime = c.firsttime /\ k.curtime = c.curtime
    BY <1>1, <1>9, SameLists DEF SameCtx
  <1> HIDE DEF r
  <1>15. CASE ~k.already_in_close
    <2>1. r = <<>> /\ k.secnum = 0
      BY <1>2, <1>14, <1>15 DEF AfterHeader
    <2>2. Resting(md, k, e)
      BY <1>10, <1>11, <1>13, <2>1, <1>9 DEF Resting
    <2>3. Quiet(md, k, r, p, e)
      BY <1>2, <1>13, <1>15, <2>1, <2>2 DEF Quiet
    <2> QED
      BY <1>12, <2>3 DEF AfterAs, Stage, k, e, r
  <1>16. CASE k.already_in_close /\ k.secnum = 0
    <2>1. r = ToGeom(md, k)
      BY <1>14, <1>16 DEF AfterHeader
    <2>2. Whole(k, e.file, {})
      BY <1>1, <1>8, <1>10, <1>16, OpenIsWhole DEF Disk
    <2>3. Appending(md, k, r, p, e)
      BY <1>2, <1>13, <1>16, <2>1, <2>2 DEF Appending, InClose, AtGeom
    <2> QED
      BY <1>12, <2>3 DEF AfterAs, Stage, k, e, r
  <1>17. CASE k.already_in_close /\ k.secnum # 0
    <2>1. r = ToFlush(md, k, 0) /\ k.secnum = 1 /\ k.firsttime = 0 /\ k.curtime = 0
      BY <1>2, <1>14, <1>17 DEF AfterHeader
    <2>2. Mapped(k, e)
      BY <1>13, <2>1 DEF Mapped
    <2>3. 0 \in 0 .. k.curtime /\ 0 >= Upto(k, e.file, k.secnum - 1) /\ k.secnum - 1 = 0
      BY <2>1 DEF Upto
    <2>4. At(k, k.secnum, k.secnum - 1) /\ Begun(k, e.file, k.secnum - 1, 0)
      BY <1>10, <1>11, <2>1, <2>3
    <2>5. CASE Threads(md)
      <3> DEFINE todo == ToBody(k.secnum, 0, ~k.already_in_close, <<>>)
      <3>1. Unbegun(k, e, todo)
        BY <2>3, <2>4 DEF Unbegun
      <3>2. r = Then("spawn", todo, AfterFlush(md, k))
        BY <2>1, <2>5 DEF ToFlush
      <3>3. IsList(AfterFlush(md, k))
        BY CloseClean, CleanIsList
      <3> HIDE DEF todo
      <3>4. r # <<>> /\ Head(r) = Op("spawn", todo)
        BY <3>2, <3>3, ThenList
      <3>5. Head(r).arg = todo
        BY <3>4 DEF Op
      <3>6. Spawning(md, k, r, p, e)
        BY <1>2, <2>5, <3>1, <3>2, <3>4, <3>5 DEF Spawning
      <3> QED
        BY <1>12, <2>2, <3>6 DEF AfterAs, Stage, Flushing, k, e, r
    <2>6. CASE ~Threads(md)
      <3>1. FlushLeft(k, e, r, AfterFlush(md, k))
        <4>1. r = ToBody(k.secnum, 0, ~k.already_in_close, AfterFlush(md, k))
          BY <2>1, <2>6 DEF ToFlush
        <4> QED
          BY <2>3, <2>4, <4>1 DEF FlushLeft, ToDo
      <3>2. Serial(md, k, r, p, e)
        BY <1>2, <2>6, <3>1 DEF Serial
      <3> QED
        BY <1>12, <2>2, <3>2 DEF AfterAs, Stage, Flushing, k, e, r
    <2> QED
      BY <2>5, <2>6
  <1> QED
    BY <1>15, <1>16, <1>17

(* The first mapping and the first section header.                          *)
LEMMA StartingStep ==
  ASSUME NEW md, NEW c, NEW t, NEW p, NEW d, Base(c, d), Starting(md, c, t, p, d)
  PROVE  t # <<>> /\ After(md, c, t, p, d)
  <1>1. /\ p.state = "none" /\ Untouched(c, d) /\ d.file = <<>> /\ c.mapped /\ ~c.changed /\ At(c, 0, 0)
        /\ (c.is_initial_time => ~c.already_in_close)
        /\ (~c.already_in_close => c.secnum = 0)
        /\ (c.already_in_close =>
             c.firsttime = 0 /\ c.curtime = 0 /\ c.secnum = IF Handles(c) = 0 THEN 0 ELSE 1)
        /\ c \in Ctx /\ d \in Disk /\ c.hier \in Seq(Records)
    BY DEF Starting, Base, Ctx
  <1>2. IsList(ToMapTimes(md, c)) /\ IsList(AfterMapping(md, c)) /\ IsList(AfterHeader(md, c))
    BY MappingLists
  <1>3. ASSUME t = ToMapping(md, c) PROVE t # <<>> /\ After(md, c, t, p, d)
    <2> DEFINE e == Write(d, Op("flush_hier", c.hier))
    <2>1. /\ SameFile(d, e) /\ e.start = d.start /\ e.end = d.end /\ e.hier = c.hier /\ ~e.cut
          /\ e.hier_exists = d.hier_exists /\ e.packed = d.packed /\ e.padded = d.padded
          /\ e.named = d.named /\ e.pak = d.pak
      BY <1>1, WriteFlushHier
    <2> HIDE DEF e
    <2>2. Base(c, e)
      BY <2>1, BaseFlushed
    <2>3. HierFlushed(c, e) /\ Untouched(c, e) /\ e.file = <<>>
      BY <1>1, <2>1 DEF HierFlushed, Untouched, Unnamed, Intact, SameFile
    <2>4. Starting(md, c, ToMapTimes(md, c), p, e)
      BY <1>1, <2>3 DEF Starting
    <2>5. Noteless("flush_hier")
      BY DEF Noteless
    <2>6. Stage(md, c, ToMapTimes(md, c), p, e)
      BY <2>4 DEF Stage
    <2>7. AfterAs(md, c, p, d, "flush_hier", c.hier, ToMapTimes(md, c))
      BY <2>2, <2>5, <2>6, WriteAs DEF e
    <2>8. t = Then("flush_hier", c.hier, ToMapTimes(md, c))
      BY <1>3 DEF ToMapping
    <2> QED
      BY <1>2, <2>7, <2>8, AfterThen, ThenList
  <1>4. ASSUME t = ToMapTimes(md, c), HierFlushed(c, d) PROVE t # <<>> /\ After(md, c, t, p, d)
    <2> DEFINE e == Write(d, Op("times", <<0, 0>>))
               r == AfterMapping(md, c)
    <2>1. /\ SameFile(d, e) /\ e.start = 0 /\ e.end = 0 /\ e.hier = d.hier /\ e.cut = d.cut
          /\ e.hier_exists = d.hier_exists /\ e.packed = d.packed /\ e.padded = d.padded
          /\ e.named = d.named /\ e.pak = d.pak
      BY <1>1, WriteTimes
    <2> HIDE DEF e
    <2>2. Base(c, e)
      BY <2>1, BaseSame
    <2>3. HierFlushed(c, e) /\ Untouched(c, e) /\ e.file = <<>>
      BY <1>1, <1>4, <2>1 DEF HierFlushed, Untouched, Unnamed, Intact, SameFile
    <2>6. Stage(md, c, r, p, e)
      <3>1. ASSUME c.is_initial_time PROVE Stage(md, c, r, p, e)
        <4>1. r = <<>>
          BY <3>1 DEF AfterMapping
        <4>2. Quiet(md, c, r, p, e)
          BY <1>1, <2>3, <3>1, <4>1 DEF Quiet, Resting
        <4> QED
          BY <4>2 DEF Stage
      <3>2. ASSUME ~c.is_initial_time PROVE Stage(md, c, r, p, e)
        <4>1. Starting(md, c, r, p, e)
          BY <1>1, <2>3, <3>2 DEF Starting
        <4> QED
          BY <4>1 DEF Stage
      <3> QED
        BY <3>1, <3>2
    <2>7. Noteless("times")
      BY DEF Noteless
    <2> HIDE DEF r
    <2>8. AfterAs(md, c, p, d, "times", <<0, 0>>, r)
      BY <2>2, <2>6, <2>7, WriteAs DEF e
    <2>9. t = Then("times", <<0, 0>>, r)
      BY <1>4 DEF ToMapTimes, r
    <2>10. IsList(r)
      BY <1>2 DEF r
    <2> QED
      BY <2>8, <2>9, <2>10, AfterThen, ThenList
  <1>5. ASSUME t = AfterMapping(md, c), HierFlushed(c, d), ~c.is_initial_time
        PROVE  t # <<>> /\ After(md, c, t, p, d)
    <2>1. AfterAs(md, c, p, d, "header", c.firsttime, AfterHeader(md, c))
      BY <1>5, HeaderStep
    <2>2. t = Then("header", c.firsttime, AfterHeader(md, c))
      BY <1>5 DEF AfterMapping
    <2> QED
      BY <1>2, <2>1, <2>2, AfterThen, ThenList
  <1> QED
    BY <1>3, <1>4, <1>5 DEF Starting

----------------------------------------------------------------------------
(* Steps: the flush by the call, and by a thread.                           *)

(* Where a flush has ended.                                                 *)
LEMMA FlushedRests ==
  ASSUME NEW md, NEW c, NEW p, NEW d, Base(c, d), Mapped(c, d), Flushed(md, c, d), ~c.already_in_close,
         p.state = "none", Threads(md) \/ c.section_header_only
  PROVE  Quiet(md, c, <<>>, p, d)
  <1>1. Begun(c, d.file, c.secnum, 0) /\ At(c, c.secnum + 1, c.secnum)
    BY DEF Flushed
  <1>2. Untouched(c, d) /\ HierFlushed(c, d) /\ ~c.is_initial_time
    BY DEF Mapped
  <1>3. Resting(md, c, d)
    BY <1>1, <1>2 DEF Resting
  <1> QED
    BY <1>2, <1>3 DEF Quiet

(* In close, the appending begins.                                          *)
LEMMA FlushedIsWhole ==
  ASSUME NEW md, NEW c, NEW p, NEW d, Base(c, d), Mapped(c, d), Flushed(md, c, d), c.already_in_close,
         p.state = "none"
  PROVE  Appending(md, c, ToGeom(md, c), p, d)
  <1>1. c \in Ctx /\ d.file \in Seq(Blocks) /\ c.secnum > 0
    BY DEF Base, Disk, Mapped
  <1>2. Len(d.file) = c.secnum /\ Sections(c, d.file, c.secnum)
    BY DEF Flushed
  <1>3. Whole(c, d.file, {})
    BY <1>1, <1>2, SectionsAreWhole
  <1>4. InClose(c, p, d) /\ Untouched(c, d)
    BY DEF Mapped, InClose
  <1> QED
    BY <1>3, <1>4 DEF Appending, AtGeom

(* A flush in the call itself, ...                                          *)
LEMMA SerialStep ==
  ASSUME NEW md, NEW c, NEW t, NEW p, NEW d, Base(c, d), Mapped(c, d), Serial(md, c, t, p, d)
  PROVE  t # <<>> /\ After(md, c, t, p, d)
  <1>1. ~Threads(md) /\ p.state = "none" /\ FlushLeft(c, d, t, AfterFlush(md, c)) /\ c \in Ctx
    BY DEF Serial, Base
  <1>2. IsList(AfterFlush(md, c))
    BY CloseClean, CleanIsList
  <1>3. PICK own \in BOOLEAN : own
    OBVIOUS
  <1>4. t # <<>> /\ Flushes(c, d, t, own, AfterFlush(md, c))
    BY <1>1, <1>2, FlushStep
  <1> DEFINE w == Head(t)
             e == Write(d, w)
             k == Note(c, e, w, own)
  <1>5. Progress(c, k, e, Tail(t), AfterFlush(md, c), own)
    BY <1>4 DEF Flushes
  <1>6. own = TRUE
    BY <1>3
  <1>7. Note(c, e, w, TRUE) = k
    BY <1>6
  <1> HIDE DEF k, e
  <1>8. SameCtx(c, k) /\ Base(k, e) /\ Mapped(k, e)
    BY <1>5 DEF Progress
  <1>9. AfterFlush(md, k) = AfterFlush(md, c)
    BY <1>1, <1>8, SameLists
  <1>10. ASSUME FlushLeft(k, e, Tail(t), AfterFlush(md, c)) PROVE Stage(md, k, Tail(t), p, e)
    BY <1>1, <1>8, <1>9, <1>10 DEF Stage, Flushing, Serial
  <1>11. ASSUME Tail(t) = AfterFlush(md, c), Flushed(md, k, e), ~k.already_in_close => k.section_header_only
         PROVE  Stage(md, k, Tail(t), p, e)
    <2>1. ASSUME k.already_in_close PROVE Stage(md, k, Tail(t), p, e)
      <3>1. Tail(t) = ToGeom(md, k)
        BY <1>1, <1>9, <1>11, <2>1 DEF AfterFlush
      <3>2. Appending(md, k, ToGeom(md, k), p, e)
        BY <1>1, <1>8, <1>11, <2>1, FlushedIsWhole
      <3> QED
        BY <3>1, <3>2 DEF Stage
    <2>2. ASSUME ~k.already_in_close PROVE Stage(md, k, Tail(t), p, e)
      <3>1. Tail(t) = <<>>
        BY <1>9, <1>11, <2>2 DEF AfterFlush
      <3>2. Quiet(md, k, <<>>, p, e)
        BY <1>1, <1>8, <1>11, <2>2, FlushedRests
      <3> QED
        BY <3>1, <3>2 DEF Stage
    <2> QED
      BY <2>1, <2>2
  <1>12. Stage(md, k, Tail(t), p, e)
    BY <1>3, <1>5, <1>10, <1>11 DEF Progress
  <1> QED
    BY <1>4, <1>7, <1>8, <1>12 DEF After, e

(* ... and by the thread: it locks, writes and leaves.                      *)
LEMMA LockStep ==
  ASSUME NEW md, NEW c, NEW t, NEW p, NEW q, NEW d, Mapped(c, d), Created(md, c, t, p, d),
         q.state = "locked", q.todo = p.todo, Base(c, d)
  PROVE  Flushing(md, c, t, q, d)
  <1>1. Threads(md) /\ t = AfterFlush(md, c) /\ Unbegun(c, d, q.todo)
    BY DEF Created
  <1>2. FlushLeft(c, d, q.todo, <<>>)
    BY <1>1 DEF Unbegun, FlushLeft, ToDo
  <1> QED
    BY <1>1, <1>2 DEF Flushing, Locked

(* The thread does an operation of the flush.                               *)
LEMMA ThreadStep ==
  ASSUME NEW md, NEW c, NEW t, NEW p, NEW q, NEW d, Base(c, d), Mapped(c, d), Locked(md, c, t, p, d),
         p.todo # <<>>, q.state = "locked", q.todo = Tail(p.todo)
  PROVE  LET w == Head(p.todo)
             e == Write(d, w)
             k == Note(c, e, w, FALSE)
         IN Base(k, e) /\ Flushing(md, k, t, q, e)
  <1>1. Threads(md) /\ t = AfterFlush(md, c) /\ FlushLeft(c, d, p.todo, <<>>) /\ c \in Ctx
    BY DEF Locked, Base
  <1>2. IsList(<<>>)
    BY EmptyClean, CleanIsList
  <1>3. PICK own \in BOOLEAN : ~own
    OBVIOUS
  <1>4. Flushes(c, d, p.todo, own, <<>>)
    BY <1>1, <1>2, FlushStep
  <1> DEFINE w == Head(p.todo)
             e == Write(d, w)
             k == Note(c, e, w, own)
  <1>5. Progress(c, k, e, q.todo, <<>>, own)
    BY <1>4 DEF Flushes
  <1>6. own = FALSE
    BY <1>3
  <1>7. Note(c, e, w, FALSE) = k
    BY <1>6
  <1> HIDE DEF k, e
  <1>8. SameCtx(c, k) /\ Base(k, e) /\ Mapped(k, e)
    BY <1>5 DEF Progress
  <1>9. t = AfterFlush(md, k)
    BY <1>1, <1>8, SameLists
  <1>10. FlushLeft(k, e, q.todo, <<>>) \/ (q.todo = <<>> /\ Flushed(md, k, e))
    BY <1>5 DEF Progress
  <1>11. Flushing(md, k, t, q, e)
    BY <1>1, <1>8, <1>9, <1>10 DEF Flushing, Locked
  <1> QED
    BY <1>7, <1>8, <1>11 DEF e

(* The thread ends: the call is at rest, or waits in close.                 *)
LEMMA ExitStep ==
  ASSUME NEW md, NEW c, NEW t, NEW p, NEW q, NEW d, Base(c, d), Mapped(c, d), Locked(md, c, t, p, d),
         p.todo = <<>>, q.state = "none"
  PROVE  Stage(md, c, t, q, d)
  <1>1. IsList(<<>>)
    BY EmptyClean, CleanIsList
  <1>2. ~FlushLeft(c, d, p.todo, <<>>)
    <2>1. PICK own \in BOOLEAN : own
      OBVIOUS
    <2>2. ASSUME FlushLeft(c, d, p.todo, <<>>) PROVE FALSE
      <3>1. p.todo # <<>>
        BY <1>1, <2>1, <2>2, FlushStep
      <3> QED
        BY <3>1
    <2> QED
      BY <2>2
  <1>3. Threads(md) /\ t = AfterFlush(md, c) /\ Flushed(md, c, d)
    BY <1>2 DEF Locked
  <1>4. ASSUME c.already_in_close PROVE Stage(md, c, t, q, d)
    <2>1. t = ToWait(md, c)
      BY <1>3, <1>4 DEF AfterFlush
    <2> QED
      BY <1>3, <1>4, <2>1 DEF Stage, Flushing, Waiting
  <1>5. ASSUME ~c.already_in_close PROVE Stage(md, c, t, q, d)
    <2>1. t = <<>>
      BY <1>3, <1>5 DEF AfterFlush
    <2>2. Quiet(md, c, <<>>, q, d)
      BY <1>3, <1>5, FlushedRests
    <2> QED
      BY <2>1, <2>2 DEF Stage
  <1> QED
    BY <1>4, <1>5

(* The call creates the thread, and close waits for it.                     *)
LEMMA SpawnStep ==
  ASSUME NEW md, NEW c, NEW t, NEW p, NEW q, NEW d, Base(c, d), Mapped(c, d), Spawning(md, c, t, p, d),
         q.state = "created", q.todo = Head(t).arg
  PROVE  Head(t).op = "spawn" /\ Flushing(md, c, Tail(t), q, d)
  <1>1. /\ Threads(md) /\ t = Then("spawn", Head(t).arg, AfterFlush(md, c)) /\ Unbegun(c, d, q.todo)
    BY DEF Spawning
  <1>2. IsList(AfterFlush(md, c))
    BY CloseClean, CleanIsList
  <1> DEFINE a == Head(t).arg
  <1> HIDE DEF a
  <1>3. t = Then("spawn", a, AfterFlush(md, c))
    BY <1>1 DEF a
  <1>4. Tail(t) = AfterFlush(md, c) /\ Head(t) = Op("spawn", a)
    BY <1>2, <1>3, ThenList
  <1> QED
    BY <1>1, <1>4 DEF Flushing, Created, Op

(* The call stops waiting.                                                  *)
LEMMA WaitStep ==
  ASSUME NEW md, NEW c, NEW t, NEW p, NEW d, Base(c, d), Mapped(c, d), Waiting(md, c, t, p, d)
  PROVE  Head(t).op = "wait" /\ Appending(md, c, Tail(t), p, d)
  <1>1. p.state = "none" /\ c.already_in_close /\ t = Then("wait", "", ToGeom(md, c)) /\ Flushed(md, c, d)
    BY DEF Waiting, ToWait
  <1>2. IsList(ToGeom(md, c))
    BY CloseClean, CleanIsList
  <1>3. Tail(t) = ToGeom(md, c) /\ Head(t) = Op("wait", "")
    BY <1>1, <1>2, ThenList
  <1>4. p.state = "none" /\ c.already_in_close /\ Flushed(md, c, d)
    BY DEF Waiting
  <1>5. Appending(md, c, ToGeom(md, c), p, d)
    BY <1>4, FlushedIsWhole
  <1>6. Appending(md, c, Tail(t), p, d)
    BY <1>3, <1>5
  <1>7. Head(t).op = "wait"
    <2>1. Op("wait", "").op = "wait"
      BY DEF Op
    <2> QED
      BY <1>3, <2>1
  <1> QED
    BY <1>6, <1>7

(* Without a thread, the call's next operation is done, or it creates the   *)
(* thread or waits for it.                                                  *)
LEMMA MainStep ==
  ASSUME NEW md, NEW c, NEW t, NEW p, NEW d, Base(c, d), Stage(md, c, t, p, d), t # <<>>, p.state = "none"
  PROVE  After(md, c, t, p, d) \/ (Mapped(c, d) /\ (Spawning(md, c, t, p, d) \/ Waiting(md, c, t, p, d)))
  <1>1. ~Quiet(md, c, t, p, d)
    BY DEF Quiet
  <1>2. CASE Starting(md, c, t, p, d)
    BY <1>2, StartingStep
  <1>3. CASE Truncating(md, c, t, p, d)
    BY <1>3, TruncatingStep
  <1>4. CASE Appending(md, c, t, p, d)
    BY <1>4, AppendingStep
  <1>5. CASE Ending(md, c, t, p, d)
    BY <1>5, EndingStep
  <1>6. CASE Flushing(md, c, t, p, d)
    <2>1. Mapped(c, d) /\ (Serial(md, c, t, p, d) \/ Spawning(md, c, t, p, d) \/ Waiting(md, c, t, p, d))
      BY <1>6 DEF Flushing, Created, Locked
    <2>2. CASE Serial(md, c, t, p, d)
      BY <2>1, <2>2, SerialStep
    <2> QED
      BY <2>1, <2>2
  <1> QED
    BY <1>1, <1>2, <1>3, <1>4, <1>5, <1>6 DEF Stage

(* While the thread runs, the call is over or waits for it.                 *)
LEMMA ThreadRuns ==
  ASSUME NEW md, NEW c, NEW t, NEW p, NEW d, Stage(md, c, t, p, d), p.state # "none"
  PROVE  /\ Mapped(c, d) /\ (Created(md, c, t, p, d) \/ Locked(md, c, t, p, d))
         /\ t # <<>> => Head(t).op = "wait"
         /\ t = <<>> => ~c.already_in_close
  <1>1. Mapped(c, d) /\ (Created(md, c, t, p, d) \/ Locked(md, c, t, p, d))
    BY DEF Stage, Quiet, Starting, Flushing, Serial, Spawning, Waiting, Truncating, Appending, Ending, InClose
  <1>2. Threads(md) /\ t = AfterFlush(md, c)
    BY <1>1 DEF Created, Locked
  <1>3. IsList(ToGeom(md, c))
    BY CloseClean, CleanIsList
  <1>4. ASSUME c.already_in_close PROVE t # <<>> /\ Head(t).op = "wait"
    <2>1. t = Then("wait", "", ToGeom(md, c))
      BY <1>2, <1>4 DEF AfterFlush, ToWait
    <2>2. t # <<>> /\ Head(t) = Op("wait", "")
      BY <1>3, <2>1, ThenList
    <2>3. Op("wait", "").op = "wait"
      BY DEF Op
    <2> QED
      BY <2>2, <2>3
  <1>5. ASSUME ~c.already_in_close PROVE t = <<>>
    BY <1>2, <1>5 DEF AfterFlush
  <1> QED
    BY <1>1, <1>4, <1>5

(* A thread is created only where a flush begins.                           *)
Spawns(t) == t # <<>> /\ Head(t).op = "spawn"
(* What has no flush in it creates none.                                    *)
LEMMA CleanSpawnsNot ==
  ASSUME NEW t, Clean(t)
  PROVE  ~Spawns(t)
  <1>1. PICK S : t \in Seq(S)
    BY DEF Clean, IsList
  <1>2. ASSUME t # <<>>, Head(t).op = "spawn" PROVE FALSE
    <2>1. 1 \in 1 .. Len(t) /\ Head(t) = t[1]
      BY <1>1, <1>2
    <2>2. t[1].op = "spawn"
      BY <1>2, <2>1
    <2>3. Queued(t)
      BY <2>1, <2>2 DEF Queued
    <2> QED
      BY <2>3 DEF Clean
  <1> QED
    BY <1>2 DEF Spawns

(* What starts with another operation creates no thread.                    *)
LEMMA ThenSpawnsNot ==
  ASSUME NEW op, NEW arg, NEW rest, IsList(rest), op # "spawn"
  PROVE  ~Spawns(Then(op, arg, rest))
  <1>1. Head(Then(op, arg, rest)) = Op(op, arg)
    BY ThenList
  <1>2. Op(op, arg).op = op
    BY DEF Op
  <1> QED
    BY <1>1, <1>2 DEF Spawns

(* A flush under way creates none.                                          *)
LEMMA FlushSpawnsNot ==
  ASSUME NEW c, NEW d, NEW t, NEW rest, IsList(rest), FlushLeft(c, d, t, rest)
  PROVE  ~Spawns(t)
  <1> DEFINE n == c.secnum
             more == ~c.already_in_close
  <1>1. PICK cur \in 0 .. c.curtime : ToDo(c, d.file, t, cur, rest)
    BY DEF FlushLeft
  <1>2. /\ IsList(ToHeader(cur, more, rest)) /\ IsList(ToTruncpos(n, cur, more, rest))
        /\ IsList(ToTag(n, cur, more, rest)) /\ IsList(ToLength(n, cur, more, rest))
    BY FlushQueued
  <1>3. /\ "header" # "spawn" /\ "section_header_truncpos" # "spawn" /\ "tag" # "spawn"
        /\ "length" # "spawn" /\ "body" # "spawn"
    OBVIOUS
  <1>4. /\ ~Spawns(ToTruncpos(n, cur, more, rest)) /\ ~Spawns(ToTag(n, cur, more, rest))
        /\ ~Spawns(ToLength(n, cur, more, rest)) /\ ~Spawns(ToBody(n, cur, more, rest))
    BY <1>2, <1>3, ThenSpawnsNot, Zenon DEF ToTruncpos, ToTag, ToLength, ToBody
  <1>5. more => ~Spawns(ToHeader(cur, more, rest))
    BY <1>3, ThenSpawnsNot DEF ToHeader
  <1> HIDE DEF more, n
  <1> QED
    BY <1>1, <1>4, <1>5 DEF ToDo, more, n

(* A thread is created only where no other runs.                            *)
LEMMA SpawnsOnce ==
  ASSUME NEW md, NEW c, NEW t, NEW p, NEW d, Stage(md, c, t, p, d), Spawns(t), p.state = "none"
  PROVE  Mapped(c, d) /\ Spawning(md, c, t, p, d)
  <1>1. ~Quiet(md, c, t, p, d)
    BY DEF Quiet, Spawns
  <1>2. ~Starting(md, c, t, p, d)
    <2>1. IsList(ToMapTimes(md, c)) /\ IsList(AfterMapping(md, c)) /\ IsList(AfterHeader(md, c))
      BY MappingLists
    <2>2. "header" # "spawn" /\ "times" # "spawn" /\ "flush_hier" # "spawn"
      OBVIOUS
    <2>3. ~Spawns(ToMapping(md, c)) /\ ~Spawns(ToMapTimes(md, c))
      BY <2>1, <2>2, ThenSpawnsNot DEF ToMapping, ToMapTimes
    <2>4. ~c.is_initial_time => ~Spawns(AfterMapping(md, c))
      BY <2>1, <2>2, ThenSpawnsNot DEF AfterMapping
    <2> QED
      BY <2>3, <2>4 DEF Starting
  <1>3. ~Truncating(md, c, t, p, d)
    <2>1. IsList(ToGeom(md, c)) /\ "truncate" # "spawn"
      BY CloseClean, CleanIsList
    <2>2. ~Spawns(Then("truncate", c.secnum, ToGeom(md, c)))
      BY <2>1, ThenSpawnsNot
    <2> QED
      BY <2>2 DEF Truncating
  <1>4. /\ ~Clean(t) /\ Clean(<<>>)
    BY CleanSpawnsNot, EmptyClean
  <1>5. ~Appending(md, c, t, p, d)
    <2>1. ASSUME Appending(md, c, t, p, d) PROVE FALSE
      <3>1. t \in {ToGeom(md, c), ToTagGeom(md, c), ToBlackouts(md, c), ToMeasureBlackouts(md, c),
                   ToTagBlackouts(md, c), ToHier(md, c), ToSpill(md, c), ToPack(md, c), ToMeasureHier(md, c),
                   ToTagHier(md, c), ToUnlinkHier(md, c)}
        BY <2>1 DEF Appending, AtGeom, AtBlackouts, AtHier
      <3> QED
        BY <1>4, <3>1, CloseClean
    <2> QED
      BY <2>1
  <1>6. ~Ending(md, c, t, p, d)
    <2>1. ASSUME Ending(md, c, t, p, d) PROVE FALSE
      <3>1. t \in {ToTimes(md, c), ToFlushHier(md, c), ToRepack(md), ToPakDone, ToUnlink, ToRename, ToClosed, <<>>}
        BY <2>1 DEF Ending
      <3> QED
        BY <1>4, <3>1, CloseClean
    <2> QED
      BY <2>1
  <1>7. Flushing(md, c, t, p, d)
    BY <1>1, <1>2, <1>3, <1>5, <1>6 DEF Stage
  <1>8. IsList(AfterFlush(md, c))
    BY CloseClean, CleanIsList
  <1>9. ~Serial(md, c, t, p, d)
    BY <1>8, FlushSpawnsNot DEF Serial
  <1>10. ~Waiting(md, c, t, p, d)
    <2>1. Clean(ToWait(md, c))
      BY CloseClean
    <2> QED
      BY <1>4, <2>1 DEF Waiting
  <1> QED
    BY <1>7, <1>9, <1>10 DEF Flushing, Created, Locked

----------------------------------------------------------------------------
(* The calls of the simulator.                                              *)

(* Between two calls: nothing is left to write, or a thread writes it.      *)
LEMMA IdleStage ==
  ASSUME NEW md, NEW c, NEW p, NEW d, Base(c, d), Stage(md, c, <<>>, p, d), ~c.already_in_close
  PROVE  \/ Quiet(md, c, <<>>, p, d)
         \/ Mapped(c, d) /\ p.state # "none" /\ (Created(md, c, <<>>, p, d) \/ Locked(md, c, <<>>, p, d))
  <1>1. ~Starting(md, c, <<>>, p, d)
    <2>1. ASSUME Starting(md, c, <<>>, p, d) PROVE FALSE
      <3>1. <<>> # <<>>
        BY <2>1, StartingStep
      <3> QED
        BY <3>1
    <2> QED
      BY <2>1
  <1>2. ~Truncating(md, c, <<>>, p, d) /\ ~Appending(md, c, <<>>, p, d) /\ ~Ending(md, c, <<>>, p, d)
    BY DEF Truncating, Appending, Ending, InClose
  <1>3. ~Waiting(md, c, <<>>, p, d) /\ ~Spawning(md, c, <<>>, p, d)
    BY DEF Waiting, Spawning
  <1>4. ~(Mapped(c, d) /\ Serial(md, c, <<>>, p, d))
    <2>1. ASSUME Mapped(c, d), Serial(md, c, <<>>, p, d) PROVE FALSE
      <3>1. <<>> # <<>>
        BY <2>1, SerialStep
      <3> QED
        BY <3>1
    <2> QED
      BY <2>1
  <1> QED
    BY <1>1, <1>2, <1>3, <1>4 DEF Stage, Flushing, Created, Locked

(* Time passes, values change, blackouts are counted.                       *)
Later(c, k) ==
  /\ k \in Ctx /\ k.hier = c.hier /\ k.mapped = c.mapped /\ k.is_initial_time = c.is_initial_time
  /\ k.firsttime = c.firsttime /\ c.curtime <= k.curtime
  /\ k.section_header_only = c.section_header_only
  /\ k.section_header_truncpos = c.section_header_truncpos /\ k.section_start = c.section_start
  /\ k.secnum = c.secnum /\ k.already_in_close = c.already_in_close /\ k.closed = c.closed
(* The sections stay what they are.                                         *)
LEMMA BegunLater ==
  ASSUME NEW c \in Ctx, NEW k \in Ctx, k.firsttime = c.firsttime, c.curtime <= k.curtime,
         NEW f \in Seq(Blocks), NEW m \in Nat
  PROVE  /\ Sections(c, f, m) => Sections(k, f, m)
         /\ \A data : Begun(c, f, m, data) => Begun(k, f, m, data)
         /\ Upto(k, f, m) = Upto(c, f, m)
  <1>1. Upto(k, f, m) = Upto(c, f, m)
    BY DEF Upto
  <1>2. ASSUME Sections(c, f, m) PROVE Sections(k, f, m)
    <2>1. Agree(f, f, m)
      BY <1>2 DEF Agree, Sections
    <2> QED
      BY <1>2, <2>1, SectionsKept
  <1>3. ASSUME NEW data, Begun(c, f, m, data) PROVE Begun(k, f, m, data)
    BY <1>1, <1>2, <1>3 DEF Begun
  <1> QED
    BY <1>1, <1>2, <1>3

(* Nothing but time passes.                                                 *)
LEMMA LaterStage ==
  ASSUME NEW md, NEW c, NEW k, NEW p, NEW d, Base(c, d), Stage(md, c, <<>>, p, d), ~c.already_in_close,
         Later(c, k), CtxInv(k)
  PROVE  Base(k, d) /\ Stage(md, k, <<>>, p, d)
  <1>1. /\ k.hier = c.hier /\ k.mapped = c.mapped /\ k.is_initial_time = c.is_initial_time
        /\ k.firsttime = c.firsttime /\ c.curtime <= k.curtime
        /\ k.section_header_only = c.section_header_only
        /\ k.section_header_truncpos = c.section_header_truncpos /\ k.section_start = c.section_start
        /\ k.secnum = c.secnum /\ k.already_in_close = c.already_in_close /\ k.closed = c.closed
        /\ k \in Ctx
    BY DEF Later
  <1>2. c \in Ctx /\ d \in Disk /\ d.file \in Seq(Blocks) /\ c.secnum \in Nat /\ c.curtime \in Nat /\ k.curtime \in Nat
    BY <1>1 DEF Base, Ctx, Disk
  <1>3. Base(k, d)
    BY <1>1, <1>2 DEF Base, Places, Spilled
  <1>4. ASSUME Quiet(md, c, <<>>, p, d) PROVE Quiet(md, k, <<>>, p, d)
    <2>1. Resting(md, c, d) /\ Untouched(c, d)
      BY <1>4 DEF Quiet
    <2>2. Begun(c, d.file, c.secnum, 0) => Begun(k, d.file, k.secnum, 0)
      BY <1>1, <1>2, BegunLater
    <2>3. Resting(md, k, d)
      BY <1>1, <2>1, <2>2 DEF Resting, At
    <2> QED
      BY <1>1, <1>4, <2>3 DEF Quiet, Untouched, HierFlushed
  <1>5. ASSUME Mapped(c, d), Created(md, c, <<>>, p, d) \/ Locked(md, c, <<>>, p, d)
        PROVE  Flushing(md, k, <<>>, p, d)
    <2> DEFINE n == c.secnum
               f == d.file
    <2>1. n - 1 \in Nat /\ n \in Nat
      BY <1>2, <1>5 DEF Mapped
    <2>2. Mapped(k, d)
      BY <1>1, <1>5 DEF Mapped, Untouched, HierFlushed
    <2>3. AfterFlush(md, k) = <<>> /\ AfterFlush(md, c) = <<>>
      BY <1>1 DEF AfterFlush
    <2>4. /\ \A data : Begun(c, f, n - 1, data) => Begun(k, f, n - 1, data)
          /\ Begun(c, f, n, 0) => Begun(k, f, n, 0)
          /\ Sections(c, f, n - 1) => Sections(k, f, n - 1)
          /\ Sections(c, f, n) => Sections(k, f, n)
          /\ Upto(k, f, n - 1) = Upto(c, f, n - 1)
      BY <1>1, <1>2, <2>1, BegunLater
    <2>5. \A cur : /\ Sized(c, f, n, cur) => Sized(k, f, n, cur)
                   /\ Complete(c, f, n, cur) => Complete(k, f, n, cur)
      BY <2>4 DEF Sized, Complete
    <2>6. \A cur : cur \in 0 .. c.curtime => cur \in 0 .. k.curtime
      BY <1>1, <1>2
    <2>7. \A a, b : At(c, a, b) => At(k, a, b)
      BY <1>1 DEF At
    <2> HIDE DEF f, n
    <2>8. k.secnum = n /\ c.secnum = n /\ d.file = f
      BY <1>1 DEF n, f
    <2>9. \A todo : Unbegun(c, d, todo) => Unbegun(k, d, todo)
      BY <1>1, <2>4, <2>6, <2>7, <2>8 DEF Unbegun
    <2>10. \A todo, cur : ToDo(c, f, todo, cur, <<>>) => ToDo(k, f, todo, cur, <<>>)
      BY <1>1, <2>4, <2>5, <2>7, <2>8 DEF ToDo
    <2>11. \A todo : FlushLeft(c, d, todo, <<>>) => FlushLeft(k, d, todo, <<>>)
      BY <2>4, <2>6, <2>8, <2>10 DEF FlushLeft
    <2>12. Flushed(md, c, d) => Flushed(md, k, d)
      BY <1>1, <2>4, <2>7, <2>8 DEF Flushed
    <2>13. Created(md, k, <<>>, p, d) \/ Locked(md, k, <<>>, p, d)
      BY <1>5, <2>3, <2>9, <2>11, <2>12 DEF Created, Locked
    <2> QED
      BY <2>2, <2>13 DEF Flushing
  <1> QED
    BY <1>3, <1>4, <1>5, IdleStage DEF Stage

(* A flush begins.                                                          *)
Numbered(c, k) ==
  /\ k \in Ctx /\ k.hier = c.hier /\ k.mapped /\ ~k.is_initial_time
  /\ k.firsttime = c.firsttime /\ c.curtime <= k.curtime /\ ~k.changed
  /\ k.section_header_truncpos = c.section_header_truncpos /\ k.section_start = c.section_start
  /\ k.secnum = c.secnum + 1 /\ k.closed = c.closed
(* What is between two calls becomes the first stage of a flush.            *)
LEMMA FlushBegins ==
  ASSUME NEW md, NEW c, NEW k, NEW p, NEW d, Base(c, d), Quiet(md, c, <<>>, p, d),
         c.changed, c.mapped, ~c.is_initial_time, Numbered(c, k)
  PROVE  Base(k, d) /\ Stage(md, k, ToFlush(md, k, c.curtime), p, d)
  <1>1. /\ k \in Ctx /\ k.hier = c.hier /\ k.mapped /\ ~k.is_initial_time
        /\ k.firsttime = c.firsttime /\ c.curtime <= k.curtime /\ ~k.changed
        /\ k.section_header_truncpos = c.section_header_truncpos /\ k.section_start = c.section_start
        /\ k.secnum = c.secnum + 1 /\ k.closed = c.closed
    BY DEF Numbered
  <1>2. /\ c \in Ctx /\ d \in Disk /\ d.file \in Seq(Blocks) /\ c.secnum \in Nat /\ c.curtime \in Nat
        /\ k.curtime \in Nat /\ CtxInv(c) /\ c.firsttime \in Nat
    BY <1>1 DEF Base, Ctx, Disk
  <1>3. p.state = "none" /\ Untouched(c, d) /\ HierFlushed(c, d) /\ Begun(c, d.file, c.secnum, 0)
        /\ At(c, c.secnum + 1, c.secnum)
    BY DEF Quiet, Resting
  <1>4. k.secnum - 1 = c.secnum /\ k.secnum > 0
    BY <1>1, <1>2
  <1>5. CtxInv(k)
    <2>1. Handles(k) = Handles(c)
      BY <1>1 DEF Handles
    <2>2. k.firsttime <= k.curtime
      BY <1>1, <1>2 DEF CtxInv
    <2> QED
      BY <1>1, <1>2, <2>1, <2>2 DEF CtxInv
  <1>6. Base(k, d)
    BY <1>1, <1>2, <1>5 DEF Base, Places, Spilled
  <1>7. Mapped(k, d)
    BY <1>1, <1>3, <1>4 DEF Mapped, Untouched, HierFlushed
  <1>8. Begun(k, d.file, k.secnum - 1, 0) /\ Upto(k, d.file, k.secnum - 1) = Upto(c, d.file, c.secnum)
    BY <1>1, <1>2, <1>3, <1>4, BegunLater
  <1>9. At(k, k.secnum, k.secnum - 1)
    BY <1>1, <1>3, <1>4 DEF At
  <1> DEFINE cur == c.curtime
  <1>10. cur \in 0 .. k.curtime /\ cur >= Upto(k, d.file, k.secnum - 1)
    <2>1. Sections(c, d.file, c.secnum)
      BY <1>3 DEF Begun
    <2>2. Upto(c, d.file, c.secnum) \in 0 .. c.curtime
      BY <1>2, <2>1, SectionsUpto
    <2> QED
      BY <1>1, <1>2, <1>8, <2>2
  <1> HIDE DEF cur
  <1>11. ASSUME Threads(md) PROVE Stage(md, k, ToFlush(md, k, cur), p, d)
    <2> DEFINE todo == ToBody(k.secnum, cur, ~k.already_in_close, <<>>)
               r == ToFlush(md, k, cur)
    <2>1. Unbegun(k, d, todo)
      BY <1>8, <1>9, <1>10 DEF Unbegun
    <2>2. r = Then("spawn", todo, AfterFlush(md, k))
      BY <1>11 DEF ToFlush
    <2>3. IsList(AfterFlush(md, k))
      BY CloseClean, CleanIsList
    <2> HIDE DEF todo, r
    <2>4. r # <<>> /\ Head(r) = Op("spawn", todo)
      BY <2>2, <2>3, ThenList
    <2>5. Head(r).arg = todo
      BY <2>4 DEF Op
    <2>6. Spawning(md, k, r, p, d)
      BY <1>3, <1>11, <2>1, <2>2, <2>4, <2>5 DEF Spawning
    <2> QED
      BY <1>7, <2>6 DEF Stage, Flushing, r
  <1>12. ASSUME ~Threads(md) PROVE Stage(md, k, ToFlush(md, k, cur), p, d)
    <2> DEFINE r == ToFlush(md, k, cur)
    <2>1. r = ToBody(k.secnum, cur, ~k.already_in_close, AfterFlush(md, k))
      BY <1>12 DEF ToFlush
    <2> HIDE DEF r
    <2>2. FlushLeft(k, d, r, AfterFlush(md, k))
      BY <1>8, <1>9, <1>10, <2>1 DEF FlushLeft, ToDo
    <2>3. Serial(md, k, r, p, d)
      BY <1>3, <1>12, <2>2 DEF Serial
    <2> QED
      BY <1>7, <2>3 DEF Stage, Flushing, r
  <1> QED
    BY <1>6, <1>11, <1>12 DEF cur

(* The operations of the calls, as the lists above.                         *)
MapsBefore(h, a, b, rest) ==
  CreateMmaps(h, a, b) \o rest = Then("flush_hier", h, Then("times", <<a, b>>, rest))
(* A first mapping in front of a list.                                      *)
LEMMA MapThen ==
  ASSUME NEW h, NEW a, NEW b, NEW rest, IsList(rest)
  PROVE  MapsBefore(h, a, b, rest)
  <1> DEFINE v == Op("flush_hier", h)
             w == Op("times", <<a, b>>)
  <1>1. Unfolds2(<< v, w >>, v, w, rest)
    BY TwoThen
  <1> HIDE DEF v, w
  <1>2. << v, w >> \o rest = << v >> \o (<< w >> \o rest)
    BY <1>1 DEF Unfolds2
  <1>3. CreateMmaps(h, a, b) = << v, w >>
    BY DEF CreateMmaps, v, w
  <1> QED
    BY <1>2, <1>3 DEF MapsBefore, Then, v, w

(* The operations of a first mapping are a list.                            *)
LEMMA MapIsList ==
  ASSUME NEW h, NEW a, NEW b, NEW s
  PROVE  /\ CreateMmaps(h, a, b) \o <<>> = CreateMmaps(h, a, b) /\ IsList(CreateMmaps(h, a, b))
         /\ EmitSectionHeader(s) \o <<>> = EmitSectionHeader(s) /\ IsList(EmitSectionHeader(s))
  <1>1. IsList(<<>>) /\ IsList(CreateMmaps(h, a, b)) /\ IsList(EmitSectionHeader(s))
    BY TupleLists DEF CreateMmaps, EmitSectionHeader
  <1> QED
    BY <1>1, ListsConcat

(* The header of a section in front of a list.                              *)
LEMMA HeaderThen ==
  ASSUME NEW b, NEW rest
  PROVE  EmitSectionHeader(b) \o rest = Then("header", b, rest)
  BY DEF EmitSectionHeader, Then

(* A call that maps, or begins a section, or both.                          *)
LEMMA MapsOnly ==
  ASSUME NEW md, NEW k, k.is_initial_time
  PROVE  CreateMmaps(k.hier, 0, 0) = ToMapping(md, k)
  <1> DEFINE r == AfterMapping(md, k)
  <1>1. IsList(r)
    BY MappingLists
  <1>2. r = <<>>
    BY DEF AfterMapping
  <1> HIDE DEF r
  <1>3. MapsBefore(k.hier, 0, 0, r)
    BY <1>1, MapThen
  <1>4. CreateMmaps(k.hier, 0, 0) \o r = CreateMmaps(k.hier, 0, 0)
    BY <1>2, MapIsList
  <1> QED
    BY <1>3, <1>4 DEF MapsBefore, ToMapping, ToMapTimes, r

(* The first mapping, unless it was done, and the first header.             *)
LEMMA MapsAndBegins ==
  ASSUME NEW md, NEW k, ~k.is_initial_time, NEW mapped \in BOOLEAN
  PROVE  (IF mapped THEN <<>> ELSE CreateMmaps(k.hier, 0, 0))
         \o (EmitSectionHeader(k.firsttime) \o AfterHeader(md, k))
           = IF mapped THEN AfterMapping(md, k) ELSE ToMapping(md, k)
  <1> DEFINE r == EmitSectionHeader(k.firsttime) \o AfterHeader(md, k)
  <1>1. r = AfterMapping(md, k)
    BY HeaderThen DEF AfterMapping
  <1>2. IsList(AfterMapping(md, k)) /\ IsList(<<>>)
    BY MappingLists, EmptyClean, CleanIsList
  <1> HIDE DEF r
  <1>3. CASE mapped
    <2>1. <<>> \o r = r
      BY <1>1, <1>2, ListsConcat
    <2> QED
      BY <1>1, <1>3, <2>1 DEF r
  <1>4. CASE ~mapped
    <2>1. MapsBefore(k.hier, 0, 0, r)
      BY <1>1, <1>2, MapThen
    <2>2. CreateMmaps(k.hier, 0, 0) \o r = ToMapping(md, k)
      BY <1>1, <2>1 DEF MapsBefore, ToMapping, ToMapTimes
    <2> QED
      BY <1>4, <2>2 DEF r
  <1> QED
    BY <1>3, <1>4

(* The flush of a time change, and the one of close.                        *)
LEMMA TimeFlush ==
  ASSUME NEW k, ~k.already_in_close, NEW cur, NEW n, k.secnum = n
  PROVE  /\ ~Parallel => Flush(n, n, cur, TRUE) = ToFlush(mode, k, cur)
         /\ Parallel => << Op("spawn", Flush(n, n, cur, TRUE)) >> = ToFlush(mode, k, cur)
  <1> DEFINE more == ~k.already_in_close
  <1>1. more \in BOOLEAN /\ more
    OBVIOUS
  <1>2. Flush(n, n, cur, TRUE) = Flush(n, n, cur, more)
    BY <1>1 DEF Flush
  <1> HIDE DEF more
  <1>3. Flush(n, n, cur, more) = ToBody(n, cur, more, <<>>)
    BY <1>1, FlushAlone
  <1>4. AfterFlush(mode, k) = <<>>
    BY DEF AfterFlush
  <1> DEFINE b == ToBody(n, cur, more, <<>>)
  <1>5. b = ToBody(k.secnum, cur, ~k.already_in_close, <<>>)
    BY DEF more
  <1>6. Flush(n, n, cur, TRUE) = b
    BY <1>2, <1>3
  <1> HIDE DEF b
  <1>7. ASSUME Parallel PROVE << Op("spawn", b) >> = ToFlush(mode, k, cur)
    <2>1. ToFlush(mode, k, cur) = Then("spawn", b, <<>>)
      BY <1>4, <1>5, <1>7 DEF ToFlush, Threads, Parallel
    <2>2. << Op("spawn", b) >> \o <<>> = << Op("spawn", b) >>
      OBVIOUS
    <2> QED
      BY <2>1, <2>2 DEF Then
  <1>8. ASSUME ~Parallel PROVE b = ToFlush(mode, k, cur)
    BY <1>4, <1>5, <1>8 DEF ToFlush, Threads, Parallel
  <1> QED
    BY <1>6, <1>7, <1>8

(* The flush of close.                                                      *)
LEMMA CloseFlushes ==
  ASSUME NEW k, k.already_in_close, NEW cur, NEW n, k.secnum = n
  PROVE  FlushOfClose(n, n, cur) \o ToGeom(mode, k) = ToFlush(mode, k, cur)
  <1> DEFINE more == ~k.already_in_close
             g == ToGeom(mode, k)
  <1>1. more \in BOOLEAN /\ ~more
    OBVIOUS
  <1>2. Flush(n, n, cur, FALSE) = Flush(n, n, cur, more)
    BY <1>1 DEF Flush
  <1>3. IsList(g)
    BY CloseClean, CleanIsList
  <1> HIDE DEF more, g
  <1>4. Flush(n, n, cur, more) \o g = ToBody(n, cur, more, g) /\ Flush(n, n, cur, more) = ToBody(n, cur, more, <<>>)
    BY <1>1, <1>3, FlushIsToBody, FlushAlone
  <1> DEFINE b == ToBody(n, cur, more, <<>>)
  <1>5. b = ToBody(k.secnum, cur, ~k.already_in_close, <<>>)
    BY DEF more
  <1>6. Flush(n, n, cur, FALSE) = b
    BY <1>2, <1>4
  <1> HIDE DEF b
  <1>7. ASSUME Parallel PROVE FlushOfClose(n, n, cur) \o g = ToFlush(mode, k, cur)
    <2>1. ToFlush(mode, k, cur) = Then("spawn", b, AfterFlush(mode, k))
      BY <1>5, <1>7 DEF ToFlush, Threads, Parallel
    <2>2. AfterFlush(mode, k) = Then("wait", "", g)
      BY <1>7 DEF AfterFlush, ToWait, Threads, Parallel, g
    <2> DEFINE v == Op("spawn", b)
               w == Op("wait", "")
    <2>3. Unfolds2(<< v, w >>, v, w, g)
      BY <1>3, TwoThen
    <2> HIDE DEF v, w
    <2>4. << v, w >> \o g = << v >> \o (<< w >> \o g)
      BY <2>3 DEF Unfolds2
    <2>5. FlushOfClose(n, n, cur) = << v, w >>
      BY <1>6, <1>7 DEF FlushOfClose, v, w
    <2> QED
      BY <2>1, <2>2, <2>4, <2>5 DEF Then, v, w
  <1>8. ASSUME ~Parallel PROVE FlushOfClose(n, n, cur) \o g = ToFlush(mode, k, cur)
    <2>1. AfterFlush(mode, k) = g
      BY <1>8 DEF AfterFlush, Threads, Parallel, g
    <2>2. ToFlush(mode, k, cur) = ToBody(n, cur, more, g)
      BY <1>8, <2>1 DEF ToFlush, Threads, Parallel, more
    <2>3. FlushOfClose(n, n, cur) = Flush(n, n, cur, more)
      BY <1>2, <1>8 DEF FlushOfClose
    <2> QED
      BY <1>4, <2>2, <2>3
  <1> QED
    BY <1>7, <1>8 DEF g

(* It is a list.                                                            *)
LEMMA FlushOfCloseIsList ==
  ASSUME NEW n, NEW cur
  PROVE  IsList(FlushOfClose(n, n, cur))
  <1>1. IsList(<< Op("body", n), Op("length", <<n, cur>>), Op("tag", <<n, "vc">>), Op("section_header_truncpos", n) >>)
        /\ IsList(<<>>)
    BY TupleLists
  <1>2. IsList(Flush(n, n, cur, FALSE))
    BY <1>1, ListOfConcat DEF Flush
  <1> QED
    BY <1>2, TupleLists DEF FlushOfClose

(* Close before the first time: mapping, header, flush.                     *)
LEMMA CloseStarts ==
  ASSUME NEW k, k.already_in_close, ~k.is_initial_time, k.firsttime = 0, k.curtime = 0,
         k.secnum = IF Handles(k) = 0 THEN 0 ELSE 1, NEW mapped \in BOOLEAN
  PROVE  (IF mapped THEN <<>> ELSE CreateMmaps(k.hier, 0, 0)) \o EmitSectionHeader(0)
         \o (IF Handles(k) # 0 THEN FlushOfClose(1, 1, 0) ELSE <<>>)
         \o CloseRest(k.hier, k.blackouts, 0, 0)
           = IF mapped THEN AfterMapping(mode, k) ELSE ToMapping(mode, k)
  <1> DEFINE m == IF mapped THEN <<>> ELSE CreateMmaps(k.hier, 0, 0)
             h == EmitSectionHeader(k.firsttime)
             f == IF Handles(k) # 0 THEN FlushOfClose(1, 1, 0) ELSE <<>>
             g == ToGeom(mode, k)
  <1>1. CloseRest(k.hier, k.blackouts, 0, 0) = g
    BY CloseIsToGeom
  <1>2. f \o g = AfterHeader(mode, k)
    <2>1. IsList(g)
      BY CloseClean, CleanIsList
    <2>2. <<>> \o g = g
      BY <2>1, ListsConcat
    <2>3. CASE Handles(k) = 0
      BY <2>2, <2>3 DEF AfterHeader
    <2>4. CASE Handles(k) # 0
      <3>1. k.secnum = 1
        BY <2>4
      <3>2. FlushOfClose(1, 1, 0) \o g = ToFlush(mode, k, 0)
        BY <3>1, CloseFlushes
      <3> QED
        BY <2>4, <3>1, <3>2 DEF AfterHeader
    <2> QED
      BY <2>3, <2>4
  <1>3. IsList(m) /\ IsList(h) /\ IsList(f) /\ IsList(g)
    BY MapIsList, FlushOfCloseIsList, EmptyClean, CleanIsList, CloseClean
  <1>4. m \o (h \o AfterHeader(mode, k)) = IF mapped THEN AfterMapping(mode, k) ELSE ToMapping(mode, k)
    BY MapsAndBegins
  <1>5. EmitSectionHeader(0) = h
    OBVIOUS
  <1> HIDE DEF m, h, f, g
  <1>6. ((m \o h) \o f) \o g = m \o (h \o (f \o g))
    <2>1. IsList(m \o h) /\ IsList(f \o g)
      BY <1>3, ListOfConcat
    <2>2. ((m \o h) \o f) \o g = (m \o h) \o (f \o g)
      BY <1>3, <2>1, ListsConcat
    <2>3. (m \o h) \o (f \o g) = m \o (h \o (f \o g))
      BY <1>3, <2>1, ListsConcat
    <2> QED
      BY <2>2, <2>3
  <1>7. ((m \o h) \o f) \o g = IF mapped THEN AfterMapping(mode, k) ELSE ToMapping(mode, k)
    BY <1>2, <1>4, <1>6
  <1> QED
    BY <1>1, <1>5, <1>7 DEF m, f

(* A record of the hierarchy is declared before the first mapping.          *)
LEMMA DeclareKeeps ==
  ASSUME IInv, NEW record \in Records, Declare(record), "late" \notin Usage
  PROVE  Base(xc', disk') /\ Stage(mode', xc', main', flusher', disk')
  <1>0. PICK c, d, p, m : c = xc /\ d = disk /\ p = flusher /\ m = mode
    OBVIOUS
  <1>1. Base(c, d) /\ Stage(m, c, <<>>, p, d) /\ ~c.already_in_close /\ ~c.mapped
    BY <1>0 DEF IInv, Declare, Idle
  <1>2. PICK k : k = [c EXCEPT !.hier = Append(c.hier, record), !.mapped = FALSE]
    OBVIOUS
  <1>3. disk' = d /\ main' = <<>> /\ flusher' = p /\ mode' = m /\ xc' = k
    BY <1>0, <1>1, <1>2 DEF Declare, Idle
  <1>4. c \in Ctx /\ d \in Disk /\ c.hier \in Seq(Records) /\ CtxInv(c) /\ Spilled(c, d) /\ Len(d.hier) \in Nat
        /\ d.hier \in Seq(Records)
    BY <1>1 DEF Base, Ctx, Disk
  <1>5. c.is_initial_time /\ c.firsttime = 0 /\ c.curtime = 0 /\ c.secnum = 0 /\ ~c.changed
    BY <1>1, <1>4 DEF CtxInv
  <1>6. Quiet(m, c, <<>>, p, d)
    BY <1>1, <1>5, IdleStage DEF Mapped
  <1>7. Append(c.hier, record) \in Seq(Records) /\ Len(Append(c.hier, record)) = Len(c.hier) + 1
        /\ \A i \in 1 .. Len(c.hier) : Append(c.hier, record)[i] = c.hier[i]
    <2> HIDE DEF Records
    <2> QED
      BY <1>4
  <1> DEFINE g == Append(c.hier, record)
  <1>8. k \in Ctx /\ k.hier = g /\ k.is_initial_time /\ k.firsttime = 0 /\ k.curtime = 0 /\ k.secnum = 0
        /\ ~k.changed /\ ~k.mapped /\ k.section_start = c.section_start
        /\ k.section_header_truncpos = c.section_header_truncpos
        /\ ~k.already_in_close /\ (k.closed <=> c.closed)
    BY <1>1, <1>2, <1>4, <1>5, <1>7 DEF Ctx
  <1> HIDE DEF g
  <1>9. Spilled(k, d)
    <2>1. Len(d.hier) <= Len(c.hier) /\ d.hier = SubSeq(c.hier, 1, Len(d.hier)) /\ Len(c.hier) \in Nat
      BY <1>4 DEF Spilled
    <2>2. g \in Seq(Records) /\ Len(g) = Len(c.hier) + 1 /\ \A i \in 1 .. Len(c.hier) : g[i] = c.hier[i]
      BY <1>7 DEF g
    <2>3. Len(d.hier) <= Len(g)
      BY <1>4, <2>1, <2>2
    <2>4. SubSeq(g, 1, Len(d.hier)) = SubSeq(c.hier, 1, Len(d.hier))
      BY <1>4, <2>1, <2>2
    <2> QED
      BY <1>8, <2>1, <2>3, <2>4 DEF Spilled
  <1>10. Base(k, d)
    BY <1>1, <1>4, <1>8, <1>9 DEF Base, CtxInv, Places
  <1>11. Quiet(m, k, <<>>, p, d)
    BY <1>5, <1>6, <1>8 DEF Quiet, Untouched, Resting, At
  <1> QED
    BY <1>3, <1>10, <1>11 DEF Stage

(* stdio spills the hierarchy: only before the first mapping has it any.    *)
LEMMA SpillKeeps ==
  ASSUME IInv, SpillHier
  PROVE  Base(xc', disk') /\ Stage(mode', xc', main', flusher', disk')
  <1>0. PICK c, d, p, m : c = xc /\ d = disk /\ p = flusher /\ m = mode
    OBVIOUS
  <1>1. Base(c, d) /\ Stage(m, c, <<>>, p, d) /\ ~c.already_in_close
    BY <1>0 DEF IInv, SpillHier, Idle
  <1>2. PICK n \in Len(d.hier) .. Len(c.hier), cut \in BOOLEAN :
          /\ cut => n < Len(c.hier)
          /\ n > Len(d.hier) \/ (cut /\ ~d.cut)
          /\ disk' = [d EXCEPT !.hier = SubSeq(c.hier, 1, n), !.cut = cut]
    BY <1>0 DEF SpillHier
  <1>3. PICK e : e = [d EXCEPT !.hier = SubSeq(c.hier, 1, n), !.cut = cut]
    OBVIOUS
  <1>4. disk' = e /\ main' = <<>> /\ flusher' = p /\ mode' = m /\ xc' = c
    BY <1>0, <1>2, <1>3 DEF SpillHier, Idle
  <1>5. c \in Ctx /\ d \in Disk /\ c.hier \in Seq(Records) /\ CtxInv(c) /\ Len(d.hier) \in Nat
        /\ Len(c.hier) \in Nat
    BY <1>1 DEF Base, Ctx, Disk
  <1>6. ~HierFlushed(c, d)
    BY <1>2, <1>5 DEF HierFlushed
  <1>7. Quiet(m, c, <<>>, p, d)
    BY <1>1, <1>6, IdleStage DEF Mapped
  <1>8. ~c.mapped /\ c.is_initial_time
    BY <1>5, <1>6, <1>7 DEF Quiet, CtxInv
  <1> DEFINE h == SubSeq(c.hier, 1, n)
  <1>9. n \in Nat /\ n <= Len(c.hier) /\ h \in Seq(Records) /\ Len(h) = n
    <2>1. n \in Nat /\ n <= Len(c.hier)
      BY <1>2, <1>5
    <2> HIDE DEF Records
    <2> QED
      BY <1>5, <2>1
  <1>10. h = SubSeq(c.hier, 1, Len(h))
    BY <1>9
  <1> HIDE DEF h
  <1>11. e \in Disk /\ e.file = d.file /\ e.hier = h /\ e.start = d.start /\ e.end = d.end
         /\ e.hier_exists = d.hier_exists /\ e.named = d.named /\ e.pak = d.pak
    BY <1>3, <1>5, <1>9 DEF Disk, h
  <1>12. Base(c, e)
    BY <1>1, <1>9, <1>10, <1>11 DEF Base, Places, Spilled
  <1>13. Quiet(m, c, <<>>, p, e)
    BY <1>7, <1>8, <1>11 DEF Quiet, Untouched, Unnamed, Intact, Resting
  <1> QED
    BY <1>4, <1>12, <1>13 DEF Stage

(* fstWriterEmitDumpActive: another blackout.                               *)
LEMMA DumpActiveKeeps ==
  ASSUME IInv, EmitDumpActive
  PROVE  Base(xc', disk') /\ Stage(mode', xc', main', flusher', disk')
  <1>0. PICK c, d, p, m : c = xc /\ d = disk /\ p = flusher /\ m = mode
    OBVIOUS
  <1>1. Base(c, d) /\ Stage(m, c, <<>>, p, d) /\ ~c.already_in_close
    BY <1>0 DEF IInv, EmitDumpActive, Idle
  <1>2. PICK k : k = [c EXCEPT !.blackouts = c.blackouts + 1]
    OBVIOUS
  <1>3. disk' = d /\ main' = <<>> /\ flusher' = p /\ mode' = m /\ xc' = k
    BY <1>0, <1>2 DEF EmitDumpActive, Idle
  <1>4. c \in Ctx /\ CtxInv(c)
    BY <1>1 DEF Base
  <1>5. Later(c, k) /\ k.changed = c.changed
    BY <1>2, <1>4 DEF Later, Ctx
  <1>6. CtxInv(k)
    BY <1>2, <1>4, <1>5 DEF CtxInv, Handles, Later, Ctx
  <1> QED
    BY <1>1, <1>3, <1>5, <1>6, LaterStage

(* fstWriterEmitTimeChange without a flush.                                 *)
LEMMA PlainKeeps ==
  ASSUME IInv, NEW tim \in Nat, PlainTimeChange(tim)
  PROVE  Base(xc', disk') /\ Stage(mode', xc', main', flusher', disk')
  <1>0. PICK c, d, p, m : c = xc /\ d = disk /\ p = flusher /\ m = mode
    OBVIOUS
  <1>1. Base(c, d) /\ Stage(m, c, <<>>, p, d) /\ ~c.already_in_close /\ ~c.is_initial_time /\ tim > c.curtime
    BY <1>0 DEF IInv, PlainTimeChange, Idle
  <1>2. PICK k : k = [c EXCEPT !.curtime = tim]
    OBVIOUS
  <1>3. disk' = d /\ main' = <<>> /\ flusher' = p /\ mode' = m /\ xc' = k
    BY <1>0, <1>2 DEF PlainTimeChange, Idle
  <1>4. c \in Ctx /\ CtxInv(c) /\ c.curtime \in Nat /\ c.firsttime \in Nat
    BY <1>1 DEF Base, Ctx
  <1>5. Later(c, k) /\ k.changed = c.changed /\ k.curtime = tim
    BY <1>1, <1>2, <1>4 DEF Later, Ctx
  <1>6. CtxInv(k)
    BY <1>1, <1>4, <1>5 DEF CtxInv, Handles, Later
  <1> QED
    BY <1>1, <1>3, <1>5, <1>6, LaterStage

(* fstWriterEmitValueChange, which may map first.                           *)
LEMMA ValueKeeps ==
  ASSUME IInv, EmitValueChange
  PROVE  Base(xc', disk') /\ Stage(mode', xc', main', flusher', disk')
  <1>0. PICK c, d, p, m : c = xc /\ d = disk /\ p = flusher /\ m = mode
    OBVIOUS
  <1>1. /\ Base(c, d) /\ Stage(m, c, <<>>, p, d) /\ ~c.already_in_close /\ MaxHandleOf(c.hier) > 0
        /\ ~c.mapped \/ (~c.changed /\ ~c.is_initial_time)
    BY <1>0 DEF IInv, EmitValueChange, Idle
  <1>4. c \in Ctx /\ CtxInv(c) /\ c.firsttime \in Nat /\ c.curtime \in Nat /\ Handles(c) # 0
    <2>1. Handles(c) > 0
      BY <1>1 DEF Handles
    <2> QED
      BY <1>1, <2>1 DEF Base, Ctx
  <1>5. PICK a \in BOOLEAN, b \in BOOLEAN :
          /\ a = (c.vc_emitted \/ ~c.mapped)
          /\ b = (c.changed \/ ~c.is_initial_time)
    OBVIOUS
  <1>6. PICK k : k = [c EXCEPT !.mapped = TRUE, !.vc_emitted = a, !.changed = b]
    OBVIOUS
  <1>7. disk' = d /\ flusher' = p /\ mode' = m /\ xc' = k
        /\ main' = IF c.mapped THEN <<>> ELSE CreateMmaps(c.hier, c.firsttime, c.curtime)
    BY <1>0, <1>5, <1>6 DEF EmitValueChange, Idle
  <1>8. /\ k \in Ctx /\ k.hier = c.hier /\ k.mapped /\ k.is_initial_time = c.is_initial_time
        /\ k.firsttime = c.firsttime /\ k.curtime = c.curtime
        /\ k.section_header_only = c.section_header_only
        /\ k.section_header_truncpos = c.section_header_truncpos /\ k.section_start = c.section_start
        /\ k.secnum = c.secnum /\ k.already_in_close = c.already_in_close /\ k.closed = c.closed
        /\ k.changed = b
    BY <1>4, <1>6 DEF Ctx
  <1>9. CASE c.mapped
    <2>1. Later(c, k)
      BY <1>4, <1>8, <1>9 DEF Later, Ctx
    <2>2. CtxInv(k)
      BY <1>1, <1>4, <1>8, <1>9 DEF CtxInv, Handles
    <2> QED
      BY <1>1, <1>7, <1>9, <2>1, <2>2, LaterStage
  <1>10. CASE ~c.mapped
    <2>1. c.is_initial_time /\ c.firsttime = 0 /\ c.curtime = 0 /\ c.secnum = 0 /\ ~c.changed /\ ~b
      BY <1>4, <1>5, <1>10 DEF CtxInv
    <2>2. Quiet(m, c, <<>>, p, d)
      BY <1>1, <1>10, IdleStage DEF Mapped
    <2>3. CreateMmaps(k.hier, 0, 0) = ToMapping(m, k)
      BY <1>8, <2>1, MapsOnly
    <2>4. main' = ToMapping(m, k)
      BY <1>7, <1>8, <1>10, <2>1, <2>3
    <2>5. CtxInv(k)
      BY <1>8, <2>1 DEF CtxInv
    <2>6. Base(k, d)
      BY <1>1, <1>8, <2>5 DEF Base, Places, Spilled
    <2>7. Starting(m, k, ToMapping(m, k), p, d)
      BY <1>1, <1>8, <2>1, <2>2 DEF Quiet, Starting, Untouched, Resting, At
    <2> QED
      BY <1>7, <2>4, <2>6, <2>7 DEF Stage
  <1> QED
    BY <1>9, <1>10

(* The first time change maps, if nothing has, and begins a section.        *)
LEMMA FirstKeeps ==
  ASSUME IInv, NEW tim \in Nat, FirstTimeChange(tim)
  PROVE  Base(xc', disk') /\ Stage(mode', xc', main', flusher', disk')
  <1>0. PICK c, d, p, m : c = xc /\ d = disk /\ p = flusher /\ m = mode
    OBVIOUS
  <1>1. Base(c, d) /\ Stage(m, c, <<>>, p, d) /\ ~c.already_in_close /\ c.is_initial_time
    BY <1>0 DEF IInv, FirstTimeChange, Idle
  <1>2. c \in Ctx /\ CtxInv(c) /\ c.mapped \in BOOLEAN
    BY <1>1 DEF Base, Ctx
  <1>3. c.firsttime = 0 /\ c.curtime = 0 /\ c.secnum = 0 /\ ~c.changed
    BY <1>1, <1>2 DEF CtxInv
  <1>4. Quiet(m, c, <<>>, p, d)
    BY <1>1, IdleStage DEF Mapped
  <1>5. PICK first \in Nat : first = (IF c.vc_emitted THEN 0 ELSE tim) /\ first <= tim
    OBVIOUS
  <1>6. PICK k : k = [c EXCEPT !.mapped = TRUE, !.firsttime = first, !.curtime = tim,
                               !.is_initial_time = FALSE, !.changed = FALSE]
    OBVIOUS
  <1>7. disk' = d /\ flusher' = p /\ mode' = m /\ xc' = k
        /\ main' = (IF c.mapped THEN <<>> ELSE CreateMmaps(c.hier, 0, 0)) \o EmitSectionHeader(first)
    BY <1>0, <1>3, <1>5, <1>6 DEF FirstTimeChange, Idle
  <1>8. /\ k \in Ctx /\ k.hier = c.hier /\ k.mapped /\ ~k.is_initial_time
        /\ k.firsttime = first /\ k.curtime = tim /\ ~k.changed
        /\ k.section_header_truncpos = c.section_header_truncpos /\ k.section_start = c.section_start
        /\ k.secnum = 0 /\ ~k.already_in_close /\ k.closed = c.closed
    BY <1>1, <1>2, <1>3, <1>5, <1>6 DEF Ctx
  <1>9. main' = IF c.mapped THEN AfterMapping(m, k) ELSE ToMapping(m, k)
    <2>1. (IF c.mapped THEN <<>> ELSE CreateMmaps(k.hier, 0, 0)) \o (EmitSectionHeader(k.firsttime) \o AfterHeader(m, k))
            = IF c.mapped THEN AfterMapping(m, k) ELSE ToMapping(m, k)
      BY <1>2, <1>8, MapsAndBegins
    <2>2. AfterHeader(m, k) = <<>>
      BY <1>8 DEF AfterHeader
    <2>3. EmitSectionHeader(first) \o <<>> = EmitSectionHeader(first)
      BY MapIsList
    <2> QED
      BY <1>7, <1>8, <2>1, <2>2, <2>3
  <1>10. CtxInv(k)
    BY <1>5, <1>8 DEF CtxInv
  <1>11. Base(k, d)
    BY <1>1, <1>8, <1>10 DEF Base, Places, Spilled
  <1>12. /\ p.state = "none" /\ Untouched(k, d) /\ d.file = <<>> /\ At(k, 0, 0)
         /\ c.mapped => HierFlushed(k, d)
    BY <1>1, <1>4, <1>8 DEF Quiet, Untouched, Resting, At, HierFlushed
  <1>13. Starting(m, k, main', p, d)
    BY <1>8, <1>9, <1>12 DEF Starting
  <1> QED
    BY <1>7, <1>11, <1>13 DEF Stage

(* A time change that flushes, with and without threads.                    *)
LEMMA FlushTimeKeeps ==
  ASSUME IInv, NEW tim \in Nat, FlushTimeChange(tim) \/ ParallelTimeChange(tim), "hasty" \notin Usage
  PROVE  Base(xc', disk') /\ Stage(mode', xc', main', flusher', disk')
  <1>0. PICK c, d, p : c = xc /\ d = disk /\ p = flusher
    OBVIOUS
  <1>1. /\ Base(c, d) /\ Stage(mode, c, <<>>, p, d) /\ ~c.already_in_close /\ ~c.is_initial_time
        /\ tim > c.curtime /\ c.changed /\ c.mapped
    BY <1>0 DEF IInv, FlushTimeChange, ParallelTimeChange, Idle
  <1>2. c \in Ctx
    BY <1>1 DEF Base
  <1>3. p.state = "none" \/ ~Parallel
    BY <1>0 DEF ParallelTimeChange, FlushTimeChange, Patient
  <1>4. Quiet(mode, c, <<>>, p, d)
    BY <1>1, <1>3, IdleStage DEF Created, Locked, Threads, Parallel
  <1>5. PICK k : k = [c EXCEPT !.curtime = tim, !.secnum = c.secnum + 1, !.changed = FALSE,
                               !.section_header_only = FALSE]
    OBVIOUS
  <1>6. Numbered(c, k) /\ k.already_in_close = c.already_in_close
    <2>1. c.secnum \in Nat /\ c.secnum + 1 \in Nat /\ c.curtime \in Nat /\ c.curtime <= tim
      BY <1>1, <1>2 DEF Ctx
    <2>2. PICK n \in Nat : n = c.secnum + 1
      BY <2>1
    <2>3. k = [c EXCEPT !.curtime = tim, !.secnum = n, !.changed = FALSE, !.section_header_only = FALSE]
      BY <1>5, <2>2
    <2>4. /\ k \in Ctx /\ k.hier = c.hier /\ k.mapped = c.mapped /\ k.is_initial_time = c.is_initial_time
          /\ k.firsttime = c.firsttime /\ k.curtime = tim /\ ~k.changed
          /\ k.section_header_truncpos = c.section_header_truncpos /\ k.section_start = c.section_start
          /\ k.secnum = n /\ k.closed = c.closed /\ k.already_in_close = c.already_in_close
      BY <1>2, <2>3 DEF Ctx
    <2> QED
      BY <1>1, <2>1, <2>2, <2>4 DEF Numbered
  <1>7. Base(k, d) /\ Stage(mode, k, ToFlush(mode, k, c.curtime), p, d)
    BY <1>1, <1>4, <1>6, FlushBegins
  <1> DEFINE n == c.secnum + 1
  <1>8. k.secnum = n /\ c.section_start = n
    BY <1>1, <1>4, <1>6 DEF Numbered, Quiet, Resting, At
  <1>9. /\ ~Parallel => Flush(n, n, c.curtime, TRUE) = ToFlush(mode, k, c.curtime)
        /\ Parallel => << Op("spawn", Flush(n, n, c.curtime, TRUE)) >> = ToFlush(mode, k, c.curtime)
    BY <1>1, <1>6, <1>8, TimeFlush
  <1>10. disk' = d /\ flusher' = p /\ mode' = mode /\ xc' = k
    BY <1>0, <1>5 DEF FlushTimeChange, ParallelTimeChange
  <1>11. main' = ToFlush(mode, k, c.curtime)
    <2>1. CASE FlushTimeChange(tim)
      BY <1>0, <1>8, <1>9, <2>1 DEF FlushTimeChange
    <2>2. CASE ParallelTimeChange(tim)
      BY <1>0, <1>8, <1>9, <2>2 DEF ParallelTimeChange, Spawn
    <2> QED
      BY <2>1, <2>2
  <1> QED
    BY <1>7, <1>10, <1>11

(* Close begins with no thread running.                                     *)
LEMMA ClosesQuiet ==
  ASSUME IInv, BeginClose, "hasty" \notin Usage
  PROVE  Base(xc, disk) /\ Quiet(mode, xc, <<>>, flusher, disk) /\ flusher.state = "none"
  <1>1. flusher.state = "none"
    BY DEF BeginClose, Patient
  <1>2. Base(xc, disk) /\ Stage(mode, xc, <<>>, flusher, disk) /\ ~xc.already_in_close
    BY DEF IInv, BeginClose, Idle
  <1> QED
    BY <1>1, <1>2, IdleStage

(* What becomes of the context, but for a flush.                            *)
Closing(c, k) ==
  /\ k \in Ctx /\ k.hier = c.hier /\ k.mapped = c.mapped /\ k.is_initial_time = c.is_initial_time
  /\ k.firsttime = c.firsttime /\ k.curtime = c.curtime /\ k.changed = c.changed
  /\ k.section_header_only = c.section_header_only
  /\ k.section_header_truncpos = c.section_header_truncpos /\ k.section_start = c.section_start
  /\ k.secnum = c.secnum /\ k.blackouts = c.blackouts /\ k.already_in_close /\ k.closed = c.closed
(* The basic facts hold,                                                    *)
LEMMA ClosingBase ==
  ASSUME NEW c, NEW k, NEW d, Base(c, d), Closing(c, k)
  PROVE  Base(k, d)
  BY DEF Base, Closing, CtxInv, Handles, Places, Spilled

(* and so does what the file has.                                           *)
LEMMA ClosingBegun ==
  ASSUME NEW c, NEW k, NEW d, Base(c, d), Closing(c, k), Begun(c, d.file, c.secnum, 0)
  PROVE  Begun(k, d.file, k.secnum, 0)
  <1>1. c \in Ctx /\ k \in Ctx /\ k.firsttime = c.firsttime /\ k.curtime = c.curtime /\ k.secnum = c.secnum
        /\ d.file \in Seq(Blocks) /\ c.secnum \in Nat /\ c.curtime \in Nat
    BY DEF Base, Closing, Ctx, Disk
  <1>2. c.curtime <= k.curtime
    BY <1>1
  <1> QED
    BY <1>1, <1>2, BegunLater

(* fstWriterClose with an open section in which nothing changed.            *)
LEMMA CloseTruncateKeeps ==
  ASSUME IInv, CloseTruncate, "hasty" \notin Usage
  PROVE  Base(xc', disk') /\ Stage(mode', xc', main', flusher', disk')
  <1>0. PICK c, d, p : c = xc /\ d = disk /\ p = flusher
    OBVIOUS
  <1>1. /\ Base(c, d) /\ Quiet(mode, c, <<>>, p, d) /\ p.state = "none"
        /\ c.section_header_truncpos # 0 /\ ~c.is_initial_time
    BY <1>0, ClosesQuiet DEF CloseTruncate
  <1>2. c \in Ctx /\ CtxInv(c) /\ c.secnum \in Nat
    BY <1>1 DEF Base, Ctx
  <1>3. PICK k : k = [c EXCEPT !.already_in_close = TRUE]
    OBVIOUS
  <1>4. Closing(c, k)
    BY <1>2, <1>3 DEF Closing, Ctx
  <1>5. disk' = d /\ flusher' = p /\ mode' = mode /\ xc' = k
    BY <1>0, <1>3 DEF CloseTruncate
  <1>6. Begun(c, d.file, c.secnum, 0) /\ At(c, c.secnum + 1, c.secnum) /\ Untouched(c, d)
        /\ HierFlushed(c, d) /\ c.mapped
    BY <1>1, <1>2 DEF Quiet, Resting, CtxInv
  <1>7. c.section_header_truncpos = c.secnum /\ k.secnum = c.secnum /\ c.secnum > 0
    BY <1>1, <1>2, <1>4, <1>6 DEF At, Closing
  <1>8. Begun(k, d.file, k.secnum, 0) /\ Base(k, d)
    BY <1>1, <1>4, <1>6, ClosingBegun, ClosingBase
  <1>9. main' = Then("truncate", k.secnum, ToGeom(mode, k))
    <2>1. main' = << Op("truncate", c.section_header_truncpos) >>
                  \o CloseRest(c.hier, c.blackouts, c.firsttime, c.curtime)
      BY <1>0 DEF CloseTruncate
    <2>2. CloseRest(k.hier, k.blackouts, k.firsttime, k.curtime) = ToGeom(mode, k)
      BY CloseIsToGeom
    <2>3. CloseRest(c.hier, c.blackouts, c.firsttime, c.curtime) = ToGeom(mode, k)
      BY <1>4, <2>2 DEF Closing
    <2> QED
      BY <1>7, <2>1, <2>3 DEF Then
  <1>10. InClose(k, p, d) /\ Untouched(k, d) /\ At(k, k.secnum + 1, k.secnum)
    BY <1>1, <1>4, <1>6 DEF Closing, InClose, Untouched, HierFlushed, At
  <1>11. Truncating(mode, k, main', p, d)
    BY <1>7, <1>8, <1>9, <1>10 DEF Truncating
  <1> QED
    BY <1>5, <1>8, <1>11 DEF Stage

(* ... without one.                                                         *)
LEMMA CloseEmptyKeeps ==
  ASSUME IInv, CloseEmpty, "hasty" \notin Usage
  PROVE  Base(xc', disk') /\ Stage(mode', xc', main', flusher', disk')
  <1>0. PICK c, d, p : c = xc /\ d = disk /\ p = flusher
    OBVIOUS
  <1>1. /\ Base(c, d) /\ Quiet(mode, c, <<>>, p, d) /\ p.state = "none"
        /\ ~c.is_initial_time /\ ~c.changed /\ (~c.section_header_only \/ c.section_header_truncpos = 0)
    BY <1>0, ClosesQuiet DEF CloseEmpty
  <1>2. ~Parallel
    BY <1>0, <1>1 DEF CloseEmpty, BeginClose
  <1>3. c \in Ctx /\ CtxInv(c) /\ c.secnum \in Nat /\ d.file \in Seq(Blocks)
    BY <1>1 DEF Base, Ctx, Disk
  <1>4. Begun(c, d.file, c.secnum, 0) /\ At(c, c.secnum + 1, c.secnum) /\ Untouched(c, d)
        /\ HierFlushed(c, d) /\ c.mapped /\ (~Threads(mode) /\ c.secnum > 0 => c.section_header_only)
    BY <1>1, <1>3 DEF Quiet, Resting, CtxInv
  <1>5. c.secnum = 0
    BY <1>1, <1>2, <1>3, <1>4 DEF Threads, Parallel, At
  <1>6. PICK k : k = [c EXCEPT !.already_in_close = TRUE]
    OBVIOUS
  <1>7. Closing(c, k)
    BY <1>3, <1>6 DEF Closing, Ctx
  <1>8. disk' = d /\ flusher' = p /\ mode' = mode /\ xc' = k
    BY <1>0, <1>6 DEF CloseEmpty
  <1>9. Begun(k, d.file, k.secnum, 0) /\ Base(k, d)
    BY <1>1, <1>4, <1>7, ClosingBegun, ClosingBase
  <1>10. main' = ToGeom(mode, k)
    <2>1. main' = <<>> \o CloseRest(c.hier, c.blackouts, c.firsttime, c.curtime)
      BY <1>0, <1>2 DEF CloseEmpty
    <2>2. CloseRest(k.hier, k.blackouts, k.firsttime, k.curtime) = ToGeom(mode, k)
      BY CloseIsToGeom
    <2>3. CloseRest(c.hier, c.blackouts, c.firsttime, c.curtime) = ToGeom(mode, k)
      BY <1>7, <2>2 DEF Closing
    <2>4. IsList(ToGeom(mode, k))
      BY CloseClean, CleanIsList
    <2>5. <<>> \o ToGeom(mode, k) = ToGeom(mode, k)
      BY <2>4, ListsConcat
    <2> QED
      BY <2>1, <2>3, <2>5
  <1>11. k.secnum = 0 /\ k \in Ctx
    BY <1>5, <1>7 DEF Closing
  <1>12. Begun(k, d.file, 0, 0)
    BY <1>9, <1>11
  <1>13. Whole(k, d.file, {})
    BY <1>3, <1>11, <1>12, OpenIsWhole
  <1>14. InClose(k, p, d) /\ Untouched(k, d)
    BY <1>1, <1>4, <1>7 DEF Closing, InClose, Untouched, HierFlushed
  <1>15. Appending(mode, k, main', p, d)
    BY <1>10, <1>13, <1>14 DEF Appending, AtGeom
  <1> QED
    BY <1>8, <1>9, <1>15 DEF Stage

(* ... with changes.                                                        *)
LEMMA CloseFlushKeeps ==
  ASSUME IInv, CloseFlush, "hasty" \notin Usage
  PROVE  Base(xc', disk') /\ Stage(mode', xc', main', flusher', disk')
  <1>0. PICK c, d, p : c = xc /\ d = disk /\ p = flusher
    OBVIOUS
  <1>1. /\ Base(c, d) /\ Quiet(mode, c, <<>>, p, d) /\ p.state = "none"
        /\ ~c.is_initial_time /\ c.changed /\ c.mapped
    BY <1>0, ClosesQuiet DEF CloseFlush
  <1>2. c \in Ctx /\ c.secnum \in Nat /\ c.secnum + 1 \in Nat /\ c.curtime \in Nat
    BY <1>1 DEF Base, Ctx
  <1>3. PICK n \in Nat : n = c.secnum + 1
    BY <1>2
  <1>4. PICK k : k = [c EXCEPT !.already_in_close = TRUE, !.secnum = n, !.changed = FALSE]
    OBVIOUS
  <1>5. /\ k \in Ctx /\ k.hier = c.hier /\ k.mapped = c.mapped /\ k.is_initial_time = c.is_initial_time
        /\ k.firsttime = c.firsttime /\ k.curtime = c.curtime /\ ~k.changed
        /\ k.section_header_truncpos = c.section_header_truncpos /\ k.section_start = c.section_start
        /\ k.secnum = n /\ k.blackouts = c.blackouts /\ k.already_in_close /\ k.closed = c.closed
    BY <1>2, <1>4 DEF Ctx
  <1>6. Numbered(c, k)
    <2>1. c.curtime <= k.curtime
      BY <1>2, <1>5
    <2> QED
      BY <1>1, <1>3, <1>5, <2>1 DEF Numbered
  <1>7. Base(k, d) /\ Stage(mode, k, ToFlush(mode, k, c.curtime), p, d)
    BY <1>1, <1>6, FlushBegins
  <1>8. disk' = d /\ flusher' = p /\ mode' = mode /\ xc' = k
    BY <1>0, <1>3, <1>4 DEF CloseFlush
  <1>9. c.section_start = n
    BY <1>1, <1>3 DEF Quiet, Resting, At
  <1>10. main' = FlushOfClose(n, n, c.curtime) \o CloseRest(c.hier, c.blackouts, c.firsttime, c.curtime)
    BY <1>0, <1>3, <1>9 DEF CloseFlush
  <1>11. CloseRest(c.hier, c.blackouts, c.firsttime, c.curtime) = ToGeom(mode, k)
    <2>1. CloseRest(k.hier, k.blackouts, k.firsttime, k.curtime) = ToGeom(mode, k)
      BY CloseIsToGeom
    <2> QED
      BY <1>5, <2>1
  <1>12. FlushOfClose(n, n, c.curtime) \o ToGeom(mode, k) = ToFlush(mode, k, c.curtime)
    BY <1>5, CloseFlushes
  <1> QED
    BY <1>7, <1>8, <1>10, <1>11, <1>12

(* ... before the first time.                                               *)
LEMMA CloseInitialKeeps ==
  ASSUME IInv, CloseInitial, "hasty" \notin Usage
  PROVE  Base(xc', disk') /\ Stage(mode', xc', main', flusher', disk')
  <1>0. PICK c, d, p : c = xc /\ d = disk /\ p = flusher
    OBVIOUS
  <1>1. Base(c, d) /\ Quiet(mode, c, <<>>, p, d) /\ p.state = "none" /\ c.is_initial_time
    BY <1>0, ClosesQuiet DEF CloseInitial
  <1>2. c \in Ctx /\ CtxInv(c) /\ c.mapped \in BOOLEAN /\ Handles(c) \in Nat
    BY <1>1, HandlesNat DEF Base, Ctx
  <1>3. c.firsttime = 0 /\ c.curtime = 0 /\ c.secnum = 0 /\ ~c.changed
    BY <1>1, <1>2 DEF CtxInv
  <1>4. PICK n \in Nat : n = IF Handles(c) > 0 THEN 1 ELSE 0
    OBVIOUS
  <1>5. PICK k : k = [c EXCEPT !.already_in_close = TRUE, !.mapped = TRUE, !.is_initial_time = FALSE, !.secnum = n]
    OBVIOUS
  <1>6. /\ k \in Ctx /\ k.hier = c.hier /\ k.mapped /\ ~k.is_initial_time
        /\ k.firsttime = 0 /\ k.curtime = 0 /\ ~k.changed
        /\ k.section_header_truncpos = c.section_header_truncpos /\ k.section_start = c.section_start
        /\ k.secnum = n /\ k.blackouts = c.blackouts /\ k.already_in_close /\ k.closed = c.closed
    BY <1>2, <1>3, <1>5 DEF Ctx
  <1>7. Handles(k) = Handles(c) /\ (Handles(c) > 0 <=> Handles(c) # 0)
    BY <1>2, <1>6 DEF Handles
  <1>8. n = IF Handles(k) = 0 THEN 0 ELSE 1
    BY <1>2, <1>4, <1>7
  <1>9. disk' = d /\ flusher' = p /\ mode' = mode /\ xc' = k
    BY <1>0, <1>4, <1>5 DEF CloseInitial, Handles
  <1>10. main' = (IF c.mapped THEN <<>> ELSE CreateMmaps(k.hier, 0, 0)) \o EmitSectionHeader(0)
                 \o (IF Handles(k) # 0 THEN FlushOfClose(1, 1, 0) ELSE <<>>)
                 \o CloseRest(k.hier, k.blackouts, 0, 0)
    <2>1. main' = (IF c.mapped THEN <<>> ELSE CreateMmaps(c.hier, c.firsttime, c.curtime)) \o EmitSectionHeader(0)
                  \o (IF Handles(c) > 0 THEN FlushOfClose(1, 1, 0) ELSE <<>>)
                  \o CloseRest(c.hier, c.blackouts, 0, 0)
      BY <1>0 DEF CloseInitial, Handles
    <2> QED
      BY <1>3, <1>6, <1>7, <2>1
  <1>11. main' = IF c.mapped THEN AfterMapping(mode, k) ELSE ToMapping(mode, k)
    BY <1>2, <1>6, <1>8, <1>10, CloseStarts
  <1>12. CtxInv(k)
    BY <1>6, <1>8 DEF CtxInv
  <1>13. Base(k, d)
    BY <1>1, <1>6, <1>12 DEF Base, Places, Spilled
  <1>14. /\ Untouched(k, d) /\ d.file = <<>> /\ At(k, 0, 0) /\ (c.mapped => HierFlushed(k, d))
    BY <1>1, <1>6 DEF Quiet, Untouched, Resting, At, HierFlushed
  <1>15. Starting(mode, k, main', p, d)
    BY <1>1, <1>6, <1>8, <1>11, <1>14 DEF Starting
  <1> QED
    BY <1>9, <1>13, <1>15 DEF Stage

----------------------------------------------------------------------------
(* The invariant is inductive.                                              *)

(* The call's next operation.                                               *)
LEMMA MainWritesKeeps ==
  ASSUME IInv, MainWrites
  PROVE  Base(xc', disk') /\ Stage(mode', xc', main', flusher', disk')
  <1>1. Base(xc, disk) /\ Stage(mode, xc, main, flusher, disk) /\ main # <<>> /\ Head(main).op \notin {"spawn", "wait"}
    BY DEF IInv, MainWrites
  <1>2. flusher.state = "none"
    BY <1>1, ThreadRuns
  <1>3. ~Waiting(mode, xc, main, flusher, disk)
    <2>1. ASSUME Waiting(mode, xc, main, flusher, disk) PROVE FALSE
      <3>1. main = Then("wait", "", ToGeom(mode, xc)) /\ IsList(ToGeom(mode, xc))
        BY <2>1, CloseClean, CleanIsList DEF Waiting, ToWait
      <3>2. Head(main) = Op("wait", "")
        BY <3>1, ThenList
      <3>3. Op("wait", "").op = "wait"
        BY DEF Op
      <3> QED
        BY <1>1, <3>2, <3>3
    <2> QED
      BY <2>1
  <1>4. ~Spawning(mode, xc, main, flusher, disk)
    <2>1. ASSUME Spawning(mode, xc, main, flusher, disk) PROVE FALSE
      <3> DEFINE a == Head(main).arg
      <3>1. main = Then("spawn", a, AfterFlush(mode, xc)) /\ IsList(AfterFlush(mode, xc))
        BY <2>1, CloseClean, CleanIsList DEF Spawning
      <3> HIDE DEF a
      <3>2. Head(main) = Op("spawn", a)
        BY <3>1, ThenList
      <3>3. Op("spawn", a).op = "spawn"
        BY DEF Op
      <3> QED
        BY <1>1, <3>2, <3>3
    <2> QED
      BY <2>1
  <1>5. After(mode, xc, main, flusher, disk)
    BY <1>1, <1>2, <1>3, <1>4, MainStep
  <1>6. /\ disk' = Write(disk, Head(main)) /\ xc' = Note(xc, disk', Head(main), TRUE)
        /\ main' = Tail(main) /\ mode' = mode /\ flusher' = flusher
    BY DEF MainWrites
  <1> QED
    BY <1>5, <1>6 DEF After

(* The call creates the thread.                                             *)
LEMMA MainSpawnsKeeps ==
  ASSUME IInv, MainSpawns
  PROVE  Base(xc', disk') /\ Stage(mode', xc', main', flusher', disk')
  <1>0. PICK q : q = [state |-> "created", todo |-> Head(main).arg]
    OBVIOUS
  <1>1. Base(xc, disk) /\ Stage(mode, xc, main, flusher, disk) /\ Spawns(main) /\ flusher.state = "none"
    BY DEF IInv, MainSpawns, Spawns
  <1>2. Mapped(xc, disk) /\ Spawning(mode, xc, main, flusher, disk)
    BY <1>1, SpawnsOnce
  <1>3. q.state = "created" /\ q.todo = Head(main).arg
    BY <1>0
  <1>4. Flushing(mode, xc, Tail(main), q, disk)
    BY <1>1, <1>2, <1>3, SpawnStep
  <1>5. disk' = disk /\ xc' = xc /\ mode' = mode /\ main' = Tail(main) /\ flusher' = q
    BY <1>0 DEF MainSpawns
  <1> QED
    BY <1>1, <1>4, <1>5 DEF Stage

(* The call has waited.                                                     *)
LEMMA MainWaitsKeeps ==
  ASSUME IInv, MainWaits
  PROVE  Base(xc', disk') /\ Stage(mode', xc', main', flusher', disk')
  <1>1. Base(xc, disk) /\ Stage(mode, xc, main, flusher, disk) /\ main # <<>> /\ Head(main).op = "wait"
        /\ flusher.state = "none"
    BY DEF IInv, MainWaits
  <1>2. disk' = disk /\ xc' = xc /\ mode' = mode /\ main' = Tail(main) /\ flusher' = flusher
    BY DEF MainWaits
  <1>3. CASE After(mode, xc, main, flusher, disk)
    <2>1. Write(disk, Head(main)) = disk /\ Note(xc, disk, Head(main), TRUE) = xc
      BY <1>1 DEF Write, Note
    <2> QED
      BY <1>2, <1>3, <2>1 DEF After
  <1>4. CASE Mapped(xc, disk) /\ Spawning(mode, xc, main, flusher, disk)
    <2> DEFINE a == Head(main).arg
    <2>1. main = Then("spawn", a, AfterFlush(mode, xc)) /\ IsList(AfterFlush(mode, xc))
      BY <1>4, CloseClean, CleanIsList DEF Spawning
    <2> HIDE DEF a
    <2>2. Head(main) = Op("spawn", a)
      BY <2>1, ThenList
    <2>3. Op("spawn", a).op = "spawn"
      BY DEF Op
    <2> QED
      BY <1>1, <2>2, <2>3
  <1>5. CASE Mapped(xc, disk) /\ Waiting(mode, xc, main, flusher, disk)
    <2>1. Appending(mode, xc, Tail(main), flusher, disk)
      BY <1>1, <1>5, WaitStep
    <2> QED
      BY <1>1, <1>2, <2>1 DEF Stage
  <1> QED
    BY <1>1, <1>3, <1>4, <1>5, MainStep

(* The thread takes the mutex.                                              *)
LEMMA LocksKeeps ==
  ASSUME IInv, FlusherLocks
  PROVE  Base(xc', disk') /\ Stage(mode', xc', main', flusher', disk')
  <1>1. Base(xc, disk) /\ Stage(mode, xc, main, flusher, disk) /\ flusher.state = "created"
        /\ flusher = [state |-> flusher.state, todo |-> flusher.todo]
    BY DEF IInv, FlusherLocks
  <1>2. PICK q : q = [state |-> "locked", todo |-> flusher.todo]
    OBVIOUS
  <1>3. q.state = "locked" /\ q.todo = flusher.todo
    BY <1>2
  <1>4. [flusher EXCEPT !.state = "locked"] = q
    BY <1>1, <1>2
  <1>5. disk' = disk /\ xc' = xc /\ mode' = mode /\ main' = main /\ flusher' = q
    BY <1>4 DEF FlusherLocks
  <1>6. Mapped(xc, disk) /\ Created(mode, xc, main, flusher, disk)
    BY <1>1, ThreadRuns DEF Locked
  <1>7. Flushing(mode, xc, main, q, disk)
    BY <1>1, <1>3, <1>6, LockStep
  <1> QED
    BY <1>1, <1>5, <1>7 DEF Stage

(* The thread's next operation.                                             *)
LEMMA FlusherWritesKeeps ==
  ASSUME IInv, FlusherWrites
  PROVE  Base(xc', disk') /\ Stage(mode', xc', main', flusher', disk')
  <1>1. Base(xc, disk) /\ Stage(mode, xc, main, flusher, disk) /\ flusher.state = "locked"
        /\ flusher = [state |-> flusher.state, todo |-> flusher.todo] /\ flusher.todo # <<>>
    BY DEF IInv, FlusherWrites
  <1>2. PICK q : q = [state |-> "locked", todo |-> Tail(flusher.todo)]
    OBVIOUS
  <1>3. q.state = "locked" /\ q.todo = Tail(flusher.todo)
    BY <1>2
  <1>4. [flusher EXCEPT !.todo = Tail(flusher.todo)] = q
    <2>1. PICK td, rest : td = flusher.todo /\ rest = Tail(flusher.todo)
      OBVIOUS
    <2>2. flusher = [state |-> "locked", todo |-> td]
      BY <1>1, <2>1
    <2>3. q = [state |-> "locked", todo |-> rest]
      BY <1>2, <2>1
    <2>4. [flusher EXCEPT !.todo = rest] = [state |-> "locked", todo |-> rest]
      BY <2>2
    <2> QED
      BY <2>1, <2>3, <2>4
  <1>5. /\ disk' = Write(disk, Head(flusher.todo))
        /\ xc' = Note(xc, disk', Head(flusher.todo), FALSE)
        /\ mode' = mode /\ main' = main /\ flusher' = q
    BY <1>4 DEF FlusherWrites
  <1>6. Mapped(xc, disk) /\ Locked(mode, xc, main, flusher, disk)
    BY <1>1, ThreadRuns DEF Created
  <1>7. LET w == Head(flusher.todo)
            e == Write(disk, w)
            k == Note(xc, e, w, FALSE)
        IN Base(k, e) /\ Flushing(mode, k, main, q, e)
    BY <1>1, <1>3, <1>6, ThreadStep
  <1> QED
    BY <1>5, <1>7 DEF Stage

(* The thread ends.                                                         *)
LEMMA ExitsKeeps ==
  ASSUME IInv, FlusherExits
  PROVE  Base(xc', disk') /\ Stage(mode', xc', main', flusher', disk')
  <1>1. Base(xc, disk) /\ Stage(mode, xc, main, flusher, disk) /\ flusher.state = "locked"
        /\ flusher = [state |-> flusher.state, todo |-> flusher.todo] /\ flusher.todo = <<>>
    BY DEF IInv, FlusherExits
  <1>2. PICK q : q = [state |-> "none", todo |-> flusher.todo]
    OBVIOUS
  <1>3. q.state = "none"
    BY <1>2
  <1>4. [flusher EXCEPT !.state = "none"] = q
    BY <1>1, <1>2
  <1>5. disk' = disk /\ xc' = xc /\ mode' = mode /\ main' = main /\ flusher' = q
    BY <1>4 DEF FlusherExits, ThreadExit
  <1>6. Mapped(xc, disk) /\ Locked(mode, xc, main, flusher, disk)
    BY <1>1, ThreadRuns DEF Created
  <1>7. Stage(mode, xc, main, q, disk)
    BY <1>1, <1>3, <1>6, ExitStep
  <1> QED
    BY <1>1, <1>5, <1>7

(* The flusher stays what it is: a state and a list.                        *)
LEMMA FlusherKeeps ==
  ASSUME IInv, Next
  PROVE  /\ mode' \in Modes /\ alive' \in BOOLEAN
         /\ flusher'.state \in {"none", "created", "locked"}
         /\ flusher' = [state |-> flusher'.state, todo |-> flusher'.todo]
  <1>1. /\ mode \in Modes /\ alive \in BOOLEAN
        /\ flusher.state \in {"none", "created", "locked"}
        /\ flusher = [state |-> flusher.state, todo |-> flusher.todo]
    BY DEF IInv
  <1>2. mode' = mode /\ (alive' = alive \/ alive' = FALSE)
    BY DEF Next, Declare, SpillHier, EmitValueChange, EmitDumpActive, FirstTimeChange, PlainTimeChange,
           FlushTimeChange, ParallelTimeChange, CloseTruncate, CloseFlush, CloseEmpty, CloseInitial,
           MainWrites, MainSpawns, MainWaits, FlusherLocks, FlusherWrites, FlusherExits, Stop
  <1>3. \/ flusher' = flusher
        \/ \E a : flusher' = [state |-> "created", todo |-> a]
        \/ flusher' = [flusher EXCEPT !.state = "locked"]
        \/ flusher' = [flusher EXCEPT !.todo = Tail(flusher.todo)]
        \/ flusher' = [flusher EXCEPT !.state = "none"]
    BY DEF Next, Declare, SpillHier, EmitValueChange, EmitDumpActive, FirstTimeChange, PlainTimeChange,
           FlushTimeChange, ParallelTimeChange, CloseTruncate, CloseFlush, CloseEmpty, CloseInitial,
           MainWrites, MainSpawns, MainWaits, FlusherLocks, FlusherWrites, FlusherExits, ThreadExit, Stop
  <1>4. flusher' = [state |-> flusher'.state, todo |-> flusher'.todo] /\ flusher'.state \in {"none", "created", "locked"}
    <2>1. CASE flusher' = flusher
      BY <1>1, <2>1
    <2>2. CASE \E a : flusher' = [state |-> "created", todo |-> a]
      BY <2>2
    <2>3. CASE flusher' = [flusher EXCEPT !.state = "locked"]
      BY <1>1, <2>3
    <2>4. CASE flusher' = [flusher EXCEPT !.todo = Tail(flusher.todo)]
      BY <1>1, <2>4
    <2>5. CASE flusher' = [flusher EXCEPT !.state = "none"]
      BY <1>1, <2>5
    <2> QED
      BY <1>3, <2>1, <2>2, <2>3, <2>4, <2>5
  <1> QED
    BY <1>1, <1>2, <1>4

(* The stages follow each other, however the call and its flush thread      *)
(* interleave and wherever the process stops: every state is one of them.   *)
(* "late" and "hasty" are excluded: a record behind the first mapping is    *)
(* not flushed before its section, and a thread that has not begun copies a *)
(* context that has moved on.                                               *)
THEOREM FileInductive ==
  ASSUME "late" \notin Usage, "hasty" \notin Usage
  PROVE  Spec => []IInv
  <1>1. Init => IInv
    <2> SUFFICES ASSUME Init PROVE IInv
      OBVIOUS
    <2> USE DEF Init
    <2>1. xc \in Ctx /\ disk \in Disk
      <3>1. <<>> \in Seq(Blocks) /\ <<>> \in Seq(Records)
        OBVIOUS
      <3> QED
        BY <3>1 DEF Ctx, Disk
    <2>2. CtxInv(xc) /\ Places(xc, disk) /\ Spilled(xc, disk)
      <3>1. Len(<<>>) = 0 /\ SubSeq(<<>>, 1, 0) = <<>>
        OBVIOUS
      <3> QED
        BY <3>1 DEF CtxInv, Places, Spilled
    <2>3. Quiet(mode, xc, main, flusher, disk)
      BY DEF Quiet, Untouched, Unnamed, Intact, Resting, At
    <2>4. /\ mode \in Modes /\ alive \in BOOLEAN /\ flusher.state \in {"none", "created", "locked"}
          /\ flusher = [state |-> flusher.state, todo |-> flusher.todo]
      OBVIOUS
    <2> QED
      BY <2>1, <2>2, <2>3, <2>4 DEF IInv, Base, Stage
  <1>2. IInv /\ [Next]_vars => IInv'
    <2> SUFFICES ASSUME IInv, [Next]_vars PROVE IInv'
      OBVIOUS
    <2>1. CASE UNCHANGED vars
      BY <2>1 DEF vars, IInv
    <2>2. CASE Next
      <3>1. Base(xc', disk') /\ Stage(mode', xc', main', flusher', disk')
        <4>1. ASSUME NEW record \in {"var", "other"}, Declare(record)
              PROVE  Base(xc', disk') /\ Stage(mode', xc', main', flusher', disk')
          BY <4>1, DeclareKeeps DEF Records
        <4>2. CASE SpillHier
          BY <4>2, SpillKeeps
        <4>3. CASE EmitValueChange
          BY <4>3, ValueKeeps
        <4>4. CASE EmitDumpActive
          BY <4>4, DumpActiveKeeps
        <4>5. ASSUME NEW tim \in Time,
                     FirstTimeChange(tim) \/ PlainTimeChange(tim) \/ FlushTimeChange(tim) \/ ParallelTimeChange(tim)
              PROVE  Base(xc', disk') /\ Stage(mode', xc', main', flusher', disk')
          <5>1. tim \in Nat
            BY FileAssumption DEF Time
          <5> QED
            BY <4>5, <5>1, FirstKeeps, PlainKeeps, FlushTimeKeeps
        <4>6. CASE CloseTruncate
          BY <4>6, CloseTruncateKeeps
        <4>7. CASE CloseFlush
          BY <4>7, CloseFlushKeeps
        <4>8. CASE CloseEmpty
          BY <4>8, CloseEmptyKeeps
        <4>9. CASE CloseInitial
          BY <4>9, CloseInitialKeeps
        <4>10. CASE MainWrites
          BY <4>10, MainWritesKeeps
        <4>11. CASE MainSpawns
          BY <4>11, MainSpawnsKeeps
        <4>12. CASE MainWaits
          BY <4>12, MainWaitsKeeps
        <4>13. CASE FlusherLocks
          BY <4>13, LocksKeeps
        <4>14. CASE FlusherWrites
          BY <4>14, FlusherWritesKeeps
        <4>15. CASE FlusherExits
          BY <4>15, ExitsKeeps
        <4>16. CASE Stop
          BY <4>16 DEF Stop, IInv
        <4> QED
          BY <2>2, <4>1, <4>2, <4>3, <4>4, <4>5, <4>6, <4>7, <4>8, <4>9, <4>10, <4>11, <4>12, <4>13, <4>14,
             <4>15, <4>16 DEF Next
      <3>2. /\ mode' \in Modes /\ alive' \in BOOLEAN
            /\ flusher'.state \in {"none", "created", "locked"}
            /\ flusher' = [state |-> flusher'.state, todo |-> flusher'.todo]
        BY <2>2, FlusherKeeps
      <3> QED
        BY <3>1, <3>2 DEF IInv
    <2> QED
      BY <2>1, <2>2
  <1> QED
    BY <1>1, <1>2, PTL DEF Spec

----------------------------------------------------------------------------
(* The reader.                                                              *)

(* fstReaderInit walks to the first block without a length, or to the end.  *)
LEMMA FrontOfPart ==
  ASSUME NEW S, NEW f \in Seq(S), NEW p \in Nat, NEW m \in Nat, 1 <= p, p <= m, m <= Len(f)
  PROVE  << f[p] >> \o SubSeq(f, p + 1, m) = SubSeq(f, p, m)
  <1> DEFINE t == SubSeq(f, p + 1, m)
             u == SubSeq(f, p, m)
  <1>1. PICK k \in Nat : k = m - p
    OBVIOUS
  <1>2. t \in Seq(S) /\ Len(t) = k /\ \A i \in 1 .. k : t[i] = f[p + i]
    BY <1>1
  <1>3. u \in Seq(S) /\ Len(u) = k + 1 /\ \A i \in 1 .. k + 1 : u[i] = f[p + i - 1]
    BY <1>1
  <1> HIDE DEF t, u
  <1>4. PICK v \in S : v = f[p]
    OBVIOUS
  <1>5. InFront(v, t, u)
    <2>1. u[1] = v
      BY <1>3, <1>4
    <2>2. ASSUME NEW i \in 1 .. k PROVE u[i + 1] = t[i]
      <3>1. i + 1 \in 1 .. k + 1 /\ p + (i + 1) - 1 = p + i
        OBVIOUS
      <3> QED
        BY <1>2, <1>3, <3>1
    <2> QED
      BY <1>2, <1>3, <2>1, <2>2 DEF InFront
  <1>6. << v >> \o t = u
    BY <1>2, <1>3, <1>5, OneMore, Zenon
  <1> QED
    BY <1>4, <1>6 DEF t, u

Scans == [blocks : Seq(Blocks), misread : BOOLEAN]
PutFront(b, x) == [x EXCEPT !.blocks = << b >> \o @]
Finds(b, x, stop) == IF b.len = 0 THEN stop ELSE PutFront(b, x)
(* A block in front of those found.                                         *)
LEMMA PutFrontType ==
  ASSUME NEW b \in Blocks, NEW x \in Scans
  PROVE  PutFront(b, x) \in Scans /\ PutFront(b, x).blocks = << b >> \o x.blocks
         /\ PutFront(b, x).misread = x.misread
  <1>1. << b >> \o x.blocks \in Seq(Blocks)
    <2>1. x.blocks \in Seq(Blocks)
      BY DEF Scans
    <2> HIDE DEF Blocks
    <2> QED
      BY <2>1
  <1>2. PICK s \in Seq(Blocks) : s = << b >> \o x.blocks
    BY <1>1
  <1>3. PutFront(b, x) = [x EXCEPT !.blocks = s]
    BY <1>2 DEF PutFront
  <1>4. PutFront(b, x) \in Scans /\ PutFront(b, x).blocks = s /\ PutFront(b, x).misread = x.misread
    BY <1>3 DEF Scans
  <1> QED
    BY <1>2, <1>4

(* If the lengths of m blocks lead from one to the next and there is none   *)
(* behind, the reader finds these m.                                        *)
LEMMA ScanStops ==
  ASSUME NEW d \in Disk, NEW m \in Nat, m <= Len(d.file), \A i \in 1 .. m : d.file[i].len = 1,
         m < Len(d.file) => d.file[m + 1].len = 0
  PROVE  /\ Scan(d).blocks = SubSeq(d.file, 1, m)
         /\ Scan(d).misread <=> (m < Len(d.file) /\ ~HdrIncomplete(d))
  <1> DEFINE f == d.file
             n == Len(f)
             none == [blocks |-> <<>>, misread |-> FALSE]
             stop == [blocks |-> <<>>, misread |-> ~HdrIncomplete(d)]
             F(g) == [p \in Nat \ {0} |->
                        IF p > End(d) THEN [blocks |-> <<>>, misread |-> FALSE]
                        ELSE IF d.file[p].len = 0 THEN [blocks |-> <<>>, misread |-> ~HdrIncomplete(d)]
                        ELSE [g[p + d.file[p].len] EXCEPT !.blocks = <<d.file[p]>> \o @]]
             scan == CHOOSE g : g = F(g)
             step == [j \in 1 .. n |-> [x \in Scans |-> Finds(f[n + 1 - j], x, stop)]]
  <1>1. f \in Seq(Blocks) /\ n \in Nat /\ End(d) = n
    BY DEF Disk, End
  <1>2. none \in Scans /\ stop \in Scans
    <2>1. <<>> \in Seq(Blocks)
      OBVIOUS
    <2> QED
      BY <2>1 DEF Scans
  <1>3. \A p \in 1 .. n : f[p] \in Blocks
    BY <1>1
  <1>4. \A p \in 1 .. n : f[p].len = 0 \/ f[p].len = 1
    BY <1>3 DEF Blocks
  <1>5. step \in [1 .. n -> [Scans -> Scans]]
        /\ \A j \in 1 .. n : \A x \in Scans : step[j][x] = Finds(f[n + 1 - j], x, stop)
    <2>1. \A p \in 1 .. n : \A x \in Scans : Finds(f[p], x, stop) \in Scans
      BY <1>2, <1>3, PutFrontType DEF Finds
    <2>2. \A j \in 1 .. n : n + 1 - j \in 1 .. n
      BY <1>1
    <2> HIDE DEF stop, f, n
    <2> QED
      BY <2>1, <2>2
  <1> HIDE DEF step
  <1>6. PICK R : Recurs(R, Scans, none, step, n)
    BY <1>1, <1>2, <1>5, RecursionExists
  <1> DEFINE g == [p \in Nat \ {0} |-> IF p > n THEN none ELSE R[n + 1 - p]]
  <1>7. g = F(g)
    <2>1. ASSUME NEW p \in Nat \ {0}, p <= n PROVE g[p] = Finds(f[p], g[p + 1], stop)
      <3> DEFINE j == n + 1 - p
      <3>1. j \in 1 .. n /\ n + 1 - j = p /\ j - 1 \in 0 .. n /\ p + 1 \in Nat \ {0} /\ n + 1 - (p + 1) = j - 1
        <4>1. p \in Nat /\ p >= 1 /\ p <= n /\ n \in Nat
          BY <1>1, <2>1
        <4> HIDE DEF n
        <4> QED
          BY <4>1
      <3>2. R[j] = step[j][R[j - 1]] /\ R[j - 1] \in Scans
        BY <1>6, <3>1, Zenon DEF Recurs
      <3>3. R[j] = Finds(f[p], R[j - 1], stop)
        BY <1>5, <3>1, <3>2
      <3>4. g[p] = R[j]
        BY <1>1, <2>1
      <3>5. g[p + 1] = R[j - 1]
        <4>1. CASE p + 1 > n
          <5>1. j - 1 = 0
            BY <1>1, <2>1, <4>1
          <5>2. R[0] = none
            BY <1>6 DEF Recurs
          <5>3. g[p + 1] = none
            BY <3>1, <4>1
          <5> QED
            BY <5>1, <5>2, <5>3
        <4>2. CASE ~(p + 1 > n)
          BY <3>1, <4>2
        <4> QED
          BY <4>1, <4>2
      <3> QED
        BY <3>3, <3>4, <3>5
    <2>2. \A p \in Nat \ {0} : p > n => g[p] = none
      OBVIOUS
    <2> HIDE DEF g
    <2>3. ASSUME NEW p \in Nat \ {0} PROVE g[p] = F(g)[p]
      <3>1. CASE p > n
        BY <1>1, <2>2, <3>1
      <3>2. CASE p <= n /\ f[p].len = 0
        <4>1. g[p] = stop
          BY <2>1, <3>2 DEF Finds
        <4>2. ~(p > End(d))
          BY <1>1, <3>2
        <4> QED
          BY <3>2, <4>1, <4>2
      <3>3. CASE p <= n /\ f[p].len # 0
        <4>1. p \in 1 .. n
          BY <1>1, <3>3
        <4>2. f[p].len = 1
          BY <1>4, <3>3, <4>1
        <4>3. g[p] = PutFront(f[p], g[p + 1])
          BY <2>1, <3>3 DEF Finds
        <4>4. ~(p > End(d))
          BY <1>1, <3>3
        <4>5. g[p] = [g[p + d.file[p].len] EXCEPT !.blocks = <<d.file[p]>> \o @]
          BY <4>2, <4>3 DEF PutFront
        <4> QED
          BY <3>3, <4>4, <4>5
      <3> QED
        BY <1>1, <3>1, <3>2, <3>3
    <2>4. g = [p \in Nat \ {0} |-> g[p]]
      BY DEF g
    <2> QED
      BY <2>3, <2>4, Zenon
  <1>8. scan = F(scan)
    BY <1>7, Zenon
  <1> HIDE DEF scan
  <1>9. \A p \in Nat \ {0} : /\ p > n => scan[p] = none
                             /\ p <= n /\ f[p].len = 0 => scan[p] = stop
                             /\ p <= n /\ f[p].len # 0 => scan[p] = PutFront(f[p], scan[p + f[p].len])
    <2>1. \A p \in Nat \ {0} : scan[p] =
            IF p > n THEN none ELSE IF f[p].len = 0 THEN stop ELSE PutFront(f[p], scan[p + f[p].len])
      BY <1>1, <1>8, Zenon DEF PutFront
    <2> HIDE DEF none, stop, f, n
    <2> QED
      BY <1>1, <2>1
  <1> DEFINE Good(p) == /\ scan[p] \in Scans /\ scan[p].blocks = SubSeq(f, p, m)
                        /\ scan[p].misread <=> (m < n /\ ~HdrIncomplete(d))
             S == {j \in 0 .. m : Good(m + 1 - j)}
  <1>10. Good(m + 1)
    <2>1. SubSeq(f, m + 1, m) = <<>>
      BY <1>1
    <2>2. /\ none.blocks = <<>> /\ ~none.misread
          /\ stop.blocks = <<>> /\ (stop.misread <=> ~HdrIncomplete(d))
      OBVIOUS
    <2>3. (m = n /\ scan[m + 1] = none) \/ (m < n /\ scan[m + 1] = stop)
      <3>1. m + 1 \in Nat \ {0} /\ (m = n \/ m < n) /\ (m = n => m + 1 > n) /\ (m < n => m + 1 <= n)
        BY <1>1
      <3> HIDE DEF none, stop
      <3> QED
        BY <1>9, <3>1
    <2> HIDE DEF none, stop
    <2>4. CASE m = n /\ scan[m + 1] = none
      <3>1. ~(m < n)
        BY <1>1, <2>4
      <3> QED
        BY <1>2, <2>1, <2>2, <2>4, <3>1
    <2>5. CASE m < n /\ scan[m + 1] = stop
      BY <1>2, <2>1, <2>2, <2>5
    <2> QED
      BY <2>3, <2>4, <2>5
  <1>11. ASSUME NEW p \in 1 .. m, Good(p + 1) PROVE Good(p)
    <2>1. p \in Nat \ {0} /\ p <= n /\ f[p].len = 1 /\ p + f[p].len = p + 1 /\ p \in 1 .. n
      BY <1>1
    <2>2. scan[p] = PutFront(f[p], scan[p + 1])
      BY <1>9, <2>1
    <2>3. f[p] \in Blocks /\ scan[p + 1] \in Scans
      BY <1>3, <1>11, <2>1
    <2>4. scan[p] \in Scans /\ scan[p].blocks = << f[p] >> \o scan[p + 1].blocks
          /\ scan[p].misread = scan[p + 1].misread
      <3>1. PICK b, x : b = f[p] /\ x = scan[p + 1]
        OBVIOUS
      <3>2. b \in Blocks /\ x \in Scans
        BY <2>3, <3>1
      <3>3. PutFront(b, x) \in Scans /\ PutFront(b, x).blocks = << b >> \o x.blocks
            /\ PutFront(b, x).misread = x.misread
        BY <3>2, PutFrontType
      <3> QED
        BY <2>2, <3>1, <3>3
    <2>5. << f[p] >> \o SubSeq(f, p + 1, m) = SubSeq(f, p, m)
      <3>1. p \in Nat /\ m \in Nat /\ 1 <= p /\ p <= m /\ m <= Len(f)
        BY <2>1
      <3> HIDE DEF f
      <3> QED
        BY <1>1, <3>1, FrontOfPart
    <2> QED
      BY <1>11, <2>4, <2>5
  <1>12. 0 .. m \subseteq S
    <2>1. 0 \in S
      BY <1>10
    <2>2. ASSUME NEW j \in 1 .. m, j - 1 \in S PROVE j \in S
      <3>1. m + 1 - j \in 1 .. m /\ (m + 1 - j) + 1 = m + 1 - (j - 1) /\ j \in 0 .. m
        OBVIOUS
      <3>2. Good((m + 1 - j) + 1)
        BY <2>2, <3>1
      <3> HIDE DEF Good
      <3>3. Good(m + 1 - j)
        BY <1>11, <3>1, <3>2
      <3> QED
        BY <3>1, <3>3
    <2> HIDE DEF S
    <2> QED
      BY <2>1, <2>2, BoundedInduction
  <1>13. Good(1)
    <2>1. m \in S
      BY <1>12
    <2>2. m + 1 - m = 1
      OBVIOUS
    <2> HIDE DEF Good
    <2> QED
      BY <2>1, <2>2
  <1>14. Scan(d) = scan[1]
    BY Zenon DEF Scan, scan
  <1> QED
    BY <1>13, <1>14

(* The sections of a tag among the blocks a reader walks over.              *)
Collect(b, x, tag) == IF b.tag = tag THEN Append(x, b) ELSE x
Collects(found, blocks, tag) ==
  /\ found \in [0 .. Len(blocks) -> Seq(Blocks)] /\ found[0] = <<>>
  /\ \A i \in 1 .. Len(blocks) : found[i] = Collect(blocks[i], found[i - 1], tag)
(* Tagged is the last of these values.                                      *)
LEMMA TaggedCollects ==
  ASSUME NEW blocks \in Seq(Blocks), NEW tag
  PROVE  \E found : Collects(found, blocks, tag) /\ Tagged(blocks, tag) = found[Len(blocks)]
  <1> DEFINE n == Len(blocks)
             A == Seq(Blocks)
             F(g) == [i \in 0 .. Len(blocks) |->
                        IF i = 0 THEN <<>>
                        ELSE IF blocks[i].tag = tag THEN Append(g[i - 1], blocks[i]) ELSE g[i - 1]]
             found == CHOOSE g : g = F(g)
             step == [i \in 1 .. n |-> [x \in A |-> Collect(blocks[i], x, tag)]]
  <1>1. n \in Nat /\ <<>> \in A
    OBVIOUS
  <1>2. \A i \in 1 .. n : \A x \in A : Collect(blocks[i], x, tag) \in A
    <2> HIDE DEF Blocks
    <2> QED
      BY DEF Collect
  <1>3. step \in [1 .. n -> [A -> A]]
        /\ \A i \in 1 .. n : \A x \in A : step[i][x] = Collect(blocks[i], x, tag)
    <2> HIDE DEF A, n
    <2> QED
      BY <1>2
  <1> HIDE DEF step
  <1>4. PICK R : Recurs(R, A, <<>>, step, n)
    <2> HIDE DEF A, n
    <2> QED
      BY <1>1, <1>3, RecursionExists
  <1>5. R \in [0 .. n -> A] /\ R[0] = <<>>
    BY <1>4 DEF Recurs
  <1>6. ASSUME NEW i \in 1 .. n PROVE R[i] = Collect(blocks[i], R[i - 1], tag)
    <2>1. i - 1 \in 0 .. n
      BY <1>1
    <2>2. R[i] = step[i][R[i - 1]] /\ R[i - 1] \in A
      BY <1>4, <2>1 DEF Recurs
    <2> QED
      BY <1>3, <2>2
  <1>7. R = F(R)
    <2>1. ASSUME NEW i \in 0 .. n PROVE R[i] = F(R)[i]
      <3>1. CASE i = 0
        BY <1>5, <3>1
      <3>2. CASE i # 0
        <4>1. i \in 1 .. n
          BY <1>1, <3>2
        <4> QED
          BY <1>6, <3>2, <4>1 DEF Collect
      <3> QED
        BY <3>1, <3>2
    <2>2. R = [i \in 0 .. n |-> R[i]]
      BY <1>5
    <2> QED
      BY <2>1, <2>2, Zenon
  <1>8. found = F(found)
    BY <1>7, Zenon
  <1> HIDE DEF found
  <1>9. \A i \in 0 .. n : found[i] = R[i]
    <2> DEFINE S == {i \in 0 .. n : found[i] = R[i]}
    <2>1. found[0] = <<>>
      <3>1. 0 \in 0 .. n
        BY <1>1
      <3> QED
        BY <1>8, <3>1
    <2>2. ASSUME NEW i \in 1 .. n, i - 1 \in S PROVE i \in S
      <3>1. i \in 0 .. n /\ i # 0
        BY <1>1
      <3>2. found[i] = Collect(blocks[i], found[i - 1], tag)
        <4>1. found[i] = F(found)[i]
          BY <1>8
        <4>2. F(found)[i] = Collect(blocks[i], found[i - 1], tag)
          BY <3>1 DEF Collect
        <4> QED
          BY <4>1, <4>2
      <3>3. found[i - 1] = R[i - 1]
        BY <2>2
      <3>4. found[i] = R[i]
        BY <1>6, <3>2, <3>3
      <3> QED
        BY <3>1, <3>4
    <2>3. 0 \in S
      BY <1>1, <1>5, <2>1
    <2> HIDE DEF S
    <2>4. 0 .. n \subseteq S
      BY <1>1, <2>2, <2>3, BoundedInduction
    <2> QED
      BY <2>4 DEF S
  <1>10. Tagged(blocks, tag) = found[n]
    BY Zenon DEF Tagged, found, n
  <1>11. n \in 0 .. n
    BY <1>1
  <1>12. Tagged(blocks, tag) = R[n]
    BY <1>9, <1>10, <1>11
  <1>13. Collects(R, blocks, tag)
    BY <1>5, <1>6, Zenon DEF Collects
  <1> QED
    BY <1>12, <1>13, Zenon

(* They are blocks with that tag, and there are some if there is one.       *)
Among(t, blocks, n, tag) ==
  /\ t \in Seq(Blocks)
  /\ \A j \in 1 .. Len(t) : \E i \in 1 .. n : blocks[i].tag = tag /\ t[j] = blocks[i]
  /\ (\E i \in 1 .. n : blocks[i].tag = tag) => t # <<>>
(* One block further.                                                       *)
LEMMA AmongGrows ==
  ASSUME NEW blocks \in Seq(Blocks), NEW tag, NEW n \in 1 .. Len(blocks), NEW t, Among(t, blocks, n - 1, tag)
  PROVE  Among(Collect(blocks[n], t, tag), blocks, n, tag)
  <1>1. n \in Nat /\ n \in 1 .. n /\ \A i \in 1 .. n - 1 : i \in 1 .. n
    OBVIOUS
  <1>2. t \in Seq(Blocks) /\ blocks[n] \in Blocks
    BY DEF Among
  <1>3. \A j \in 1 .. Len(t) : \E i \in 1 .. n : blocks[i].tag = tag /\ t[j] = blocks[i]
    BY <1>1 DEF Among
  <1>4. CASE blocks[n].tag = tag
    <2>1. PICK b \in Blocks : b = blocks[n]
      BY <1>2
    <2>2. Append(t, b) \in Seq(Blocks) /\ Len(Append(t, b)) = Len(t) + 1
          /\ (\A j \in 1 .. Len(t) : Append(t, b)[j] = t[j]) /\ Append(t, b)[Len(t) + 1] = b
      <3> HIDE DEF Blocks
      <3> QED
        BY <1>2
    <2>3. PICK u : u = Append(t, b)
      OBVIOUS
    <2>4. u # <<>>
      BY <1>2, <2>2, <2>3
    <2>5. ASSUME NEW j \in 1 .. Len(u) PROVE \E i \in 1 .. n : blocks[i].tag = tag /\ u[j] = blocks[i]
      <3>1. CASE j \in 1 .. Len(t)
        BY <1>3, <2>2, <2>3, <3>1
      <3>2. CASE j \notin 1 .. Len(t)
        <4>1. j = Len(t) + 1
          BY <1>2, <2>2, <2>3, <3>2
        <4> QED
          BY <1>1, <1>4, <2>1, <2>2, <2>3, <4>1
      <3> QED
        BY <3>1, <3>2
    <2>6. Among(u, blocks, n, tag)
      BY <2>2, <2>3, <2>4, <2>5, Zenon DEF Among
    <2> QED
      BY <1>4, <2>1, <2>3, <2>6 DEF Collect
  <1>5. CASE blocks[n].tag # tag
    <2>1. ASSUME NEW i \in 1 .. n, blocks[i].tag = tag PROVE t # <<>>
      <3>1. i \in 1 .. n - 1
        BY <1>5, <2>1
      <3> QED
        BY <2>1, <3>1 DEF Among
    <2>2. Among(t, blocks, n, tag)
      BY <1>2, <1>3, <2>1, Zenon DEF Among
    <2> QED
      BY <1>5, <2>2 DEF Collect
  <1> QED
    BY <1>4, <1>5

(* Tagged finds blocks of the tag only, and one if there is one.            *)
LEMMA TaggedIs ==
  ASSUME NEW blocks \in Seq(Blocks), NEW tag
  PROVE  Among(Tagged(blocks, tag), blocks, Len(blocks), tag)
  <1>1. PICK found : Collects(found, blocks, tag) /\ Tagged(blocks, tag) = found[Len(blocks)]
    BY TaggedCollects
  <1> DEFINE S == {n \in 0 .. Len(blocks) : Among(found[n], blocks, n, tag)}
  <1>2. 0 \in S
    <2>1. found[0] = <<>> /\ 0 \in 0 .. Len(blocks)
      BY <1>1 DEF Collects
    <2>2. Among(<<>>, blocks, 0, tag)
      BY DEF Among
    <2> QED
      BY <2>1, <2>2
  <1>3. ASSUME NEW n \in 1 .. Len(blocks), n - 1 \in S PROVE n \in S
    <2>1. Among(Collect(blocks[n], found[n - 1], tag), blocks, n, tag)
      BY <1>3, AmongGrows
    <2>2. found[n] = Collect(blocks[n], found[n - 1], tag)
      BY <1>1 DEF Collects
    <2>3. n \in 0 .. Len(blocks)
      OBVIOUS
    <2> QED
      BY <2>1, <2>2, <2>3
  <1> HIDE DEF S
  <1>4. 0 .. Len(blocks) \subseteq S
    <2>1. Len(blocks) \in Nat
      OBVIOUS
    <2> QED
      BY <1>2, <1>3, <2>1, BoundedInduction
  <1>5. Len(blocks) \in S
    BY <1>4
  <1> QED
    BY <1>1, <1>5 DEF S

(* If the first k of the blocks have the tag, and no other, they are those. *)
LEMMA TaggedPrefix ==
  ASSUME NEW blocks \in Seq(Blocks), NEW tag, NEW k \in 0 .. Len(blocks),
         \A i \in 1 .. Len(blocks) : blocks[i].tag = tag <=> i <= k
  PROVE  Tagged(blocks, tag) = SubSeq(blocks, 1, k)
  <1>1. PICK found : Collects(found, blocks, tag) /\ Tagged(blocks, tag) = found[Len(blocks)]
    BY TaggedCollects
  <1> DEFINE Good(n) == /\ n <= k => found[n] = SubSeq(blocks, 1, n)
                        /\ n >= k => found[n] = SubSeq(blocks, 1, k)
             S == {n \in 0 .. Len(blocks) : Good(n)}
  <1>2. 0 \in S
    <2>1. found[0] = <<>> /\ 0 \in 0 .. Len(blocks)
      BY <1>1 DEF Collects
    <2>2. SubSeq(blocks, 1, 0) = <<>> /\ (0 >= k => k = 0)
      OBVIOUS
    <2> QED
      BY <2>1, <2>2
  <1>3. ASSUME NEW n \in 1 .. Len(blocks), n - 1 \in S PROVE n \in S
    <2>1. found[n] = Collect(blocks[n], found[n - 1], tag)
      BY <1>1 DEF Collects
    <2>2. n \in 0 .. Len(blocks) /\ Good(n - 1)
      BY <1>3
    <2>3. CASE n <= k
      <3>1. found[n - 1] = SubSeq(blocks, 1, n - 1) /\ blocks[n].tag = tag /\ (n >= k => n = k)
        BY <2>2, <2>3
      <3>2. found[n] = Append(SubSeq(blocks, 1, n - 1), blocks[n])
        BY <2>1, <3>1 DEF Collect
      <3>3. SubSeq(blocks, 1, n) = Append(SubSeq(blocks, 1, n - 1), blocks[n])
        <4> HIDE DEF Blocks
        <4> QED
          BY SMT
      <3>4. Good(n)
        BY <3>1, <3>2, <3>3
      <3> QED
        BY <2>2, <3>4
    <2>4. CASE n > k
      <3>1. n - 1 >= k /\ blocks[n].tag # tag /\ ~(n <= k)
        BY <2>4
      <3>2. found[n - 1] = SubSeq(blocks, 1, k)
        BY <2>2, <3>1
      <3>3. found[n] = SubSeq(blocks, 1, k)
        BY <2>1, <3>1, <3>2 DEF Collect
      <3> QED
        BY <2>2, <3>1, <3>3
    <2> QED
      BY <2>3, <2>4
  <1> HIDE DEF S
  <1>4. 0 .. Len(blocks) \subseteq S
    <2>1. Len(blocks) \in Nat
      OBVIOUS
    <2> QED
      BY <1>2, <1>3, <2>1, BoundedInduction
  <1>5. Good(Len(blocks)) /\ Len(blocks) >= k
    BY <1>4 DEF S
  <1> QED
    BY <1>1, <1>5

----------------------------------------------------------------------------
(* What it sees, at each of the stages.                                     *)

(* What a reader walks over: k sections, and behind them, up to block m,    *)
(* what close appends.                                                      *)
View(c, f, k, m) ==
  /\ k \in Nat /\ m \in Nat /\ k <= m /\ m <= Len(f) /\ Sections(c, f, k)
  /\ \A i \in k + 1 .. m : f[i].len = 1 /\ f[i].tag # "vc"
  /\ m < Len(f) => f[m + 1].len = 0
Faithful(c, f, m) ==
  \A i \in 1 .. m : f[i].tag \in {"geom", "blackout"} => f[i].data = Val(c, f[i].tag)
Viewed(c, f, k, m) == View(c, f, k, m) /\ Faithful(c, f, m)

(* A file of sections, or with an open header behind them.                  *)
LEMMA AllSections ==
  ASSUME NEW c, NEW f \in Seq(Blocks), NEW m \in Nat, Sections(c, f, m), m < Len(f) => f[m + 1].len = 0
  PROVE  Viewed(c, f, m, m)
  <1>1. m <= Len(f)
    BY DEF Sections
  <1>2. \A i \in m + 1 .. m : f[i].len = 1 /\ f[i].tag # "vc"
    OBVIOUS
  <1>3. View(c, f, m, m)
    BY <1>1, <1>2 DEF View
  <1>4. \A i \in 1 .. m : f[i].tag = "vc"
    BY DEF Sections, Section
  <1> QED
    BY <1>3, <1>4 DEF Viewed, Faithful

(* An empty file.                                                           *)
LEMMA EmptyViewed ==
  ASSUME NEW c, NEW f, f = <<>>
  PROVE  Viewed(c, f, 0, 0)
  <1>1. f \in Seq(Blocks) /\ Len(f) = 0
    OBVIOUS
  <1>2. Sections(c, f, 0) /\ ~(0 < Len(f))
    BY <1>1 DEF Sections
  <1> QED
    BY <1>1, <1>2, AllSections

(* Sections and the open header.                                            *)
LEMMA BegunViewed ==
  ASSUME NEW c, NEW f \in Seq(Blocks), NEW m \in Nat, NEW data, Begun(c, f, m, data)
  PROVE  Viewed(c, f, m, m)
  <1>1. Sections(c, f, m)
    BY DEF Begun
  <1>2. f[m + 1].len = 0
    BY DEF Begun, Block
  <1> QED
    BY <1>1, <1>2, AllSections

(* A section with its length that is not tagged yet is skipped.             *)
LEMMA SizedViewed ==
  ASSUME NEW c, NEW f \in Seq(Blocks), NEW n \in Nat, NEW cur, n >= 1, Sized(c, f, n, cur)
  PROVE  Viewed(c, f, n - 1, n)
  <1>1. Len(f) = n /\ Sections(c, f, n - 1)
    BY DEF Sized
  <1>2. f[n].len = 1 /\ f[n].tag = "skip"
    BY DEF Sized, Block
  <1>3. \A i \in (n - 1) + 1 .. n : f[i].len = 1 /\ f[i].tag # "vc"
    <2>1. \A i \in (n - 1) + 1 .. n : i = n
      OBVIOUS
    <2> QED
      BY <1>2, <2>1
  <1>4. View(c, f, n - 1, n)
    <2>1. n - 1 \in Nat /\ n - 1 <= n /\ n <= Len(f) /\ ~(n < Len(f))
      BY <1>1
    <2> QED
      BY <1>1, <1>3, <2>1 DEF View
  <1>5. \A i \in 1 .. n : f[i].tag = "vc" \/ f[i].tag = "skip"
    <2>1. \A i \in 1 .. n - 1 : f[i].tag = "vc"
      BY <1>1 DEF Sections, Section
    <2>2. \A i \in 1 .. n : i \in 1 .. n - 1 \/ i = n
      OBVIOUS
    <2> QED
      BY <1>2, <2>1, <2>2
  <1> QED
    BY <1>4, <1>5 DEF Viewed, Faithful

(* ... while close appends: nothing of a file without a section.            *)
LEMMA AppendedFaithful ==
  ASSUME NEW c, NEW f \in Seq(Blocks), NEW m \in Nat, NEW tags, c.secnum \in Nat, c.secnum > 0,
         Appended(c, f, m, tags)
  PROVE  Faithful(c, f, m)
  <1>1. /\ \A tag \in tags : Once(c, f, m, tag)
        /\ \A tag \in SectionTags \ tags : None(f, m, tag)
    BY DEF Appended
  <1>2. SUFFICES ASSUME NEW i \in 1 .. m, NEW tag \in {"geom", "blackout"}, f[i].tag = tag
                 PROVE  f[i].data = Val(c, tag)
    BY DEF Faithful
  <1>3. tag \in SectionTags
    BY DEF SectionTags
  <1>4. tag \in tags
    BY <1>1, <1>2, <1>3 DEF None
  <1>5. PICK j \in 1 .. m : /\ f[j].tag = tag /\ f[j].data = Val(c, tag)
                            /\ \A h \in 1 .. m : f[h].tag = tag => h = j
    BY <1>1, <1>4 DEF Once
  <1>6. i = j
    BY <1>2, <1>5
  <1> QED
    BY <1>5, <1>6

(* Without a section the walk ends at the first block.                      *)
LEMMA OpenViewed ==
  ASSUME NEW c, NEW f \in Seq(Blocks), NEW m, NEW tags, c.secnum = 0, Appended(c, f, m, tags)
  PROVE  Viewed(c, f, 0, 0)
  <1>1. f[1].len = 0
    BY DEF Appended
  <1>2. Sections(c, f, 0)
    BY DEF Sections
  <1> QED
    BY <1>1, <1>2, AllSections

(* With all that was appended in its place.                                 *)
LEMMA WholeViewed ==
  ASSUME NEW c, NEW f \in Seq(Blocks), NEW tags, c.secnum \in Nat, Whole(c, f, tags)
  PROVE  \E m : Viewed(c, f, c.secnum, m) /\ (c.secnum > 0 => m = Len(f))
  <1> DEFINE n == Len(f)
  <1>0. n \in Nat /\ Appended(c, f, n, tags)
    BY DEF Whole
  <1> HIDE DEF n
  <1>1. CASE c.secnum = 0
    <2>1. Viewed(c, f, 0, 0)
      BY <1>0, <1>1, OpenViewed
    <2> QED
      BY <1>1, <2>1
  <1>2. CASE c.secnum > 0
    <2>1. /\ c.secnum <= n /\ Sections(c, f, c.secnum)
          /\ \A i \in c.secnum + 1 .. n : f[i].len = 1 /\ f[i].tag # "vc"
      BY <1>0, <1>2 DEF Appended
    <2>2. View(c, f, c.secnum, n)
      <3>1. n <= Len(f) /\ ~(n < Len(f))
        BY DEF n
      <3> QED
        BY <1>0, <2>1, <3>1 DEF View
    <2>3. Faithful(c, f, n)
      BY <1>0, <1>2, AppendedFaithful
    <2> QED
      BY <2>2, <2>3 DEF Viewed, n
  <1> QED
    BY <1>1, <1>2

(* With a block that has no tag yet.                                        *)
LEMMA GrowingViewed ==
  ASSUME NEW c, NEW f \in Seq(Blocks), NEW tags, NEW len \in {0, 1}, NEW data, c.secnum \in Nat,
         Growing(c, f, tags, len, data)
  PROVE  \E m : Viewed(c, f, c.secnum, m)
  <1>0. PICK n \in Nat : n = Len(f) - 1
    <2>1. Len(f) \in Nat /\ Len(f) > 0
      BY DEF Growing
    <2> QED
      BY <2>1
  <1>1. Len(f) = n + 1 /\ Appended(c, f, n, tags) /\ f[n + 1] = Block("skip", len, 0, 0, data)
    <2>1. Len(f) = n + 1
      BY <1>0
    <2>2. Appended(c, f, Len(f) - 1, tags) /\ f[Len(f)] = Block("skip", len, 0, 0, data)
      BY DEF Growing
    <2> QED
      BY <1>0, <2>1, <2>2
  <1>2. f[n + 1].len = len /\ f[n + 1].tag = "skip"
    BY <1>1 DEF Block
  <1>3. CASE c.secnum = 0
    <2>1. Viewed(c, f, 0, 0)
      BY <1>1, <1>3, OpenViewed
    <2> QED
      BY <1>3, <2>1
  <1>4. CASE c.secnum > 0
    <2>1. /\ c.secnum <= n /\ Sections(c, f, c.secnum)
          /\ \A i \in c.secnum + 1 .. n : f[i].len = 1 /\ f[i].tag # "vc"
      BY <1>1, <1>4 DEF Appended
    <2>2. Faithful(c, f, n)
      BY <1>1, <1>4, AppendedFaithful
    <2>3. CASE len = 0
      <3>1. View(c, f, c.secnum, n)
        BY <1>1, <1>2, <2>1, <2>3 DEF View
        <3> QED
        BY <2>2, <3>1 DEF Viewed
    <2>4. CASE len = 1
      <3>1. \A i \in c.secnum + 1 .. n + 1 : i \in c.secnum + 1 .. n \/ i = n + 1
        OBVIOUS
      <3>2. View(c, f, c.secnum, n + 1)
        <4>1. \A i \in c.secnum + 1 .. n + 1 : f[i].len = 1 /\ f[i].tag # "vc"
          BY <1>2, <2>1, <2>4, <3>1
        <4>2. c.secnum <= n + 1 /\ n + 1 \in Nat /\ n + 1 <= Len(f) /\ ~(n + 1 < Len(f))
          BY <1>1, <2>1
        <4> QED
          BY <2>1, <4>1, <4>2 DEF View
      <3>3. Faithful(c, f, n + 1)
        <4>1. \A i \in 1 .. n + 1 : i \in 1 .. n \/ i = n + 1
          OBVIOUS
        <4>2. f[n + 1].tag \notin {"geom", "blackout"}
          BY <1>2
        <4> QED
          BY <2>2, <4>1, <4>2 DEF Faithful
        <3> QED
        BY <3>2, <3>3 DEF Viewed
    <2> QED
      BY <2>3, <2>4
  <1> QED
    BY <1>3, <1>4

(* What a viewer can read, with u flushes not done yet.                     *)
Left(t, p) == (IF Queued(t) THEN 1 ELSE 0)
              + (IF p.state # "none" /\ (Queued(p.todo) \/ p.state = "created") THEN 1 ELSE 0)
HierThere(c, d, m) ==
  IF d.hier_exists THEN HierFlushed(c, d) ELSE Packed(c, d) /\ \E i \in 1 .. m : d.file[i].tag = "hier"
Dated(c, d, m) ==
  Unnamed(d) \/ (Timed(c, d) /\ (m < Len(d.file) => c.secnum = 0 /\ c.already_in_close))
Reads(c, d, u, k, m) ==
  /\ u \in Nat /\ u <= c.secnum /\ c.secnum - u <= k /\ k <= c.secnum
  /\ Viewed(c, d.file, k, m) /\ Dated(c, d, m)
  /\ k > 0 => HierThere(c, d, m)
  /\ d.named \/ d.pak = "done"
CanRead(c, d, t, p) == \E k, m : Reads(c, d, Left(t, p), k, m)

(* Without a thread, at most one flush is left to do.                       *)
LEMMA MainLeft ==
  ASSUME NEW t, NEW p, p.state = "none"
  PROVE  Left(t, p) \in {0, 1} /\ (Left(t, p) = 1 <=> Queued(t))
  BY DEF Left

(* As long as the header says nothing and .hier is there.                   *)
LEMMA OpenReads ==
  ASSUME NEW c \in Ctx, NEW d \in Disk, NEW k, NEW m, NEW u \in Nat, u <= c.secnum,
         Viewed(c, d.file, k, m), c.secnum - u <= k, k <= c.secnum, Untouched(c, d),
         k > 0 => HierFlushed(c, d)
  PROVE  Reads(c, d, u, k, m)
  <1>1. Unnamed(d) /\ d.hier_exists /\ d.named
    BY DEF Untouched, Intact
  <1>2. Dated(c, d, m)
    BY <1>1 DEF Dated
  <1>3. k > 0 => HierThere(c, d, m)
    BY <1>1 DEF HierThere
  <1> QED
    BY <1>1, <1>2, <1>3 DEF Reads

(* Between two calls.                                                       *)
LEMMA QuietReads ==
  ASSUME NEW md, NEW c, NEW t, NEW p, NEW d, Base(c, d), Quiet(md, c, t, p, d)
  PROVE  CanRead(c, d, t, p)
  <1>1. c \in Ctx /\ d \in Disk /\ CtxInv(c) /\ c.secnum \in Nat /\ d.file \in Seq(Blocks)
    BY DEF Base, Ctx, Disk
  <1>2. t = <<>> /\ p.state = "none" /\ Untouched(c, d) /\ Resting(md, c, d) /\ (c.mapped => HierFlushed(c, d))
    BY DEF Quiet
  <1>3. Left(t, p) = 0
    BY <1>2, MainLeft, EmptyClean DEF Clean
  <1>4. c.secnum > 0 => HierFlushed(c, d)
    BY <1>1, <1>2 DEF CtxInv
  <1>5. Viewed(c, d.file, c.secnum, c.secnum)
    <2>1. CASE c.is_initial_time
      BY <1>1, <1>2, <2>1, EmptyViewed DEF Resting, CtxInv
    <2>2. CASE ~c.is_initial_time
      BY <1>1, <1>2, <2>2, BegunViewed DEF Resting
    <2> QED
      BY <2>1, <2>2
  <1>6. 0 \in Nat /\ 0 <= c.secnum /\ c.secnum - 0 <= c.secnum /\ c.secnum <= c.secnum
    BY <1>1
  <1>7. Reads(c, d, 0, c.secnum, c.secnum)
    BY <1>1, <1>2, <1>4, <1>5, <1>6, OpenReads
  <1> QED
    BY <1>3, <1>7 DEF CanRead

(* While the first header is written.                                       *)
LEMMA StartingReads ==
  ASSUME NEW md, NEW c, NEW t, NEW p, NEW d, Base(c, d), Starting(md, c, t, p, d)
  PROVE  CanRead(c, d, t, p)
  <1>1. c \in Ctx /\ d \in Disk /\ CtxInv(c) /\ c.secnum \in Nat /\ d.file \in Seq(Blocks)
    BY DEF Base, Ctx, Disk
  <1>2. p.state = "none" /\ Untouched(c, d) /\ d.file = <<>>
        /\ (c.is_initial_time => ~c.already_in_close) /\ (~c.already_in_close => c.secnum = 0)
        /\ (c.already_in_close => c.secnum = IF Handles(c) = 0 THEN 0 ELSE 1)
    BY DEF Starting
  <1>3. c.secnum \in {0, 1} /\ (c.secnum = 1 => c.already_in_close)
    BY <1>2
  <1>4. Viewed(c, d.file, 0, 0)
    BY <1>2, EmptyViewed
  <1>5. HierFlushed(c, d) \/ t = ToMapping(md, c)
    BY DEF Starting
  <1>6. /\ IsList(AfterHeader(md, c)) /\ (Queued(AfterHeader(md, c)) <=> c.secnum = 1)
    <2>1. CASE c.secnum = 0
      <3>1. Clean(ToGeom(md, c)) /\ Clean(<<>>)
        BY CloseClean, EmptyClean
      <3>2. Clean(AfterHeader(md, c))
        BY <2>1, <3>1 DEF AfterHeader
      <3> QED
        BY <2>1, <3>2 DEF Clean
    <2>2. CASE c.secnum = 1
      <3>1. AfterHeader(md, c) = ToFlush(md, c, 0)
        BY <1>3, <2>2 DEF AfterHeader
      <3>2. IsList(AfterFlush(md, c)) /\ IsList(<<>>)
        BY CloseClean, EmptyClean DEF Clean
      <3>3. IsList(ToFlush(md, c, 0)) /\ Queued(ToFlush(md, c, 0))
        <4>1. CASE Threads(md)
          <5>1. PICK arg : arg = ToBody(c.secnum, 0, ~c.already_in_close, <<>>)
            OBVIOUS
          <5>2. ToFlush(md, c, 0) = Then("spawn", arg, AfterFlush(md, c))
            BY <4>1, <5>1 DEF ToFlush
          <5>3. Marks(Op("spawn", arg))
            BY DEF Marks, Op
          <5>4. IsList(Then("spawn", arg, AfterFlush(md, c))) /\ Queued(Then("spawn", arg, AfterFlush(md, c)))
            BY <3>2, <5>3, ThenList, ThenQueued
          <5> QED
            BY <5>2, <5>4
        <4>2. CASE ~Threads(md)
          <5>1. ToFlush(md, c, 0) = ToBody(c.secnum, 0, ~c.already_in_close, AfterFlush(md, c))
            BY <4>2 DEF ToFlush
          <5>2. PICK n, more : n = c.secnum /\ more = ~c.already_in_close
            OBVIOUS
          <5>3. IsList(ToBody(n, 0, more, AfterFlush(md, c))) /\ Queued(ToBody(n, 0, more, AfterFlush(md, c)))
            BY <3>2, FlushQueued
          <5> QED
            BY <5>1, <5>2, <5>3
        <4> QED
          BY <4>1, <4>2
      <3> QED
        BY <2>2, <3>1, <3>3
    <2> QED
      BY <1>3, <2>1, <2>2
  <1>7. Queued(t) <=> c.secnum = 1
    <2>1. IsList(AfterMapping(md, c)) /\ (Queued(AfterMapping(md, c)) <=> c.secnum = 1)
      <3>1. CASE c.is_initial_time
        <4>1. c.secnum = 0
          BY <1>1, <3>1 DEF CtxInv
        <4> QED
          BY <3>1, <4>1, EmptyClean DEF AfterMapping, Clean
      <3>2. CASE ~c.is_initial_time
        <4>1. AfterMapping(md, c) = Then("header", c.firsttime, AfterHeader(md, c))
          BY <3>2 DEF AfterMapping
        <4>2. ~Marks(Op("header", c.firsttime))
          BY DEF Marks, Op
        <4> QED
          BY <1>6, <4>1, <4>2, ThenList, ThenQueued
      <3> QED
        BY <3>1, <3>2
    <2>2. ~Marks(Op("times", <<0, 0>>)) /\ ~Marks(Op("flush_hier", c.hier))
      BY DEF Marks, Op
    <2>3. IsList(ToMapTimes(md, c)) /\ (Queued(ToMapTimes(md, c)) <=> c.secnum = 1)
      BY <2>1, <2>2, ThenList, ThenQueued DEF ToMapTimes
    <2>4. Queued(ToMapping(md, c)) <=> c.secnum = 1
      BY <2>2, <2>3, ThenList, ThenQueued DEF ToMapping
    <2>5. t = ToMapping(md, c) \/ t = ToMapTimes(md, c) \/ t = AfterMapping(md, c)
      BY DEF Starting
    <2> QED
      BY <2>1, <2>3, <2>4, <2>5
  <1>8. Left(t, p) = c.secnum
    BY <1>2, <1>3, <1>7, MainLeft
  <1>9. /\ c.secnum \in Nat /\ c.secnum <= c.secnum /\ c.secnum - c.secnum <= 0 /\ 0 <= c.secnum
    BY <1>1
  <1>10. Reads(c, d, c.secnum, 0, 0)
    <2>1. Unnamed(d) /\ d.hier_exists /\ d.named
      BY <1>2 DEF Untouched, Intact
    <2>2. Dated(c, d, 0)
      BY <2>1 DEF Dated
    <2>3. ~(0 > 0)
      OBVIOUS
    <2> QED
      BY <1>1, <1>2, <1>4, <1>9, <2>1, <2>2, <2>3 DEF Reads
  <1> QED
    BY <1>8, <1>10 DEF CanRead

(* ... while a section is flushed: all but the last, until it is tagged.    *)
LEMMA FlushLeftViewed ==
  ASSUME NEW c \in Ctx, NEW d \in Disk, NEW todo, NEW rest, IsList(rest), c.secnum > 0,
         FlushLeft(c, d, todo, rest)
  PROVE  \E k, m : Viewed(c, d.file, k, m) /\ (k = c.secnum \/ (k = c.secnum - 1 /\ Queued(todo)))
  <1>1. PICK n, f : n = c.secnum /\ f = d.file
    OBVIOUS
  <1>2. n \in Nat /\ n >= 1 /\ n - 1 \in Nat /\ f \in Seq(Blocks)
    BY <1>1 DEF Ctx, Disk
  <1>3. PICK cur : ToDo(c, f, todo, cur, rest)
    BY <1>1 DEF FlushLeft
  <1>4. PICK more : more = ~c.already_in_close
    OBVIOUS
  <1>5. /\ Queued(ToTag(n, cur, more, rest)) /\ Queued(ToLength(n, cur, more, rest))
        /\ Queued(ToBody(n, cur, more, rest))
    BY FlushQueued
  <1>6. \/ todo = ToBody(n, cur, more, rest) /\ Begun(c, f, n - 1, 0)
        \/ todo = ToLength(n, cur, more, rest) /\ Begun(c, f, n - 1, n)
        \/ todo = ToTag(n, cur, more, rest) /\ Sized(c, f, n, cur)
        \/ Complete(c, f, n, cur)
    BY <1>1, <1>3, <1>4, Zenon DEF ToDo
  <1>7. CASE \/ todo = ToBody(n, cur, more, rest) /\ Begun(c, f, n - 1, 0)
             \/ todo = ToLength(n, cur, more, rest) /\ Begun(c, f, n - 1, n)
    <2>1. Queued(todo) /\ Viewed(c, f, n - 1, n - 1)
      BY <1>2, <1>5, <1>7, BegunViewed
    <2> QED
      BY <1>1, <2>1
  <1>8. CASE todo = ToTag(n, cur, more, rest) /\ Sized(c, f, n, cur)
    <2>1. Queued(todo) /\ Viewed(c, f, n - 1, n)
      BY <1>2, <1>5, <1>8, SizedViewed
    <2> QED
      BY <1>1, <2>1
  <1>9. CASE Complete(c, f, n, cur)
    <2>1. Sections(c, f, n) /\ ~(n < Len(f))
      BY <1>2, <1>9 DEF Complete
    <2>2. Viewed(c, f, n, n)
      BY <1>2, <2>1, AllSections
    <2> QED
      BY <1>1, <2>2
  <1> QED
    BY <1>6, <1>7, <1>8, <1>9

(* Behind the tag all of them.                                              *)
LEMMA FlushedViewed ==
  ASSUME NEW md, NEW c \in Ctx, NEW d \in Disk, Flushed(md, c, d)
  PROVE  Viewed(c, d.file, c.secnum, c.secnum)
  <1>1. c.secnum \in Nat /\ d.file \in Seq(Blocks)
    BY DEF Ctx, Disk
  <1>2. CASE c.already_in_close
    <2>1. Sections(c, d.file, c.secnum) /\ ~(c.secnum < Len(d.file))
      BY <1>1, <1>2 DEF Flushed
    <2> QED
      BY <1>1, <2>1, AllSections
  <1>3. CASE ~c.already_in_close
    BY <1>1, <1>3, BegunViewed DEF Flushed
  <1> QED
    BY <1>2, <1>3

(* Before the thread starts all but the last.                               *)
LEMMA UnbegunViewed ==
  ASSUME NEW c \in Ctx, NEW d \in Disk, NEW todo, c.secnum > 0, Unbegun(c, d, todo)
  PROVE  Viewed(c, d.file, c.secnum - 1, c.secnum - 1)
  <1>1. c.secnum - 1 \in Nat /\ d.file \in Seq(Blocks)
    BY DEF Ctx, Disk
  <1>2. Begun(c, d.file, c.secnum - 1, 0)
    BY DEF Unbegun
  <1> QED
    BY <1>1, <1>2, BegunViewed

(* So every flush but the one in progress can be read.                      *)
LEMMA FlushingReads ==
  ASSUME NEW md, NEW c, NEW t, NEW p, NEW d, Base(c, d), Flushing(md, c, t, p, d)
  PROVE  CanRead(c, d, t, p)
  <1>1. c \in Ctx /\ d \in Disk /\ c.secnum \in Nat /\ d.file \in Seq(Blocks)
    BY DEF Base, Ctx, Disk
  <1>2. Untouched(c, d) /\ HierFlushed(c, d) /\ c.secnum > 0
    BY DEF Flushing, Mapped
  <1>3. Clean(AfterFlush(md, c)) /\ IsList(AfterFlush(md, c)) /\ IsList(<<>>)
    BY CloseClean, EmptyClean DEF Clean
  <1>4. /\ Left(t, p) \in {0, 1}
        /\ \E k, m : Viewed(c, d.file, k, m) /\ (k = c.secnum \/ (k = c.secnum - 1 /\ Left(t, p) = 1))
    <2>1. CASE Serial(md, c, t, p, d)
      <3>1. p.state = "none" /\ FlushLeft(c, d, t, AfterFlush(md, c))
        BY <2>1 DEF Serial
      <3>2. PICK k, m : Viewed(c, d.file, k, m) /\ (k = c.secnum \/ (k = c.secnum - 1 /\ Queued(t)))
        BY <1>1, <1>2, <1>3, <3>1, FlushLeftViewed
      <3> QED
        BY <3>1, <3>2, MainLeft
    <2>2. CASE Spawning(md, c, t, p, d)
      <3>1. PICK arg : /\ p.state = "none" /\ arg = Head(t).arg /\ t = Then("spawn", arg, AfterFlush(md, c))
                       /\ Unbegun(c, d, arg)
        BY <2>2 DEF Spawning
      <3>2. Marks(Op("spawn", arg))
        BY DEF Marks, Op
      <3>3. Queued(t)
        BY <1>3, <3>1, <3>2, ThenQueued
      <3>4. Viewed(c, d.file, c.secnum - 1, c.secnum - 1)
        BY <1>1, <1>2, <3>1, UnbegunViewed
      <3> QED
        BY <3>1, <3>3, <3>4, MainLeft
    <2>3. CASE Created(md, c, t, p, d)
      <3>1. p.state = "created" /\ t = AfterFlush(md, c) /\ Unbegun(c, d, p.todo)
        BY <2>3 DEF Created
      <3>2. Left(t, p) = 1
        BY <1>3, <3>1 DEF Left, Clean
      <3>3. Viewed(c, d.file, c.secnum - 1, c.secnum - 1)
        BY <1>1, <1>2, <3>1, UnbegunViewed
      <3> QED
        BY <3>2, <3>3
    <2>4. CASE Locked(md, c, t, p, d)
      <3>1. /\ p.state = "locked" /\ t = AfterFlush(md, c)
            /\ FlushLeft(c, d, p.todo, <<>>) \/ Flushed(md, c, d)
        BY <2>4 DEF Locked
      <3>2. Left(t, p) \in {0, 1} /\ (Left(t, p) = 1 <=> Queued(p.todo))
        BY <1>3, <3>1 DEF Left, Clean
      <3>3. CASE FlushLeft(c, d, p.todo, <<>>)
        <4>1. PICK k, m : Viewed(c, d.file, k, m) /\ (k = c.secnum \/ (k = c.secnum - 1 /\ Queued(p.todo)))
          BY <1>1, <1>2, <1>3, <3>3, FlushLeftViewed
        <4> QED
          BY <3>2, <4>1
      <3>4. CASE Flushed(md, c, d)
        <4>1. Viewed(c, d.file, c.secnum, c.secnum)
          BY <1>1, <3>4, FlushedViewed
        <4> QED
          BY <3>2, <4>1
      <3> QED
        BY <3>1, <3>3, <3>4
    <2>5. CASE Waiting(md, c, t, p, d)
      <3>1. p.state = "none" /\ Flushed(md, c, d)
        BY <2>5 DEF Waiting
      <3>2. Viewed(c, d.file, c.secnum, c.secnum)
        BY <1>1, <3>1, FlushedViewed
      <3> QED
        BY <3>1, <3>2, MainLeft
    <2> QED
      BY <2>1, <2>2, <2>3, <2>4, <2>5 DEF Flushing
  <1>5. PICK k, m : Viewed(c, d.file, k, m) /\ (k = c.secnum \/ (k = c.secnum - 1 /\ Left(t, p) = 1))
    BY <1>4
  <1>6. PICK u : u = Left(t, p)
    OBVIOUS
  <1>7. u \in Nat /\ u <= c.secnum /\ c.secnum - u <= k /\ k <= c.secnum
    BY <1>1, <1>2, <1>4, <1>5, <1>6
  <1>8. Reads(c, d, u, k, m)
    BY <1>1, <1>2, <1>5, <1>7, OpenReads
  <1> QED
    BY <1>6, <1>8 DEF CanRead

(* ... and in close.                                                        *)
LEMMA CleanReads ==
  ASSUME NEW c \in Ctx, NEW d \in Disk, NEW t, NEW p, NEW m, p.state = "none", ~Queued(t),
         HierFlushed(c, d), Untouched(c, d), Viewed(c, d.file, c.secnum, m)
  PROVE  CanRead(c, d, t, p)
  <1>1. c.secnum \in Nat
    BY DEF Ctx
  <1>2. Left(t, p) = 0
    BY MainLeft
  <1>3. 0 \in Nat /\ 0 <= c.secnum /\ c.secnum - 0 <= c.secnum /\ c.secnum <= c.secnum
    BY <1>1
  <1>4. Reads(c, d, 0, c.secnum, m)
    BY <1>3, OpenReads
  <1> QED
    BY <1>2, <1>4 DEF CanRead

(* Before the open header is cut off.                                       *)
LEMMA TruncatingReads ==
  ASSUME NEW md, NEW c, NEW t, NEW p, NEW d, Base(c, d), Truncating(md, c, t, p, d)
  PROVE  CanRead(c, d, t, p)
  <1>1. c \in Ctx /\ d \in Disk /\ c.secnum \in Nat /\ d.file \in Seq(Blocks)
    BY DEF Base, Ctx, Disk
  <1>2. /\ p.state = "none" /\ HierFlushed(c, d) /\ Untouched(c, d) /\ Begun(c, d.file, c.secnum, 0)
        /\ t = Then("truncate", c.secnum, ToGeom(md, c))
    BY DEF Truncating, InClose
  <1>3. Viewed(c, d.file, c.secnum, c.secnum)
    BY <1>1, <1>2, BegunViewed
  <1>4. Clean(ToGeom(md, c))
    BY CloseClean
  <1>5. ~Queued(t)
    <2>1. Clean(Then("truncate", c.secnum, ToGeom(md, c)))
      <3>1. "truncate" \notin {"spawn", "tag"}
        OBVIOUS
      <3> QED
        BY <1>4, <3>1, ThenClean
    <2> QED
      BY <1>2, <2>1 DEF Clean
  <1> QED
    BY <1>1, <1>2, <1>3, <1>5, CleanReads

(* While sections are appended.                                             *)
LEMMA AppendingReads ==
  ASSUME NEW md, NEW c, NEW t, NEW p, NEW d, Base(c, d), Appending(md, c, t, p, d)
  PROVE  CanRead(c, d, t, p)
  <1>1. c \in Ctx /\ d \in Disk /\ c.secnum \in Nat /\ d.file \in Seq(Blocks)
    BY DEF Base, Ctx, Disk
  <1>2. p.state = "none" /\ HierFlushed(c, d) /\ Untouched(c, d)
    BY DEF Appending, InClose
  <1>3. ~Queued(t)
    <2>1. \/ t = ToGeom(md, c) \/ t = ToTagGeom(md, c) \/ t = ToBlackouts(md, c)
          \/ t = ToMeasureBlackouts(md, c) \/ t = ToTagBlackouts(md, c) \/ t = ToHier(md, c)
          \/ t = ToSpill(md, c) \/ t = ToPack(md, c) \/ t = ToMeasureHier(md, c) \/ t = ToTagHier(md, c)
          \/ t = ToUnlinkHier(md, c)
      BY Zenon DEF Appending, AtGeom, AtBlackouts, AtHier
    <2>2. Clean(t)
      BY <2>1, CloseClean
    <2> QED
      BY <2>2 DEF Clean
  <1>4. \/ \E tags : Whole(c, d.file, tags)
        \/ \E tags, data : Growing(c, d.file, tags, 0, data) \/ Growing(c, d.file, tags, 1, data)
    BY Zenon DEF Appending, AtGeom, AtBlackouts, AtHier
  <1>5. \E m : Viewed(c, d.file, c.secnum, m)
    <2>1. CASE \E tags : Whole(c, d.file, tags)
      BY <1>1, <2>1, WholeViewed
    <2>2. CASE \E tags, data : Growing(c, d.file, tags, 0, data) \/ Growing(c, d.file, tags, 1, data)
      BY <1>1, <2>2, GrowingViewed
    <2> QED
      BY <1>4, <2>1, <2>2
  <1> QED
    BY <1>1, <1>2, <1>3, <1>5, CleanReads
EndsWhole(md, c, d, m) ==
  /\ Viewed(c, d.file, c.secnum, m) /\ (c.secnum > 0 => m = Len(d.file))
  /\ c.secnum > 0 => HierThere(c, d, m)
(* Behind the last one, with the hierarchy in one of its places.            *)
LEMMA EndingViewed ==
  ASSUME NEW md, NEW c, NEW t, NEW p, NEW d, Base(c, d), Ending(md, c, t, p, d)
  PROVE  \E m : EndsWhole(md, c, d, m)
  <1>1. c \in Ctx /\ d \in Disk /\ c.secnum \in Nat /\ d.file \in Seq(Blocks)
    BY DEF Base, Ctx, Disk
  <1>2. HierFlushed(c, d) /\ HierKept(md, c, d) /\ Whole(c, d.file, WithHier(md, c))
    BY DEF Ending, InClose
  <1>3. PICK m : Viewed(c, d.file, c.secnum, m) /\ (c.secnum > 0 => m = Len(d.file))
    BY <1>1, <1>2, WholeViewed
  <1>4. ASSUME c.secnum > 0 PROVE HierThere(c, d, m)
    <2>1. CASE "compress_hier" \in md
      <3>1. ~d.hier_exists /\ Packed(c, d) /\ "hier" \in WithHier(md, c)
        BY <1>2, <2>1 DEF HierKept, WithHier
      <3>2. Once(c, d.file, m, "hier")
        BY <1>2, <1>3, <1>4, <3>1 DEF Whole, Appended
      <3> QED
        BY <3>1, <3>2 DEF HierThere, Once
    <2>2. CASE "compress_hier" \notin md
      BY <1>2, <2>2 DEF HierThere, HierKept
    <2> QED
      BY <2>1, <2>2
  <1> QED
    BY <1>3, <1>4 DEF EndsWhole

(* While header and names are set.                                          *)
LEMMA EndingReads ==
  ASSUME NEW md, NEW c, NEW t, NEW p, NEW d, Base(c, d), Ending(md, c, t, p, d)
  PROVE  CanRead(c, d, t, p)
  <1>1. c.secnum \in Nat
    BY DEF Base, Ctx
  <1>2. p.state = "none" /\ c.already_in_close
    BY DEF Ending, InClose
  <1>3. PICK m : EndsWhole(md, c, d, m)
    BY EndingViewed
  <1>4. ~Queued(t)
    <2>1. \/ t = ToTimes(md, c) \/ t = ToFlushHier(md, c) \/ t = ToRepack(md) \/ t = ToPakDone
          \/ t = ToUnlink \/ t = ToRename \/ t = ToClosed \/ t = <<>>
      BY Zenon DEF Ending
    <2>2. Clean(t)
      BY <2>1, CloseClean, EmptyClean
    <2> QED
      BY <2>2 DEF Clean
  <1>5. (Unnamed(d) \/ Timed(c, d)) /\ (d.named \/ d.pak = "done")
    BY DEF Ending, Intact
  <1>6. Dated(c, d, m)
    <2>1. m < Len(d.file) => c.secnum = 0
      <3>1. m \in Nat /\ m <= Len(d.file)
        BY <1>3 DEF EndsWhole, Viewed, View
      <3>2. c.secnum > 0 => m = Len(d.file)
        BY <1>3 DEF EndsWhole
      <3>3. ~(m = Len(d.file) /\ m < Len(d.file))
        BY <3>1
      <3> QED
        BY <1>1, <3>2, <3>3
    <2> QED
      BY <1>2, <1>5, <2>1 DEF Dated
  <1>7. Left(t, p) = 0
    BY <1>2, <1>4, MainLeft
  <1>8. 0 \in Nat /\ 0 <= c.secnum /\ c.secnum - 0 <= c.secnum /\ c.secnum <= c.secnum
    BY <1>1
  <1>9. Reads(c, d, 0, c.secnum, m)
    BY <1>3, <1>5, <1>6, <1>8 DEF EndsWhole, Reads
  <1> QED
    BY <1>7, <1>9 DEF CanRead

(* At any moment.                                                           *)
LEMMA StageReads ==
  ASSUME NEW md, NEW c, NEW t, NEW p, NEW d, Base(c, d), Stage(md, c, t, p, d)
  PROVE  CanRead(c, d, t, p)
  BY QuietReads, StartingReads, FlushingReads, TruncatingReads, AppendingReads, EndingReads DEF Stage

----------------------------------------------------------------------------
(* What it makes of it.                                                     *)

(* The parts of what fstReaderOpen makes of the disk.                       *)
Walked(d) == Scan(d).blocks
ByGeom(d) == Tagged(Walked(d), "geom") # <<>> /\ ~HdrIncomplete(d)
HierFound(d) == d.hier_exists \/ Tagged(Walked(d), "hier") # <<>>
(* Field by field.                                                          *)
LEMMA OpenedParts ==
  ASSUME NEW d
  PROVE  /\ Opened(d).sections = Tagged(Walked(d), "vc")
         /\ Opened(d).hier = Hierarchy(d, Walked(d))
         /\ ByGeom(d) => Opened(d).maxhandle = Tagged(Walked(d), "geom")[1].data
         /\ ~ByGeom(d) => Opened(d).maxhandle = MaxHandleOf(Opened(d).hier.records)
         /\ Opened(d).blackouts = IF Tagged(Walked(d), "blackout") = <<>> THEN 0
                                  ELSE Tagged(Walked(d), "blackout")[1].data
  BY DEF Opened, Walked, ByGeom

(* The times are those of the header, or of the sections if it has none.    *)
LEMMA OpenedTimes ==
  ASSUME NEW d
  PROVE  /\ HdrIncomplete(d) /\ Opened(d).sections # <<>> =>
              /\ Opened(d).start = Opened(d).sections[1].begin
              /\ Opened(d).end = Opened(d).sections[Len(Opened(d).sections)].end
         /\ ~HdrIncomplete(d) => Opened(d).start = d.start /\ Opened(d).end = d.end
  BY DEF Opened

(* When it fails, and when it does not.                                     *)
LEMMA OpenedOutcome ==
  ASSUME NEW d
  PROVE  /\ Opened(d).outcome = "misread" => Scan(d).misread
         /\ d.named /\ ~Scan(d).misread /\ ~Opened(d).hier.cut /\ Opened(d).sections # <<>>
              /\ Opened(d).maxhandle # 0 /\ HierFound(d) => Opened(d).outcome = "open"
  BY DEF Opened, HierFound, Walked

(* The walk ends where the view does, and its sections are those of it.     *)
Walks(d, k, m) ==
  /\ Walked(d) \in Seq(Blocks) /\ Len(Walked(d)) = m /\ \A i \in 1 .. m : Walked(d)[i] = d.file[i]
  /\ Scan(d).misread <=> (m < Len(d.file) /\ ~HdrIncomplete(d))
  /\ Opened(d).sections = SubSeq(d.file, 1, k)
(* A view is what is walked over.                                           *)
LEMMA ViewWalked ==
  ASSUME NEW c, NEW d \in Disk, NEW k, NEW m, Viewed(c, d.file, k, m)
  PROVE  Walks(d, k, m)
  <1> DEFINE f == d.file
             b == Walked(d)
  <1>1. f \in Seq(Blocks)
    BY DEF Disk
  <1>2. /\ k \in Nat /\ m \in Nat /\ k <= m /\ m <= Len(f) /\ (m < Len(f) => f[m + 1].len = 0)
        /\ \A i \in k + 1 .. m : f[i].len = 1 /\ f[i].tag # "vc"
        /\ \A i \in 1 .. k : f[i].len = 1 /\ f[i].tag = "vc"
    BY DEF Viewed, View, Sections, Section
  <1>3. \A i \in 1 .. m : i \in 1 .. k \/ i \in k + 1 .. m
    BY <1>2
  <1>4. \A i \in 1 .. m : f[i].len = 1
    BY <1>2, <1>3
  <1>5. b = SubSeq(f, 1, m) /\ (Scan(d).misread <=> (m < Len(f) /\ ~HdrIncomplete(d)))
    BY <1>2, <1>4, ScanStops DEF Walked
  <1> HIDE DEF f, b
  <1>6. b \in Seq(Blocks) /\ Len(b) = m /\ \A i \in 1 .. m : b[i] = f[i]
    <2> HIDE DEF Blocks
    <2> QED
      BY <1>1, <1>2, <1>5
  <1>7. \A i \in 1 .. Len(b) : b[i].tag = "vc" <=> i <= k
    <2> SUFFICES ASSUME NEW i \in 1 .. m PROVE b[i].tag = "vc" <=> i <= k
      BY <1>6
    <2>1. CASE i <= k
      <3>1. i \in 1 .. k
        BY <1>2, <2>1
      <3> QED
        BY <1>2, <1>6, <2>1, <3>1
    <2>2. CASE ~(i <= k)
      <3>1. i \in k + 1 .. m
        BY <1>2, <2>2
      <3> QED
        BY <1>2, <1>6, <2>2, <3>1
    <2> QED
      BY <2>1, <2>2
  <1>8. k \in 0 .. Len(b)
    BY <1>2, <1>6
  <1>9. Tagged(b, "vc") = SubSeq(b, 1, k)
    BY <1>6, <1>7, <1>8, TaggedPrefix
  <1>10. SubSeq(b, 1, k) = SubSeq(f, 1, k)
    <2>1. SubSeq(b, 1, k) \in Seq(Blocks) /\ SubSeq(f, 1, k) \in Seq(Blocks)
          /\ Len(SubSeq(b, 1, k)) = k /\ Len(SubSeq(f, 1, k)) = k
      <3> HIDE DEF Blocks
      <3> QED
        BY <1>1, <1>2, <1>6
    <2>2. \A i \in 1 .. k : SubSeq(b, 1, k)[i] = b[i] /\ SubSeq(f, 1, k)[i] = f[i] /\ i \in 1 .. m
      <3> HIDE DEF Blocks
      <3> QED
        BY <1>1, <1>2, <1>6
    <2>3. \A i \in 1 .. k : SubSeq(b, 1, k)[i] = SubSeq(f, 1, k)[i]
      BY <1>6, <2>2
    <2> QED
      BY <2>1, <2>3, SeqEqual
  <1>11. Opened(d).sections = SubSeq(f, 1, k)
    BY <1>9, <1>10, OpenedParts DEF b
  <1> QED
    BY <1>5, <1>6, <1>11 DEF f, b, Walks

(* A section that close appended, as the reader finds it.                   *)
HasTag(f, m, tag) == \E i \in 1 .. m : f[i].tag = tag
(* Its contents are those of the context.                                   *)
LEMMA TaggedFound ==
  ASSUME NEW c, NEW d \in Disk, NEW k, NEW m, Viewed(c, d.file, k, m), NEW tag
  PROVE  /\ HasTag(d.file, m, tag) => Tagged(Walked(d), tag) # <<>>
         /\ Tagged(Walked(d), tag) # <<>> /\ tag \in {"geom", "blackout"} =>
              Tagged(Walked(d), tag)[1].data = Val(c, tag)
  <1>0. /\ Walked(d) \in Seq(Blocks) /\ Len(Walked(d)) = m
        /\ \A i \in 1 .. m : Walked(d)[i] = d.file[i]
    <2>1. Walks(d, k, m)
      BY ViewWalked
    <2> QED
      BY <2>1 DEF Walks
  <1> DEFINE b == Walked(d)
             t == Tagged(b, tag)
  <1>1. b \in Seq(Blocks) /\ Len(b) = m /\ \A i \in 1 .. m : b[i] = d.file[i]
    BY <1>0
  <1> HIDE DEF b
  <1>2. Among(t, b, m, tag)
    BY <1>1, TaggedIs
  <1> HIDE DEF t
  <1>3. HasTag(d.file, m, tag) => t # <<>>
    BY <1>1, <1>2 DEF Among, HasTag
  <1>4. ASSUME t # <<>>, tag \in {"geom", "blackout"} PROVE t[1].data = Val(c, tag)
    <2>1. 1 \in 1 .. Len(t)
      BY <1>2, <1>4 DEF Among
    <2>2. PICK i \in 1 .. m : b[i].tag = tag /\ t[1] = b[i]
      BY <1>2, <2>1 DEF Among
    <2>3. d.file[i].tag = tag /\ t[1] = d.file[i]
      BY <1>1, <2>2
    <2>4. d.file[i].data = Val(c, tag)
      BY <1>4, <2>3 DEF Viewed, Faithful
    <2> QED
      BY <2>3, <2>4
  <1> QED
    BY <1>3, <1>4 DEF t, b

(* The sections are numbered, and each begins where the last one ended.     *)
Dates(c, s, k) ==
  /\ Len(s) = k /\ (s # <<>> <=> k > 0) /\ Numbers(s) = [i \in 1 .. k |-> i] /\ Chained(s)
  /\ k > 0 => s[1].begin = c.firsttime /\ s[Len(s)].end \in Nat /\ s[Len(s)].end <= c.curtime
(* So are those of the file.                                                *)
LEMMA SectionsDated ==
  ASSUME NEW c, NEW f \in Seq(Blocks), NEW k \in Nat, Sections(c, f, k)
  PROVE  Dates(c, SubSeq(f, 1, k), k)
  <1> DEFINE s == SubSeq(f, 1, k)
  <1>1. k <= Len(f) /\ \A i \in 1 .. k : Section(c, f, i)
    BY DEF Sections
  <1>2. s \in Seq(Blocks) /\ Len(s) = k /\ \A i \in 1 .. k : s[i] = f[i]
    <2> HIDE DEF Blocks
    <2> QED
      BY <1>1
  <1> HIDE DEF s
  <1>3. Numbers(s) = [i \in 1 .. k |-> i]
    <2>1. \A i \in 1 .. k : s[i].data = i
      BY <1>1, <1>2 DEF Section
    <2>2. Numbers(s) = [i \in 1 .. k |-> s[i].data]
      BY <1>2 DEF Numbers
    <2> QED
      BY <2>1, <2>2
  <1>4. Chained(s)
    <2> SUFFICES ASSUME NEW i \in 2 .. k PROVE s[i].begin = s[i - 1].end
      BY <1>2 DEF Chained
    <2>1. i \in 1 .. k /\ i - 1 \in 1 .. k /\ i - 1 # 0
      OBVIOUS
    <2>2. f[i].begin = f[i - 1].end
      BY <1>1, <2>1 DEF Section, Upto
    <2> QED
      BY <1>2, <2>1, <2>2
  <1>5. ASSUME k > 0
        PROVE  s[1].begin = c.firsttime /\ s[Len(s)].end \in Nat /\ s[Len(s)].end <= c.curtime
    <2>1. 1 \in 1 .. k /\ k \in 1 .. k /\ 1 - 1 = 0
      BY <1>5
    <2>2. f[1].begin = c.firsttime
      BY <1>1, <2>1 DEF Section, Upto
    <2>3. f[k].end <= c.curtime
      BY <1>1, <2>1 DEF Section
    <2>4. s[k].end \in Nat
      <3>1. s[k] \in Blocks
        BY <1>2, <2>1
      <3> QED
        BY <3>1 DEF Blocks
    <2> QED
      BY <1>2, <2>1, <2>2, <2>3, <2>4
  <1>6. s # <<>> <=> k > 0
    BY <1>2
  <1> QED
    BY <1>2, <1>3, <1>4, <1>5, <1>6 DEF Dates, s

(* What fstReaderOpen makes of a disk that can be read.                     *)
HierIs(c) == [records |-> c.hier, cut |-> FALSE]
OpensAs(c, d, k) ==
  /\ Dates(c, Opened(d).sections, k)
  /\ Scan(d).misread => c.secnum = 0 /\ c.already_in_close
  /\ k > 0 => /\ Opened(d).start = c.firsttime
              /\ Opened(d).end \in Nat /\ Opened(d).end >= Opened(d).sections[k].end
              /\ Opened(d).maxhandle = Handles(c) /\ Opened(d).hier = HierIs(c)
              /\ d.named => Opened(d).outcome = "open"
(* All of it from the view.                                                 *)
LEMMA ReadsOpened ==
  ASSUME NEW c, NEW d, NEW u, NEW k, NEW m, Base(c, d), Reads(c, d, u, k, m)
  PROVE  k \in Nat /\ OpensAs(c, d, k)
  <1>1. /\ c \in Ctx /\ d \in Disk /\ CtxInv(c) /\ c.secnum \in Nat /\ d.file \in Seq(Blocks)
        /\ c.firsttime \in Nat /\ c.curtime \in Nat /\ d.start \in Nat /\ d.end \in Nat
    BY DEF Base, Ctx, Disk
  <1>2. /\ Viewed(c, d.file, k, m) /\ Dated(c, d, m) /\ k <= c.secnum /\ k \in Nat /\ m \in Nat
        /\ Sections(c, d.file, k) /\ (k > 0 => HierThere(c, d, m))
    BY DEF Reads, Viewed, View
  <1>3. Walks(d, k, m)
    BY <1>1, <1>2, ViewWalked
  <1>4. PICK s : s = Opened(d).sections
    OBVIOUS
  <1>5. Dates(c, s, k)
    <2>1. Dates(c, SubSeq(d.file, 1, k), k)
      BY <1>1, <1>2, SectionsDated
    <2> QED
      BY <1>3, <1>4, <2>1 DEF Walks
  <1>6. Scan(d).misread => c.secnum = 0 /\ c.already_in_close
    BY <1>2, <1>3 DEF Walks, Dated, HdrIncomplete, Unnamed
  <1>7. ASSUME k > 0 PROVE Opened(d).start = c.firsttime /\ Opened(d).end \in Nat /\ Opened(d).end >= s[k].end
    <2>1. s # <<>> /\ Len(s) = k /\ s[1].begin = c.firsttime /\ s[k].end \in Nat /\ s[k].end <= c.curtime
      BY <1>5, <1>7 DEF Dates
    <2>2. CASE HdrIncomplete(d)
      <3>1. Opened(d).start = s[1].begin /\ Opened(d).end = s[k].end
        BY <1>4, <2>1, <2>2, OpenedTimes
      <3> QED
        BY <2>1, <3>1
    <2>3. CASE ~HdrIncomplete(d)
      <3>1. Opened(d).start = c.firsttime /\ Opened(d).end = c.curtime
        <4>1. Timed(c, d)
          BY <1>2, <2>3 DEF Dated, HdrIncomplete, Unnamed
        <4> QED
          BY <2>3, <4>1, OpenedTimes DEF Timed
      <3> QED
        BY <1>1, <2>1, <3>1
    <2> QED
      BY <2>2, <2>3
  <1>8. ASSUME k > 0
        PROVE  /\ Opened(d).maxhandle = Handles(c) /\ Opened(d).hier = HierIs(c)
               /\ d.named => Opened(d).outcome = "open"
    <2>1. HierThere(c, d, m)
      BY <1>2, <1>8
    <2>2. HierFound(d)
      <3>1. CASE d.hier_exists
        BY <3>1 DEF HierFound
      <3>2. CASE ~d.hier_exists
        <4>1. HasTag(d.file, m, "hier")
          BY <2>1, <3>2 DEF HierThere, HasTag
        <4>2. Tagged(Walked(d), "hier") # <<>>
          BY <1>1, <1>2, <4>1, TaggedFound
        <4> QED
          BY <4>2 DEF HierFound
      <3> QED
        BY <3>1, <3>2
    <2>3. Opened(d).hier = HierIs(c)
      <3>1. Hierarchy(d, Walked(d)) = HierIs(c)
        <4>1. CASE d.hier_exists
          <5>1. d.hier = c.hier /\ d.cut = FALSE
            <6>1. d.hier = c.hier /\ ~d.cut /\ d.cut \in BOOLEAN
              BY <1>1, <2>1, <4>1 DEF HierThere, HierFlushed, Disk
            <6> QED
              BY <6>1
          <5> QED
            BY <4>1, <5>1 DEF Hierarchy, HierIs
        <4>2. CASE ~d.hier_exists
          <5>1. d.packed = c.hier /\ d.padded = FALSE
            <6>1. d.packed = c.hier /\ ~d.padded /\ d.padded \in BOOLEAN
              BY <1>1, <2>1, <4>2 DEF HierThere, Packed, Disk
            <6> QED
              BY <6>1
          <5>2. Tagged(Walked(d), "hier") # <<>>
            BY <2>2, <4>2 DEF HierFound
          <5> QED
            BY <4>2, <5>1, <5>2 DEF Hierarchy, HierIs
        <4> QED
          BY <4>1, <4>2
      <3> QED
        BY <3>1, OpenedParts
    <2>4. Opened(d).maxhandle = Handles(c)
      <3>1. CASE ByGeom(d)
        <4>1. Tagged(Walked(d), "geom") # <<>>
          BY <3>1 DEF ByGeom
        <4>2. Tagged(Walked(d), "geom")[1].data = Val(c, "geom")
          BY <1>1, <1>2, <4>1, TaggedFound
        <4>3. Opened(d).maxhandle = Tagged(Walked(d), "geom")[1].data
          BY <3>1, OpenedParts
        <4> QED
          BY <4>2, <4>3 DEF Val
      <3>2. CASE ~ByGeom(d)
        <4>1. Opened(d).maxhandle = MaxHandleOf(Opened(d).hier.records)
          BY <3>2, OpenedParts
        <4>2. Opened(d).hier.records = c.hier
          BY <2>3 DEF HierIs
        <4> QED
          BY <4>1, <4>2 DEF Handles
      <3> QED
        BY <3>1, <3>2
    <2>5. ASSUME d.named PROVE Opened(d).outcome = "open"
      <3>1. c.secnum > 0
        BY <1>1, <1>2, <1>8
      <3>2. Opened(d).maxhandle # 0
        BY <1>1, <2>4, <3>1 DEF CtxInv
      <3>3. ~Scan(d).misread
        BY <1>6, <3>1
      <3>4. ~Opened(d).hier.cut
        BY <2>3 DEF HierIs
      <3>5. Opened(d).sections # <<>>
        BY <1>4, <1>5, <1>8 DEF Dates
      <3> QED
        BY <2>2, <2>5, <3>2, <3>3, <3>4, <3>5, OpenedOutcome
    <2> QED
      BY <2>3, <2>4, <2>5
  <1> QED
    BY <1>2, <1>4, <1>5, <1>6, <1>7, <1>8 DEF OpensAs

(* The invariant, read by a viewer.                                         *)
LEMMA Recovers ==
  ASSUME IInv
  PROVE  /\ Unfinished \in Nat /\ Unfinished <= xc.secnum /\ xc.secnum \in Nat
         /\ \E k \in Nat : /\ Safe <= k /\ k <= xc.secnum /\ OpensAs(xc, disk, k)
                           /\ disk.named \/ disk.pak = "done"
  <1>1. Base(xc, disk) /\ Stage(mode, xc, main, flusher, disk)
    BY DEF IInv
  <1>2. xc.secnum \in Nat
    BY <1>1 DEF Base, Ctx
  <1>3. CanRead(xc, disk, main, flusher)
    BY <1>1, StageReads
  <1>4. PICK k, m : Reads(xc, disk, Left(main, flusher), k, m)
    BY <1>3 DEF CanRead
  <1>5. Unfinished = Left(main, flusher)
    BY Zenon DEF Unfinished, Left
  <1>6. PICK u : u = Unfinished
    OBVIOUS
  <1>7. Reads(xc, disk, u, k, m)
    BY <1>4, <1>5, <1>6
  <1>8. u \in Nat /\ u <= xc.secnum /\ xc.secnum - u <= k /\ k <= xc.secnum /\ (disk.named \/ disk.pak = "done")
    BY <1>7 DEF Reads
  <1>9. k \in Nat /\ OpensAs(xc, disk, k)
    BY <1>1, <1>7, ReadsOpened
  <1> QED
    BY <1>2, <1>6, <1>8, <1>9 DEF Safe

(* The types.                                                               *)
LEMMA TypeHolds ==
  ASSUME IInv
  PROVE  TypeOK
  <1>1. /\ mode \in Modes /\ alive \in BOOLEAN /\ flusher.state \in {"none", "created", "locked"}
        /\ Base(xc, disk)
    BY DEF IInv
  <1>2. disk.hier = SubSeq(xc.hier, 1, Len(disk.hier))
    BY <1>1 DEF Base, Spilled
  <1>3. Len(disk.file) \in Nat /\ xc.section_start \in Nat /\ xc.section_header_truncpos \in Nat
    BY <1>1 DEF Base, Ctx, Disk
  <1>4. xc.section_start \in 0 .. End(disk) + 1 /\ xc.section_header_truncpos \in 0 .. End(disk)
    BY <1>1, <1>3 DEF Base, Places, End
  <1>5. Unfinished <= xc.secnum
    BY Recovers
  <1> QED
    BY <1>1, <1>2, <1>4, <1>5 DEF TypeOK

(* What the reader recovers.                                                *)
LEMMA RecoversHolds ==
  ASSUME IInv
  PROVE  RecoversCompleted
  <1>1. PICK k \in Nat : Safe <= k /\ k <= xc.secnum /\ OpensAs(xc, disk, k)
    BY Recovers
  <1> DEFINE r == Opened(disk)
  <1>2. Dates(xc, r.sections, k)
    BY <1>1 DEF OpensAs
  <1>3. r.outcome = "misread" => xc.already_in_close /\ xc.secnum = 0
    BY <1>1, OpenedOutcome DEF OpensAs
  <1>4. \E h \in Safe .. xc.secnum : Numbers(r.sections) = [i \in 1 .. h |-> i]
    <2>1. Safe \in Int /\ xc.secnum \in Int
      BY Recovers DEF Safe
    <2>2. k \in Safe .. xc.secnum
      BY <1>1, <2>1
    <2>3. Numbers(r.sections) = [i \in 1 .. k |-> i]
      BY <1>2 DEF Dates
    <2> QED
      BY <2>2, <2>3
  <1>5. Chained(r.sections)
    BY <1>2 DEF Dates
  <1>6. r.sections # <<>> => r.start = xc.firsttime /\ r.end >= r.sections[Len(r.sections)].end
    <2>1. (r.sections # <<>> <=> k > 0) /\ Len(r.sections) = k
      BY <1>2 DEF Dates
    <2> QED
      BY <1>1, <2>1 DEF OpensAs
  <1> HIDE DEF r
  <1>7. /\ r.outcome = "misread" => xc.already_in_close /\ xc.secnum = 0
        /\ \E h \in Safe .. xc.secnum : Numbers(r.sections) = [i \in 1 .. h |-> i]
        /\ Chained(r.sections)
        /\ r.sections # <<>> => r.start = xc.firsttime /\ r.end >= r.sections[Len(r.sections)].end
    BY <1>3, <1>4, <1>5, <1>6, Zenon
  <1> QED
    BY <1>7, Zenon DEF RecoversCompleted, r

(* That the file opens.                                                     *)
LEMMA OpensHolds ==
  ASSUME IInv
  PROVE  OpensWithHandles /\ AlwaysUnderOneName
  <1>1. PICK k \in Nat : Safe <= k /\ k <= xc.secnum /\ OpensAs(xc, disk, k) /\ (disk.named \/ disk.pak = "done")
    BY Recovers
  <1>2. ASSUME Safe > 0
        PROVE  /\ disk.named => Opened(disk).outcome = "open"
               /\ Opened(disk).maxhandle = MaxHandleOf(xc.hier)
    <2>1. Safe \in Int
      BY Recovers DEF Safe
    <2>2. k > 0
      BY <1>1, <1>2, <2>1
    <2> QED
      BY <1>1, <2>2 DEF OpensAs, Handles
  <1> QED
    BY <1>1, <1>2 DEF OpensWithHandles, AlwaysUnderOneName

(* What close leaves.                                                       *)
LEMMA ClosedHolds ==
  ASSUME IInv
  PROVE  ClosedFileIsWhole
  <1>1. SUFFICES ASSUME xc.closed, xc.secnum > 0
                 PROVE  /\ Opened(disk).outcome = "open"
                        /\ Numbers(Opened(disk).sections) = [i \in 1 .. xc.secnum |-> i]
                        /\ Opened(disk).maxhandle = MaxHandleOf(xc.hier)
                        /\ Opened(disk).blackouts = xc.blackouts
                        /\ Opened(disk).hier = [records |-> xc.hier, cut |-> FALSE]
                        /\ Opened(disk).start = xc.firsttime /\ Opened(disk).end = xc.curtime
    BY Zenon DEF ClosedFileIsWhole
  <1>2. PICK md, c, t, p, d : md = mode /\ c = xc /\ t = main /\ p = flusher /\ d = disk
    OBVIOUS
  <1>3. Base(c, d) /\ Stage(md, c, t, p, d) /\ c.closed /\ c.secnum > 0
    BY <1>1, <1>2 DEF IInv
  <1>4. /\ c \in Ctx /\ d \in Disk /\ CtxInv(c) /\ c.secnum \in Nat /\ d.file \in Seq(Blocks)
        /\ c.firsttime \in Nat /\ c.curtime \in Nat
    BY <1>3 DEF Base, Ctx, Disk
  <1>5. Ending(md, c, t, p, d) /\ t = <<>> /\ Timed(c, d) /\ d.named
    <2>1. Untouched(c, d) => ~c.closed
      BY DEF Untouched
    <2>2. Ending(md, c, t, p, d)
      BY <1>3, <2>1 DEF Stage, Quiet, Starting, Flushing, Mapped, Truncating, Appending
    <2> QED
      BY <1>3, <2>2 DEF Ending, Intact
  <1>6. PICK m : EndsWhole(md, c, d, m)
    BY <1>3, <1>5, EndingViewed
  <1>7. Viewed(c, d.file, c.secnum, m) /\ m = Len(d.file) /\ HierThere(c, d, m)
    BY <1>3, <1>6 DEF EndsWhole
  <1>8. OpensAs(c, d, c.secnum)
    <2>1. Dated(c, d, m)
      <3>1. ~(m < Len(d.file))
        BY <1>4, <1>7
      <3> QED
        BY <1>5, <3>1 DEF Dated
    <2>2. 0 \in Nat /\ 0 <= c.secnum /\ c.secnum - 0 <= c.secnum /\ c.secnum <= c.secnum
      BY <1>4
    <2>3. Reads(c, d, 0, c.secnum, m)
      BY <1>5, <1>7, <2>1, <2>2 DEF Reads
    <2> QED
      BY <1>3, <2>3, ReadsOpened
  <1>9. /\ Opened(d).outcome = "open" /\ Opened(d).maxhandle = MaxHandleOf(c.hier)
        /\ Opened(d).hier = [records |-> c.hier, cut |-> FALSE] /\ Opened(d).start = c.firsttime
        /\ Dates(c, Opened(d).sections, c.secnum)
    BY <1>3, <1>5, <1>8 DEF OpensAs, HierIs, Handles
  <1>10. Opened(d).blackouts = c.blackouts
    <2>1. CASE Tagged(Walked(d), "blackout") = <<>>
      <3>1. Opened(d).blackouts = 0
        BY <2>1, OpenedParts
      <3>2. c.blackouts = 0
        <4>1. SUFFICES ASSUME c.blackouts # 0 PROVE FALSE
          OBVIOUS
        <4>2. "blackout" \in WithHier(md, c)
          BY <4>1 DEF WithHier, WithBlackouts
        <4>3. Whole(c, d.file, WithHier(md, c))
          BY <1>5 DEF Ending
        <4>4. Once(c, d.file, m, "blackout")
          BY <1>3, <1>7, <4>2, <4>3 DEF Whole, Appended
        <4>5. HasTag(d.file, m, "blackout")
          BY <4>4 DEF Once, HasTag
        <4> QED
          BY <1>4, <1>7, <2>1, <4>5, TaggedFound
      <3> QED
        BY <3>1, <3>2
    <2>2. CASE Tagged(Walked(d), "blackout") # <<>>
      <3>1. Tagged(Walked(d), "blackout")[1].data = Val(c, "blackout")
        BY <1>4, <1>7, <2>2, TaggedFound
      <3>2. Opened(d).blackouts = Tagged(Walked(d), "blackout")[1].data
        BY <2>2, OpenedParts
      <3> QED
        BY <3>1, <3>2 DEF Val
    <2> QED
      BY <2>1, <2>2
  <1>11. Opened(d).end = c.curtime
    <2>1. CASE HdrIncomplete(d)
      <3>1. c.curtime = 0
        BY <1>5, <2>1 DEF HdrIncomplete, Timed
      <3>2. PICK s : s = Opened(d).sections
        OBVIOUS
      <3>3. s # <<>> /\ s[Len(s)].end \in Nat /\ s[Len(s)].end <= c.curtime
        BY <1>3, <1>9, <3>2 DEF Dates
      <3>4. Opened(d).end = s[Len(s)].end
        BY <2>1, <3>2, <3>3, OpenedTimes
      <3> QED
        BY <3>1, <3>3, <3>4
    <2>2. CASE ~HdrIncomplete(d)
      BY <1>5, <2>2, OpenedTimes DEF Timed
    <2> QED
      BY <2>1, <2>2
  <1>12. Numbers(Opened(d).sections) = [i \in 1 .. c.secnum |-> i]
    BY <1>9 DEF Dates
  <1> QED
    BY <1>2, <1>9, <1>10, <1>11, <1>12

----------------------------------------------------------------------------
(* The context's and the disk's types, for any bounds and modes:            *)
(* section_start and the truncation point stay within the file, and what    *)
(* has reached .hier is the beginning of the hierarchy.                     *)
THEOREM FileTypeOK ==
  ASSUME "late" \notin Usage, "hasty" \notin Usage
  PROVE  Spec => []TypeOK
  <1>1. IInv => TypeOK
    BY TypeHolds
  <1> QED
    BY <1>1, FileInductive, PTL

(* Wherever the process stops, the reader finds every completed section, in *)
(* order and with its times (fstReaderInit, fstapi.c:4683): the open        *)
(* header, a section that is not tagged, what close appends hide none of    *)
(* them.                                                                    *)
THEOREM FileRecoversCompleted ==
  ASSUME "late" \notin Usage, "hasty" \notin Usage
  PROVE  Spec => []RecoversCompleted
  <1>1. IInv => RecoversCompleted
    BY RecoversHolds
  <1> QED
    BY <1>1, FileInductive, PTL

(* As soon as a section is complete, the file opens and knows every handle  *)
(* of it, with or without a header, a geometry and a hierarchy section      *)
(* (fstWriterCreateMmaps flushes the hierarchy first, close unlinks .hier   *)
(* last).                                                                   *)
THEOREM FileOpensWithHandles ==
  ASSUME "late" \notin Usage, "hasty" \notin Usage
  PROVE  Spec => []OpensWithHandles
  <1>1. IInv => OpensWithHandles
    BY OpensHolds
  <1> QED
    BY <1>1, FileInductive, PTL

(* Repacking (fstapi.c:2193-2241) never leaves a moment in which neither of *)
(* the two names leads to a file with all sections.                         *)
THEOREM FileAlwaysUnderOneName ==
  ASSUME "late" \notin Usage, "hasty" \notin Usage
  PROVE  Spec => []AlwaysUnderOneName
  <1>1. IInv => AlwaysUnderOneName
    BY OpensHolds
  <1> QED
    BY <1>1, FileInductive, PTL

(* A closed file has what the simulator said: sections, times, handles,     *)
(* blackouts and the hierarchy (fstWriterClose).                            *)
THEOREM FileClosedIsWhole ==
  ASSUME "late" \notin Usage, "hasty" \notin Usage
  PROVE  Spec => []ClosedFileIsWhole
  <1>1. IInv => ClosedFileIsWhole
    BY ClosedHolds
  <1> QED
    BY <1>1, FileInductive, PTL
=============================================================================
