--------------------------- MODULE FstChainIndex ---------------------------
(***************************************************************************)
(* The index of a value change section: where the chain of every handle    *)
(* is.  fstWriterFlushContextPrivate stores equal chains once (a later     *)
(* handle becomes an alias of the first), run-length codes the handles     *)
(* without a chain, and writes the others as differences of positions.     *)
(* Both readers decode the index into a table of positions and one of      *)
(* lengths: fstReaderGetValueFromHandleAtTime into new tables for every    *)
(* section, fstReaderIterBlocks2 into tables it keeps from one section to  *)
(* the next.  A step writes a section and lets both readers decode it.     *)
(*                                                                         *)
(* Chains are model values with a size, the bytes of a varint are not      *)
(* modelled, nor are 32-bit positions.  Table indices start at 0, as in    *)
(* the code; handle h is index h - 1.                                      *)
(***************************************************************************)
EXTENDS Integers, Sequences, SequencesExt

CONSTANTS
  N,            (* Bound on the handles.                                    *)
  Chain,        (* The chains a handle can have in a section.               *)
  Size(_),      (* The bytes a chain takes in the section.                  *)
  NoChain       (* No change of the handle in the section.                  *)

ASSUME IndexAssumption ==
  /\ N \in Nat
  /\ NoChain \notin Chain
  /\ \A c \in Chain : Size(c) \in Nat /\ Size(c) >= 2  (* prefix and a record *)

VARIABLES
  content,                  (* The chains of the section, per handle.       *)
  vc_maxhandle_largest,     (* The largest number of handles so far.        *)
  tables,                   (* fstReaderIterBlocks2's tables and pidx.      *)
  iterated,                 (* What it found for every index ...            *)
  sought                    (* ... and fstReaderGetValueFromHandleAtTime.   *)

vars == <<content, vc_maxhandle_largest, tables, iterated, sought>>

Contents(n) == {c \in [1 .. n -> Chain \cup {NoChain}] : \E h \in 1 .. n : c[h] # NoChain}

----------------------------------------------------------------------------
(* The writer.  FirstWith: what JudyHSIns answers, the handle that brought  *)
(* the chain.                                                               *)
FirstWith(c, h) == CHOOSE g \in 1 .. h : c[g] = c[h] /\ \A f \in 1 .. g - 1 : c[f] # c[h]
Original(c, h) == c[h] # NoChain /\ FirstWith(c, h) = h

(* fpos: chains are written in the order of handles behind the '!'.         *)
Position(c, h) ==
  FoldLeft(LAMBDA pos, g : IF Original(c, g) THEN pos + Size(c[g]) ELSE pos,
           1, [g \in 1 .. h - 1 |-> g])

(* valpos[2] after the loop over the chains.                                *)
SlotFromZero(c, h) ==         (* Mutant: an alias names an index, not a handle. *)
  IF c[h] = NoChain THEN 0
  ELSE IF Original(c, h) THEN Position(c, h) ELSE 1 - FirstWith(c, h)
Slot(c, h) ==
  IF c[h] = NoChain THEN 0
  ELSE IF Original(c, h) THEN Position(c, h) ELSE -FirstWith(c, h)

(* An entry of the index: a run of handles without chains, or a number.     *)
Run(k)   == [zeros |-> k, shval |-> 0]
Number(v) == [zeros |-> 0, shval |-> v]

(* The position the next one is counted from.                               *)
NextPrev(acc, slot) == IF slot > 0 THEN slot ELSE acc.prevpos

EncodeSlot(acc, slot) ==
  IF slot = 0 THEN [acc EXCEPT !.zerocnt = @ + 1]
  ELSE LET before == IF acc.zerocnt > 0 THEN Append(acc.out, Run(acc.zerocnt)) ELSE acc.out
       IN [out |-> Append(before, Number(IF slot > 0 THEN slot - acc.prevpos
                                         ELSE IF slot # acc.prev_alias THEN slot ELSE 0)),
           zerocnt |-> 0,
           prevpos |-> NextPrev(acc, slot),
           prev_alias |-> IF slot > 0 THEN acc.prev_alias ELSE slot]

Index(c, n) ==
  LET acc == FoldLeft(EncodeSlot, [out |-> <<>>, zerocnt |-> 0, prevpos |-> 0, prev_alias |-> 0],
                      [h \in 1 .. n |-> Slot(c, h)])
  IN IF acc.zerocnt > 0 THEN Append(acc.out, Run(acc.zerocnt)) ELSE acc.out

IndexPosition(c, n) == Position(c, n + 1)   (* indx_pos - vc_start.         *)

----------------------------------------------------------------------------
(* The readers.  r: chain_table (pos), chain_table_lengths (len), pidx, and *)
(* the loop's idx, pval and prev_alias.                                     *)
NewTables == [pos |-> [i \in 0 .. N |-> 0], len |-> [i \in 0 .. N |-> 0], pidx |-> 0]

DecodeZeros(r, zeros) ==
  [r EXCEPT !.pos = [i \in 0 .. N |-> IF i \in r.idx .. r.idx + zeros - 1 THEN 0 ELSE @[i]],
            !.idx = @ + zeros]

(* A position also gives the length of the chain at the position before it, *)
(* at index pidx.                                                           *)
DecodePosition(r, shval) ==
  LET pval == r.pval + shval
      pos == [r.pos EXCEPT ![r.idx] = pval]
  IN [r EXCEPT !.pval = pval, !.pos = pos,
               !.len = IF r.idx = 0 THEN @ ELSE [@ EXCEPT ![r.pidx] = pval - pos[r.pidx]],
               !.pidx = r.idx, !.idx = @ + 1]

DecodeAliasForgetful(r, shval) ==   (* Mutant: prev_alias is not kept.      *)
  [r EXCEPT !.pos[r.idx] = 0, !.len[r.idx] = shval, !.idx = @ + 1]
DecodeAlias(r, shval) ==
  LET alias == IF shval < 0 THEN shval ELSE r.prev_alias
  IN [r EXCEPT !.pos[r.idx] = 0, !.len[r.idx] = alias, !.prev_alias = alias,
               !.idx = @ + 1]

DecodeEntry(r, e) ==
  IF e.zeros > 0 THEN DecodeZeros(r, e.zeros)
  ELSE IF e.shval > 0 THEN DecodePosition(r, e.shval) ELSE DecodeAlias(r, e.shval)

(* The last loop, in the order of the index: an alias takes over the place  *)
(* of the handle it names, if that comes before it.                         *)
ResolveAlias(r, i) ==
  LET v32 == -r.len[i] - 1
  IN IF r.len[i] < 0 /\ r.pos[i] = 0 /\ v32 < i
     THEN [r EXCEPT !.pos[i] = r.pos[v32], !.len[i] = r.len[v32]] ELSE r

Decode(t, entries, end) ==
  LET start == [pos |-> t.pos, len |-> t.len, pidx |-> t.pidx,
                idx |-> 0, pval |-> 0, prev_alias |-> 0]
      r == FoldLeft(DecodeEntry, start, entries)
      closed == [r EXCEPT !.pos[r.idx] = end, !.len[r.pidx] = end - r.pos[r.pidx]]
      full == FoldLeft(ResolveAlias, closed, [i \in 1 .. r.idx |-> i - 1])
  IN [pos |-> full.pos, len |-> full.len, pidx |-> full.pidx]

(* The chains a decoded table points to: an index with position 0 has none. *)
Found(t, n) ==
  [h \in 1 .. n |-> IF t.pos[h - 1] = 0 THEN <<>> ELSE <<t.pos[h - 1], t.len[h - 1]>>]

----------------------------------------------------------------------------
Init ==
  /\ content = <<>> /\ vc_maxhandle_largest = 0
  /\ tables = NewTables
  /\ iterated = <<>> /\ sought = <<>>

(* The next section, of n handles: handles are added, never removed.        *)
ReadSection(n, c) ==
  LET end == IndexPosition(c, n)
      kept == IF n > vc_maxhandle_largest THEN [NewTables EXCEPT !.pidx = tables.pidx]
              ELSE tables
  IN /\ content' = c
     /\ vc_maxhandle_largest' = n
     /\ tables' = Decode(kept, Index(c, n), end)
     /\ iterated' = Found(tables', n)
     /\ sought' = Found(Decode(NewTables, Index(c, n), end), n)

Next == \E n \in vc_maxhandle_largest .. N : \E c \in Contents(n) : ReadSection(n, c)

Spec == Init /\ [][Next]_vars

----------------------------------------------------------------------------
(* The types of the readers' tables; no position lies behind the index.     *)
TypeOK ==
  /\ vc_maxhandle_largest \in 0 .. N
  /\ content = <<>> \/ content \in Contents(vc_maxhandle_largest)
  /\ tables \in [pos : [0 .. N -> Nat], len : [0 .. N -> Int], pidx : 0 .. N]
  /\ content # <<>> => \A i \in 0 .. Len(content) :
       tables.pos[i] <= IndexPosition(content, Len(content))

(* Where the writer put the chain of a handle, and how long it is.          *)
Stored(h) ==
  IF content[h] = NoChain THEN <<>>
  ELSE <<Position(content, FirstWith(content, h)), Size(content[h])>>

(* fstReaderGetValueFromHandleAtTime finds every chain where it was stored, *)
(* through aliases, repeated aliases and runs, and none that was not.       *)
SeekFindsExactly == \A h \in DOMAIN content : sought[h] = Stored(h)

(* fstReaderIterBlocks2 misses no chain and finds each one in full, whatever*)
(* the sections before it left in its tables.                               *)
IterationMissesNothing ==
  \A h \in DOMAIN content : content[h] # NoChain => iterated[h] = Stored(h)

(* What the comments in fstReaderIterBlocks2 want to ensure by zeroing the  *)
(* position of a handle without a chain: no "stale data" of earlier sections.*)
IterationFindsExactly == \A h \in DOMAIN content : iterated[h] = Stored(h)
=============================================================================
