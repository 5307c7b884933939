----------------------------- MODULE FstDecode -----------------------------
(***************************************************************************)
(* The reader's decoding of a value change section, as functions:          *)
(* fstReaderIterBlocks2 sums up the time table, and the differences of     *)
(* every chain, and calls back with the time and the value of each change. *)
(***************************************************************************)
EXTENDS Integers, Sequences

(* The sums of the first k elements of a sequence of numbers, for every k. *)
RunningSum(deltas) ==
  LET sum[k \in 0 .. Len(deltas)] == IF k = 0 THEN 0 ELSE sum[k - 1] + deltas[k]
  IN [k \in 1 .. Len(deltas) |-> sum[k]]

TimeTable(tchn) == RunningSum(tchn)

(* The changes of one handle: chain is its chain, table the time table.    *)
DecodeChain(chain, table) ==
  LET idx == RunningSum([k \in 1 .. Len(chain) |-> chain[k].delta])
  IN [k \in 1 .. Len(chain) |-> [time |-> table[idx[k] + 1], val |-> chain[k].val]]

(* All changes of handle h in a sequence of sections, in file order.       *)
DecodeSections(blocks, h) ==
  LET upto[i \in 0 .. Len(blocks)] ==
        IF i = 0 THEN <<>>
        ELSE upto[i - 1] \o DecodeChain(blocks[i].chain[h], TimeTable(blocks[i].tchn))
  IN upto[Len(blocks)]
=============================================================================
