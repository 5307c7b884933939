---------------------------- MODULE FstSections ----------------------------
(***************************************************************************)
(* A closed wave form file as its reader takes it: the value change        *)
(* sections, with their frame, chains and time table, and of the header    *)
(* the end time, the number of handles and which of them have values of    *)
(* variable length.                                                        *)
(***************************************************************************)
EXTENDS Integers, Sequences, SequencesExt, FstDecode

CONSTANTS
  MaxHandle,    (* Bound on the handles.                                    *)
  Value,        (* The values of the changes.                               *)
  NoValue       (* The answer NULL.                                         *)

Handle == 1 .. MaxHandle

(* Handles without a chain have <<>>; index 0 of a time table is tchn[1].   *)
Change == [delta : Nat, val : Value]
Section == [begin : Nat, end : Nat, tchn : Seq(Nat) \ {<<>>},
            frame : [Handle -> Value], frame_maxhandle : Nat,
            chain : [Handle -> Seq(Change)], maxhandle : Nat]
Indices(chain) == RunningSum([j \in 1 .. Len(chain) |-> chain[j].delta])

(* fstExtractRvatDataFromFrame; the value behind the section's changes,     *)
(* which FstWriter promises to be in the next frame.                        *)
FrameValue(b, h) == IF h <= b.frame_maxhandle THEN b.frame[h] ELSE NoValue
EndValue(b, h) == IF b.chain[h] = <<>> THEN FrameValue(b, h) ELSE Last(b.chain[h]).val

WellFormed(f) ==
  /\ f.blocks \in Seq(Section) \ {<<>>}
  /\ f.maxhandle \in Handle /\ f.varlen \subseteq Handle
  /\ f.blocks[Len(f.blocks)].end <= f.end
  /\ \A k \in DOMAIN f.blocks :
       LET b == f.blocks[k]  T == TimeTable(b.tchn)
       IN /\ b.frame_maxhandle <= b.maxhandle /\ b.maxhandle <= f.maxhandle
          /\ b.begin <= b.end
          /\ k > 1 => b.begin = f.blocks[k - 1].end /\ T[1] = b.begin
          /\ \A i \in DOMAIN T : T[i] \in b.begin .. b.end
          /\ \A h \in Handle :
               /\ h > b.maxhandle => b.chain[h] = <<>>
               /\ b.chain[h] # <<>> => Last(Indices(b.chain[h])) < Len(T)
          /\ k > 1 => \A h \in Handle \ f.varlen :
               EndValue(f.blocks[k - 1], h) \in {NoValue, FrameValue(b, h)}
=============================================================================
