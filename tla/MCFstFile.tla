----------------------------- MODULE MCFstFile -----------------------------
(* Instances of FstFile: every way of closing, with and without threads.    *)
EXTENDS FstFileProofs

(* Every mode, fourpack only where it means something: when the hierarchy   *)
(* is compressed.                                                           *)
DistinctModes ==
  {m \in SUBSET {"compress_hier", "fourpack", "repack", "parallel"} :
     "fourpack" \in m => "compress_hier" \in m}
=============================================================================
