------------------------ MODULE MCFstWriterProofs --------------------------
(* Small instances of FstWriter with the inductive invariants of the proofs. *)
(* Careful: the simulator that keeps to what the writer supports.           *)
EXTENDS FstWriterRefinesProofs
CONSTANTS v0, v1, vx
Careful == {"late_vars", "size_limit"}
=============================================================================
