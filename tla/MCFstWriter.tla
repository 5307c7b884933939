---------------------------- MODULE MCFstWriter ----------------------------
(* Small instances of FstWriter for TLC.                                    *)
EXTENDS FstWriter

CONSTANTS v0, v1, vx

(* A simulator that also asks for flushes of nothing, and flushes unmapped. *)
Careless == AllUsage
(* One usage at a time, for the disagreements between code and comments.    *)
OnlyEmptyFlushes == {"flush_empty"}
LateUnmapped == {"late_vars", "flush_unmapped"}
=============================================================================
