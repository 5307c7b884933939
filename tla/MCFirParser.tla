---------------------------- MODULE MCFirParser -----------------------------
(* Small instances of FirParser: circuits of a few modules, in the forms    *)
(* that matter to the search and to the lexer.                              *)
EXTENDS FirParserProofs

CONSTANTS
  MaxModules,      (* Bound on the modules of a circuit.                    *)
  Apart            (* What may be in front of a module: "blank" lines, one  *)
                   (* and two in turn, or "nothing".                        *)

L(n, k) == [indent |-> n, kind |-> k]
Blank == L(0, "blank")
Header == <<L(0, "version"), L(0, "circuit")>>

(* A module of one statement, one that ends in a nested block, and a public *)
(* one.                                                                     *)
Forms == {<<L(2, "module"), L(4, "stmt")>>,
          <<L(2, "module"), L(4, "when"), L(6, "when"), L(8, "stmt")>>,
          <<L(2, "public"), L(4, "stmt")>>}

BlankLines(k) == IF k % 2 = 0 THEN <<Blank>> ELSE <<Blank, Blank>>
Separated(m, a, k) == IF a = "blank" THEN BlankLines(k) \o m ELSE m

Circuit(ms, a) ==
  Header \o ms[1] \o FlattenSeq([k \in 1 .. Len(ms) - 1 |-> Separated(ms[k + 1], a, k)])
         \o <<Blank>>

Circuits == {Circuit(ms, a) : ms \in UNION {[1 .. n -> Forms] : n \in 1 .. MaxModules},
                              a \in Apart}

HasModule(t) == \E k \in DOMAIN t : t[k].kind = "module"
CircuitsWithModule == {t \in Circuits : HasModule(t)}

Blanks == {"blank"}
Either == {"blank", "nothing"}
=============================================================================
