------------------------------ MODULE FirLexer ------------------------------
(***************************************************************************)
(* The FIRRTL lexer's indentation (lexical.l) and what the grammar makes   *)
(* of it (syntax.y), as functions of a text.                               *)
(*                                                                         *)
(* A text is a sequence of lines, joined by newlines; only the last may    *)
(* lack its own.  A line has an indentation, in spaces, and a kind; blank  *)
(* lines have no characters.  The tokens of a line are one token of its    *)
(* kind, and the grammar is what it demands of circuits, modules and       *)
(* blocks; ports count as statements.                                      *)
(***************************************************************************)
EXTENDS Integers, Sequences, SequencesExt

Heading == {"version", "circuit"}
ModuleKind == {"module", "public"}    (* "public module" is a kind of its own: *)
                                      (* firParser.cpp does not search for it. *)
LineKind == Heading \cup ModuleKind \cup {"stmt", "when", "blank"}
Line == [indent : Nat, kind : LineKind]

Token(kind, at) == [kind |-> kind, at |-> at]

----------------------------------------------------------------------------
(* The lexer.  levels is indentLevels, its top last, out the tokens so far, *)
(* at the line of each, counted from the start of the text.                *)
StartLevels == <<0>>

(* Mutant: a line closes one block at most.                                 *)
KeptOne(levels, curr_indent) ==
  IF Last(levels) > curr_indent THEN Front(levels) ELSE levels
(* The levels that are left after a DEDENT for every deeper one on top; the *)
(* lowest is 0.                                                             *)
Kept(levels, curr_indent) ==
  SubSeq(levels, 1, Max({k \in DOMAIN levels : levels[k] <= curr_indent}))

(* The rule <indent>. at the first character of a line: DEDENTs, while the  *)
(* line is less indented than the innermost block, then an INDENT if it is  *)
(* more.                                                                    *)
Indentation(acc, curr_indent, at) ==
  LET kept == Kept(acc.levels, curr_indent)
      dedents == [k \in 1 .. Len(acc.levels) - Len(kept) |-> Token("DEDENT", at)]
  IN IF Last(kept) < curr_indent
     THEN [levels |-> Append(kept, curr_indent),
           out |-> acc.out \o dedents \o <<Token("INDENT", at)>>]
     ELSE [levels |-> kept, out |-> acc.out \o dedents]

(* One line; a blank one does not leave the condition <indent>.             *)
LexLine(acc, line, at) ==
  IF line.kind = "blank" THEN acc
  ELSE LET indented == Indentation(acc, line.indent, at)
       IN [indented EXCEPT !.out = Append(@, Token(line.kind, at))]

(* The end of the text in condition <indent>, so behind a newline, closes   *)
(* all blocks; in condition <normal> it does not.                           *)
LexEnd(acc, lines, at) ==
  IF Last(lines).kind = "blank" THEN Indentation(acc, 0, at) ELSE acc

(* The tokens of a text.                                                    *)
Lex(lines) ==
  LET acc == FoldLeft(LAMBDA a, k : LexLine(a, lines[k], k),
                      [levels |-> StartLevels, out |-> <<>>],
                      [k \in 1 .. Len(lines) |-> k])
  IN LexEnd(acc, lines, Len(lines)).out

----------------------------------------------------------------------------
(* The node of a module.  The line of its heading stands for its name and   *)
(* its children; lineno is the number the node carries.                     *)
Node(module, lineno) == [module |-> module, lineno |-> lineno]

(* The grammar: a circuit, or modules alone, and blocks behind the lines    *)
(* that open one.  next is what may come: the "start" of the text, the      *)
(* "circuit" line, a "block", "lines" of one, its "end", or nothing any     *)
(* more after an "error".  module is the heading of the last module.        *)
StartParse ==
  [next |-> "start", depth |-> 0, root |-> FALSE, module |-> 0, list |-> <<>>]

(* Mutant: the number of a module is taken at its heading.                  *)
ReducedEarly(p, at) ==
  IF p.depth = 2 THEN Append(p.list, Node(p.module, p.module)) ELSE p.list
(* The DEDENT that closes a module ends its rule, and only now is its node  *)
(* made: its number is that of the line the lexer has come to.              *)
Reduced(p, at) == IF p.depth = 2 THEN Append(p.list, Node(p.module, at)) ELSE p.list

Shift(p, t) ==
  IF t.kind = "version" /\ p.next = "start" THEN [p EXCEPT !.next = "circuit"]
  ELSE IF t.kind = "circuit" /\ p.next = "circuit"
  THEN [p EXCEPT !.next = "block", !.root = TRUE]
  ELSE IF t.kind = "INDENT" /\ p.next \in {"start", "block"}
  THEN [p EXCEPT !.next = "lines", !.depth = @ + 1]
  ELSE IF t.kind \in ModuleKind /\ p.next = "lines" /\ p.depth = 1
  THEN [p EXCEPT !.next = "block", !.module = t.at]
  ELSE IF t.kind = "when" /\ p.next = "lines" /\ p.depth > 1
  THEN [p EXCEPT !.next = "block"]
  ELSE IF t.kind = "stmt" /\ p.next = "lines" /\ p.depth > 1 THEN p
  ELSE IF t.kind = "DEDENT" /\ p.next = "lines"
  THEN [p EXCEPT !.next = IF p.depth = 1 THEN "end" ELSE "lines", !.depth = @ - 1,
                 !.list = Reduced(p, t.at)]
  ELSE [p EXCEPT !.next = "error"]

(* Syntax::parse on a text: whether it succeeds, whether it sets root, and  *)
(* the nodes of the modules in list.                                        *)
Parse(lines) ==
  LET p == FoldLeft(Shift, StartParse, Lex(lines))
  IN [ok |-> p.next = "end", root |-> p.root, list |-> p.list]
=============================================================================
