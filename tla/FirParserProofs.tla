--------------------------- MODULE FirParserProofs ---------------------------
(***************************************************************************)
(* The FIRRTL parser for every text, every number of threads and every     *)
(* number of modules per task: what a task's parse makes of its lines, and *)
(* from it that the threads' lists, however they are scheduled, give the   *)
(* tree of the text.                                                       *)
(*                                                                         *)
(* The invariant names the cuts: c[i] is the line where task i starts.     *)
(* Each task is in the queue, or with a thread, or its list is stored, and *)
(* the queue has an exit flag for each thread in front of all tasks.       *)
(***************************************************************************)
EXTENDS FirParser, Induction, FiniteSetTheorems, SequenceTheorems, FunctionTheorems

----------------------------------------------------------------------------
(* Lists of nodes, their modules in ascending order.                        *)

(* Numbers in ascending order, with one more behind, and moved up.          *)
Behind(M, N) == \A m \in M, n \in N : m < n

(* The empty list has the lines of the empty set.                           *)
LEMMA EnumerateNone == Enumerates(<<>>, {})
  BY DEF Enumerates

(* A module behind all others is added at the end.                          *)
LEMMA EnumerateMore ==
  ASSUME NEW s \in Seq(PNode), NEW M, NEW x \in PNode, Enumerates(s, M), Behind(M, {x.module})
  PROVE  Enumerates(Append(s, x), M \cup {x.module})
  <1> DEFINE t == Append(s, x)
             n == x.module
  <1>1. /\ DOMAIN s = 1 .. Len(s) /\ DOMAIN t = 1 .. Len(s) + 1 /\ Len(s) \in Nat
        /\ t[Len(s) + 1] = x /\ \A i \in 1 .. Len(s) : t[i] = s[i]
    OBVIOUS
  <1>2. /\ M = {s[i].module : i \in DOMAIN s}
        /\ \A i, j \in DOMAIN s : i < j => s[i].module < s[j].module
    BY Zenon DEF Enumerates
  <1> HIDE DEF t
  <1>3. {t[i].module : i \in DOMAIN t} = M \cup {n}
    <2>1. ASSUME NEW i \in DOMAIN t PROVE t[i].module \in M \cup {n}
      <3>1. i \in DOMAIN s \/ i = Len(s) + 1
        BY <1>1
      <3> QED
        BY <1>1, <1>2, <3>1
    <2>2. \A m \in M : \E i \in DOMAIN t : m = t[i].module
      <3> SUFFICES ASSUME NEW i \in DOMAIN s PROVE \E k \in DOMAIN t : s[i].module = t[k].module
        BY <1>2, Zenon
      <3>1. i \in DOMAIN t /\ t[i] = s[i]
        BY <1>1
      <3> QED
        BY <3>1
    <2>3. \E i \in DOMAIN t : n = t[i].module
      BY <1>1
    <2> QED
      BY <2>1, <2>2, <2>3
  <1>4. ASSUME NEW i \in DOMAIN t, NEW j \in DOMAIN t, i < j PROVE t[i].module < t[j].module
    <2>1. i \in DOMAIN s /\ (j \in DOMAIN s \/ j = Len(s) + 1)
      BY <1>1, <1>4
    <2>2. CASE j \in DOMAIN s
      BY <1>1, <1>2, <1>4, <2>1, <2>2
    <2>3. CASE j = Len(s) + 1
      <3>1. s[i].module \in M
        BY <1>2, <2>1
      <3> QED
        BY <1>1, <2>1, <2>3, <3>1 DEF Behind
    <2> QED
      BY <2>1, <2>2, <2>3
  <1> QED
    BY <1>3, <1>4, Zenon DEF Enumerates, t

(* Two lists, the modules of the second behind those of the first.          *)
LEMMA EnumerateBoth ==
  ASSUME NEW s \in Seq(PNode), NEW t \in Seq(PNode), NEW M, NEW N,
         Enumerates(s, M), Enumerates(t, N), Behind(M, N)
  PROVE  Enumerates(s \o t, M \cup N)
  <1> DEFINE u == s \o t
             a == Len(s)
             b == Len(t)
  <1>1. /\ DOMAIN s = 1 .. a /\ DOMAIN t = 1 .. b /\ DOMAIN u = 1 .. a + b
        /\ a \in Nat /\ b \in Nat
        /\ \A i \in 1 .. a : u[i] = s[i]
        /\ \A i \in 1 .. b : u[a + i] = t[i]
    OBVIOUS
  <1>2. /\ M = {s[i].module : i \in DOMAIN s}
        /\ \A i, j \in DOMAIN s : i < j => s[i].module < s[j].module
        /\ N = {t[i].module : i \in DOMAIN t}
        /\ \A i, j \in DOMAIN t : i < j => t[i].module < t[j].module
    BY Zenon DEF Enumerates
  <1> HIDE DEF u, a, b
  <1>3. ASSUME NEW i \in DOMAIN u
        PROVE  \/ i \in 1 .. a /\ i \in DOMAIN s /\ u[i] = s[i]
               \/ i - a \in 1 .. b /\ i - a \in DOMAIN t /\ u[i] = t[i - a]
    <2>1. CASE i \in 1 .. a
      BY <1>1, <2>1
    <2>2. CASE i - a \in 1 .. b
      <3>1. i = a + (i - a)
        BY <1>1
      <3> QED
        BY <1>1, <2>2, <3>1, Zenon
    <2> QED
      BY <1>1, <2>1, <2>2
  <1>4. {u[i].module : i \in DOMAIN u} = M \cup N
    <2>1. ASSUME NEW i \in DOMAIN u PROVE u[i].module \in M \cup N
      BY <1>2, <1>3
    <2>2. \A m \in M : \E i \in DOMAIN u : m = u[i].module
      <3> SUFFICES ASSUME NEW i \in DOMAIN s PROVE \E k \in DOMAIN u : s[i].module = u[k].module
        BY <1>2, Zenon
      <3>1. i \in DOMAIN u /\ u[i] = s[i]
        BY <1>1
      <3> QED
        BY <3>1
    <2>3. \A m \in N : \E i \in DOMAIN u : m = u[i].module
      <3> SUFFICES ASSUME NEW i \in DOMAIN t PROVE \E k \in DOMAIN u : t[i].module = u[k].module
        BY <1>2, Zenon
      <3>1. a + i \in DOMAIN u /\ u[a + i] = t[i]
        BY <1>1
      <3> QED
        BY <3>1
    <2> QED
      BY <2>1, <2>2, <2>3
  <1>5. ASSUME NEW i \in DOMAIN u, NEW j \in DOMAIN u, i < j PROVE u[i].module < u[j].module
    <2>1. CASE i \in 1 .. a /\ j \in 1 .. a
      BY <1>1, <1>2, <1>5, <2>1
    <2>2. CASE i \in 1 .. a /\ j - a \in 1 .. b
      <3>1. s[i].module \in M /\ t[j - a].module \in N
        BY <1>1, <1>2, <2>2
      <3>2. u[i] = s[i] /\ u[j] = t[j - a]
        BY <1>1, <1>3, <2>2
      <3> QED
        BY <3>1, <3>2, Zenon DEF Behind
    <2>3. CASE i - a \in 1 .. b /\ j - a \in 1 .. b
      <3>1. u[i] = t[i - a] /\ u[j] = t[j - a] /\ i - a < j - a
        BY <1>1, <1>3, <1>5, <2>3
      <3> QED
        BY <1>1, <1>2, <2>3, <3>1
    <2> QED
      BY <1>1, <1>3, <1>5, <2>1, <2>2, <2>3
  <1> QED
    BY <1>4, <1>5, Zenon DEF Enumerates, u

(* The nodes of a list, their lines counted from line d on.                 *)
FromOne(s, M) == (\A m \in M : m >= 1) /\ \A x \in Range(s) : x.lineno >= 1
MovedBy(t, s, d) ==
  \A y \in Range(t) : \E x \in Range(s) : y = Node(d + x.module - 1, d + x.lineno - 1)

LEMMA EnumerateMoved ==
  ASSUME NEW s \in Seq(PNode), NEW M \in SUBSET Nat, NEW d \in Nat, NEW task,
         task.offset = d, task.lineno = d, Enumerates(s, M), FromOne(s, M)
  PROVE  /\ Numbered(s, task) \in Seq(PNode)
         /\ Enumerates(Numbered(s, task), {d + m - 1 : m \in M})
         /\ MovedBy(Numbered(s, task), s, d)
  <1> DEFINE t == Numbered(s, task)
             moved(x) == Node(d + x.module - 1, d + x.lineno - 1)
  <1>1. DOMAIN s = 1 .. Len(s) /\ Len(s) \in Nat /\ \A i \in DOMAIN s : s[i] \in PNode
    OBVIOUS
  <1>2. /\ M = {s[i].module : i \in DOMAIN s}
        /\ \A i, j \in DOMAIN s : i < j => s[i].module < s[j].module
    BY Zenon DEF Enumerates
  <1>3. t = [k \in DOMAIN s |-> moved(s[k])]
    BY Zenon DEF Numbered
  <1>4. \A i \in DOMAIN s : /\ s[i].module \in Nat /\ s[i].lineno \in Nat
                            /\ s[i].module >= 1 /\ s[i].lineno >= 1
    <2> TAKE i \in DOMAIN s
    <2>1. s[i].module \in M /\ s[i] \in Range(s)
      BY <1>2, Zenon DEF Range
    <2> QED
      BY <1>1, <2>1, Zenon DEF PNode, FromOne
  <1>5. ASSUME NEW i \in DOMAIN s
        PROVE  /\ moved(s[i]) \in PNode /\ moved(s[i]).module = d + s[i].module - 1
               /\ d + s[i].module - 1 \in Nat
    <2>1. d + s[i].module - 1 \in Nat /\ d + s[i].lineno - 1 \in Nat
      BY <1>4
    <2> QED
      BY <2>1 DEF Node, PNode
  <1> HIDE DEF t, moved
  <1>6. DOMAIN t = DOMAIN s /\ \A i \in DOMAIN s : t[i] = moved(s[i])
    BY <1>3
  <1>7. t \in Seq(PNode)
    BY <1>1, <1>3, <1>5
  <1>8. {t[i].module : i \in DOMAIN t} = {d + m - 1 : m \in M}
    BY <1>2, <1>5, <1>6
  <1>9. ASSUME NEW i \in DOMAIN t, NEW j \in DOMAIN t, i < j PROVE t[i].module < t[j].module
    <2>1. s[i].module < s[j].module /\ s[i].module \in Nat /\ s[j].module \in Nat
      BY <1>2, <1>4, <1>6, <1>9, Zenon
    <2>2. /\ t[i].module = d + s[i].module - 1
          /\ t[j].module = d + s[j].module - 1
      BY <1>5, <1>6, Zenon
    <2>3. \A a, b, c \in Nat : a < b => c + a - 1 < c + b - 1
      OBVIOUS
    <2> QED
      BY <2>1, <2>2, <2>3, Zenon
  <1>10. \A y \in Range(t) : \E x \in Range(s) : y = moved(x)
    BY <1>6, Zenon DEF Range
  <1>11. Enumerates(t, {d + m - 1 : m \in M})
    BY <1>8, <1>9, Zenon DEF Enumerates
  <1> QED
    BY <1>7, <1>10, <1>11, Zenon DEF MovedBy, t, moved

----------------------------------------------------------------------------
(* The lexer: what its tokens say of the modules.                           *)

(* The lexer's state, and its tokens.                                       *)
Tok == [kind : LineKind \cup {"INDENT", "DEDENT"}, at : Nat]
LexState == {a \in [levels : Seq(Nat), out : Seq(Tok)] : a.levels # <<>> /\ a.levels[1] = 0}

(* The tokens and the lines of modules, and that the ones tell the others.  *)
ModuleTokens(out) == {a \in DOMAIN out : out[a].kind \in ModuleKind}
Modules(lines, k) == {m \in 1 .. k : lines[m].kind \in ModuleKind}
Tells(out, lines, k) ==
  /\ {out[a].at : a \in ModuleTokens(out)} = Modules(lines, k)
  /\ \A a, b \in ModuleTokens(out) : a < b => out[a].at < out[b].at

(* Tokens of the indentation of a line.                                     *)
Plain(more, at) ==
  more \in Seq(Tok) /\ ModuleTokens(more) = {} /\ \A k \in DOMAIN more : more[k].at = at

(* A DEDENT is of the line of the token behind it; at the end of a text it  *)
(* is of its last line, which is blank.                                     *)
Closes(out) ==
  \A a \in DOMAIN out : out[a].kind = "DEDENT" => a < Len(out) /\ out[a + 1].at = out[a].at
ClosesText(out, lines) ==
  \A a \in DOMAIN out : out[a].kind = "DEDENT" =>
    \/ a < Len(out) /\ out[a + 1].at = out[a].at
    \/ a = Len(out) /\ out[a].at = Len(lines) /\ Last(lines).kind = "blank"

(* The levels a line leaves still have the lowest one, 0.                   *)
LEMMA KeptLevels ==
  ASSUME NEW levels \in Seq(Nat), levels # <<>>, levels[1] = 0, NEW c \in Nat
  PROVE  /\ Kept(levels, c) \in Seq(Nat) /\ Kept(levels, c) # <<>> /\ Kept(levels, c)[1] = 0
         /\ Len(Kept(levels, c)) \in 1 .. Len(levels)
  <1> DEFINE left == {k \in DOMAIN levels : levels[k] <= c}
             m == Max(left)
  <1>1. Len(levels) \in Nat /\ DOMAIN levels = 1 .. Len(levels) /\ 1 \in DOMAIN levels
    OBVIOUS
  <1>2. left \in SUBSET (1 .. Len(levels)) /\ left # {}
    BY <1>1
  <1>3. m \in 1 .. Len(levels)
    <2> HIDE DEF left
    <2> QED
      BY <1>1, <1>2, MaxIsIn, Zenon
  <1>4. Kept(levels, c) = SubSeq(levels, 1, m)
    BY DEF Kept
  <1> HIDE DEF m
  <1> QED
    BY <1>3, <1>4

(* Concatenation of sequences over one set.                                 *)
LEMMA ThreeSeqs ==
  ASSUME NEW S, NEW s \in Seq(S), NEW t \in Seq(S), NEW u \in Seq(S)
  PROVE  s \o t \in Seq(S) /\ (s \o t) \o u = s \o (t \o u)
  BY ConcatAssociative

(* Indentation adds INDENTs and DEDENTs, nothing of the lines themselves.   *)
LEMMA IndentationAdds ==
  ASSUME NEW a \in LexState, NEW c \in Nat, NEW at \in Nat
  PROVE  /\ Indentation(a, c, at) \in LexState
         /\ \E more : Plain(more, at) /\ Indentation(a, c, at).out = a.out \o more
  <1> DEFINE kept == Kept(a.levels, c)
             dedents == [k \in 1 .. Len(a.levels) - Len(kept) |-> Token("DEDENT", at)]
             indent == <<Token("INDENT", at)>>
  <1>1. a.levels \in Seq(Nat) /\ a.levels # <<>> /\ a.levels[1] = 0 /\ a.out \in Seq(Tok)
    BY DEF LexState
  <1>2. /\ kept \in Seq(Nat) /\ kept # <<>> /\ kept[1] = 0
        /\ Len(kept) \in 1 .. Len(a.levels)
    BY <1>1, KeptLevels
  <1>3. Token("DEDENT", at) \in Tok /\ Token("INDENT", at) \in Tok
    BY DEF Token, Tok
  <1>4. dedents \in Seq(Tok)
    BY <1>1, <1>2, <1>3
  <1>5. Plain(dedents, at)
    <2>1. \A k \in DOMAIN dedents : dedents[k].kind = "DEDENT" /\ dedents[k].at = at
      BY DEF Token
    <2> QED
      BY <1>4, <2>1 DEF Plain, ModuleTokens, ModuleKind
  <1>6. /\ indent \in Seq(Tok)
        /\ \A k \in DOMAIN indent : indent[k].kind = "INDENT" /\ indent[k].at = at
    BY <1>3 DEF Token
  <1>7. Plain(dedents \o indent, at)
    <2> DEFINE both == dedents \o indent
    <2>1. both \in Seq(Tok)
      BY <1>4, <1>6, ThreeSeqs, Zenon
    <2>2. \A k \in DOMAIN both : both[k].kind \in {"DEDENT", "INDENT"} /\ both[k].at = at
      <3>1. \A k \in DOMAIN dedents : dedents[k].kind = "DEDENT" /\ dedents[k].at = at
        BY DEF Token
      <3> HIDE DEF dedents, indent
      <3> TAKE k \in DOMAIN both
      <3>2. k \in 1 .. Len(dedents) + Len(indent)
        BY <1>4, <1>6
      <3>3. CASE k \in 1 .. Len(dedents)
        <4>1. both[k] = dedents[k]
          BY <1>4, <1>6, <3>3
        <4> QED
          BY <1>4, <3>1, <3>3, <4>1
      <3>4. CASE k - Len(dedents) \in 1 .. Len(indent)
        <4>1. both[k] = indent[k - Len(dedents)]
          BY <1>4, <1>6, <3>4
        <4> QED
          BY <1>6, <3>4, <4>1
      <3> QED
        BY <1>4, <1>6, <3>2, <3>3, <3>4
    <2> HIDE DEF both
    <2> QED
      BY <2>1, <2>2 DEF Plain, ModuleTokens, ModuleKind, both
  <1>8. (a.out \o dedents) \o indent = a.out \o (dedents \o indent)
    <2>1. a.out \in Seq(Tok) /\ dedents \in Seq(Tok) /\ indent \in Seq(Tok)
      BY <1>1, <1>4, <1>6, Zenon
    <2> DEFINE out == a.out
    <2> HIDE DEF dedents, indent, out
    <2>2. (out \o dedents) \o indent = out \o (dedents \o indent)
      <3>1. out \in Seq(Tok)
        BY <2>1, Zenon DEF out
      <3> QED
        BY <2>1, <3>1, ThreeSeqs
    <2> QED
      BY <2>2, Zenon DEF out
  <1>9. CASE Last(kept) < c
    <2>1. Indentation(a, c, at)
            = [levels |-> Append(kept, c), out |-> (a.out \o dedents) \o indent]
      BY <1>9 DEF Indentation
    <2>2. Append(kept, c) \in Seq(Nat) /\ Append(kept, c) # <<>> /\ Append(kept, c)[1] = 0
      BY <1>2
    <2>3. (a.out \o dedents) \o indent \in Seq(Tok)
      BY <1>1, <1>4, <1>6, ThreeSeqs, Zenon
    <2> DEFINE levels == Append(kept, c)
               out == (a.out \o dedents) \o indent
    <2> HIDE DEF kept, dedents, indent, levels, out
    <2>4. [levels |-> levels, out |-> out] \in LexState
      <3>1. levels \in Seq(Nat) /\ levels # <<>> /\ levels[1] = 0 /\ out \in Seq(Tok)
        BY <2>2, <2>3, Zenon DEF levels, out
      <3> QED
        BY <3>1 DEF LexState
    <2>5. Indentation(a, c, at) = [levels |-> levels, out |-> out]
      BY <2>1, Zenon DEF levels, out
    <2>6. Indentation(a, c, at).out = out
      BY <2>5
    <2> QED
      BY <1>7, <1>8, <2>4, <2>5, <2>6, Zenon DEF out
  <1>10. CASE ~(Last(kept) < c)
    <2>1. Indentation(a, c, at) = [levels |-> kept, out |-> a.out \o dedents]
      BY <1>10 DEF Indentation
    <2>2. a.out \o dedents \in Seq(Tok)
      BY <1>1, <1>4, ThreeSeqs, Zenon
    <2> DEFINE out == a.out \o dedents
    <2> HIDE DEF kept, dedents, indent, out
    <2>3. [levels |-> kept, out |-> out] \in LexState
      <3>1. out \in Seq(Tok)
        BY <2>2, Zenon DEF out
      <3> QED
        BY <1>2, <3>1 DEF LexState
    <2>4. Indentation(a, c, at) = [levels |-> kept, out |-> out]
      BY <2>1, Zenon DEF out
    <2>5. Indentation(a, c, at).out = out
      BY <2>4
    <2> QED
      BY <1>5, <2>3, <2>4, <2>5, Zenon DEF out
  <1> QED
    BY <1>9, <1>10

(* Tokens of indentation tell nothing of modules, a module's tells it.      *)
LEMMA TellsPlain ==
  ASSUME NEW out \in Seq(Tok), NEW at, NEW more, Plain(more, at), NEW lines, NEW k,
         Tells(out, lines, k)
  PROVE  Tells(out \o more, lines, k)
  <1> DEFINE both == out \o more
  <1>1. more \in Seq(Tok) /\ \A a \in DOMAIN more : more[a].kind \notin ModuleKind
    BY DEF Plain, ModuleTokens
  <1>2. /\ DOMAIN out = 1 .. Len(out) /\ DOMAIN more = 1 .. Len(more)
        /\ DOMAIN both = 1 .. Len(out) + Len(more)
        /\ Len(out) \in Nat /\ Len(more) \in Nat
        /\ \A a \in 1 .. Len(out) : both[a] = out[a]
    BY <1>1
  <1>3. \A a \in 1 .. Len(out) + Len(more) :
          a \notin 1 .. Len(out) => a - Len(out) \in 1 .. Len(more) /\ both[a] = more[a - Len(out)]
    BY <1>1
  <1> HIDE DEF both
  <1>4. ModuleTokens(both) = ModuleTokens(out)
    <2>1. ASSUME NEW a \in ModuleTokens(both) PROVE a \in ModuleTokens(out)
      <3>1. a \in 1 .. Len(out) + Len(more) /\ both[a].kind \in ModuleKind
        BY <1>2 DEF ModuleTokens
      <3>2. a \in 1 .. Len(out)
        BY <1>1, <1>2, <1>3, <3>1, Zenon
      <3> QED
        BY <1>2, <3>1, <3>2 DEF ModuleTokens
    <2>2. ASSUME NEW a \in ModuleTokens(out) PROVE a \in ModuleTokens(both)
      BY <1>2 DEF ModuleTokens
    <2> QED
      BY <2>1, <2>2
  <1>5. \A a \in ModuleTokens(out) : both[a] = out[a]
    BY <1>2 DEF ModuleTokens
  <1>6. {both[a].at : a \in ModuleTokens(both)} = {out[a].at : a \in ModuleTokens(out)}
    BY <1>4, <1>5
  <1>7. \A a, b \in ModuleTokens(both) : a < b => both[a].at < both[b].at
    <2>1. \A a, b \in ModuleTokens(out) : a < b => out[a].at < out[b].at
      BY Zenon DEF Tells
    <2> TAKE a, b \in ModuleTokens(both)
    <2>2. a \in ModuleTokens(out) /\ b \in ModuleTokens(out)
      BY <1>4
    <2>3. both[a] = out[a] /\ both[b] = out[b]
      BY <1>5, <2>2
    <2> QED
      BY <2>1, <2>2, <2>3, Zenon
  <1> QED
    BY <1>6, <1>7, Zenon DEF Tells, both

(* A line adds its own token.                                               *)
LEMMA TellsLine ==
  ASSUME NEW lines, NEW k \in Nat \ {0}, NEW out \in Seq(Tok), Tells(out, lines, k - 1),
         lines[k].kind \in LineKind
  PROVE  Tells(Append(out, Token(lines[k].kind, k)), lines, k)
  <1> DEFINE t == Token(lines[k].kind, k)
             all == Append(out, t)
             n == Len(out) + 1
  <1>1. /\ DOMAIN out = 1 .. Len(out) /\ DOMAIN all = 1 .. n /\ Len(out) \in Nat
        /\ \A a \in 1 .. Len(out) : all[a] = out[a]
        /\ all[n] = t
    OBVIOUS
  <1>2. t.at = k /\ t.kind = lines[k].kind
    BY DEF Token
  <1> HIDE DEF all, t
  <1>3. \A a \in ModuleTokens(out) : a \in ModuleTokens(all) /\ all[a] = out[a] /\ a < n
    BY <1>1 DEF ModuleTokens
  <1>4. \A a \in ModuleTokens(all) : a = n \/ a \in ModuleTokens(out)
    <2> TAKE a \in ModuleTokens(all)
    <2>1. a \in 1 .. n /\ all[a].kind \in ModuleKind
      BY <1>1 DEF ModuleTokens
    <2>2. CASE a \in 1 .. Len(out)
      BY <1>1, <2>1, <2>2 DEF ModuleTokens
    <2> QED
      BY <1>1, <2>1, <2>2
  <1>5. /\ {out[a].at : a \in ModuleTokens(out)} = Modules(lines, k - 1)
        /\ \A a, b \in ModuleTokens(out) : a < b => out[a].at < out[b].at
    BY Zenon DEF Tells
  <1>6. \A a \in ModuleTokens(out) : out[a].at \in Modules(lines, k - 1)
    BY <1>5
  <1>7. \A m \in Modules(lines, k - 1) : m < k /\ m \in Modules(lines, k)
    BY DEF Modules
  <1>8. ASSUME NEW a \in ModuleTokens(all), NEW b \in ModuleTokens(all), a < b
        PROVE  all[a].at < all[b].at
    <2>1. a \in 1 .. n /\ b \in 1 .. n
      BY <1>1 DEF ModuleTokens
    <2>2. a # n
      BY <1>1, <1>8, <2>1
    <2>3. a \in ModuleTokens(out) /\ all[a] = out[a]
      BY <1>3, <1>4, <2>2
    <2>4. CASE b = n
      <3>1. all[a].at < k
        BY <1>6, <1>7, <2>3
      <3> QED
        BY <1>1, <1>2, <2>4, <3>1
    <2>5. CASE b # n
      <3>1. b \in ModuleTokens(out) /\ all[b] = out[b]
        BY <1>3, <1>4, <2>5
      <3> QED
        BY <1>5, <1>8, <2>3, <3>1, Zenon
    <2> QED
      BY <2>4, <2>5
  <1>9. {all[a].at : a \in ModuleTokens(all)} = Modules(lines, k)
    <2>1. ASSUME NEW a \in ModuleTokens(all) PROVE all[a].at \in Modules(lines, k)
      <3>1. CASE a = n
        BY <1>1, <1>2, <3>1 DEF ModuleTokens, Modules
      <3>2. CASE a \in ModuleTokens(out)
        BY <1>3, <1>6, <1>7, <3>2
      <3> QED
        BY <1>4, <3>1, <3>2
    <2>2. ASSUME NEW m \in Modules(lines, k)
          PROVE  \E a \in ModuleTokens(all) : m = all[a].at
      <3>1. CASE m = k
        <4>1. n \in ModuleTokens(all)
          BY <1>1, <1>2, <3>1 DEF ModuleTokens, Modules
        <4> QED
          BY <1>1, <1>2, <3>1, <4>1
      <3>2. CASE m # k
        <4>1. m \in Modules(lines, k - 1)
          BY <3>2 DEF Modules
        <4>2. PICK a \in ModuleTokens(out) : m = out[a].at
          BY <1>5, <4>1
        <4> QED
          BY <1>3, <4>2
      <3> QED
        BY <3>1, <3>2
    <2> QED
      BY <2>1, <2>2
  <1> QED
    BY <1>8, <1>9, Zenon DEF Tells, all, t

(* A text that starts, as FIRRTL does, with its version.                    *)
Headed(lines) == lines[1].kind = "version" /\ lines[1].indent = 0
Heads(out) == out # <<>> /\ out[1].kind = "version"

(* What the lexer has after k lines.                                        *)
LexedTo(a, lines, k) ==
  /\ a \in LexState
  /\ Tells(a.out, lines, k)
  /\ k = 0 => a.levels = <<0>> /\ a.out = <<>>
  /\ k > 0 /\ Headed(lines) => Heads(a.out)
  /\ Closes(a.out)

(* A line's indentation is followed by its own token, or ends the text.     *)
LEMMA ClosesMore ==
  ASSUME NEW out \in Seq(Tok), NEW at, NEW more, Plain(more, at), Closes(out), NEW a,
         a \in DOMAIN (out \o more), (out \o more)[a].kind = "DEDENT"
  PROVE  \/ a < Len(out \o more) /\ (out \o more)[a + 1].at = (out \o more)[a].at
         \/ a = Len(out \o more) /\ (out \o more)[a].at = at
  <1> DEFINE both == out \o more
             n == Len(out)
             m == Len(more)
  <1>1. more \in Seq(Tok) /\ \A k \in DOMAIN more : more[k].at = at
    BY DEF Plain
  <1>2. /\ DOMAIN out = 1 .. n /\ DOMAIN more = 1 .. m /\ DOMAIN both = 1 .. n + m
        /\ Len(both) = n + m /\ n \in Nat /\ m \in Nat
        /\ \A k \in 1 .. n : both[k] = out[k]
        /\ \A k \in 1 .. n + m : k \notin 1 .. n => k - n \in 1 .. m /\ both[k] = more[k - n]
    BY <1>1
  <1>3. a \in 1 .. n + m /\ a \in Nat /\ both[a].kind = "DEDENT"
    BY <1>2
  <1> HIDE DEF both, n, m
  <1>4. CASE a \in 1 .. n
    <2>1. a < n /\ out[a + 1].at = out[a].at
      BY <1>2, <1>3, <1>4 DEF Closes, n
    <2>2. a + 1 \in 1 .. n /\ a < n + m
      BY <1>2, <1>3, <2>1
    <2> QED
      BY <1>2, <1>4, <2>1, <2>2, Zenon DEF both
  <1>5. CASE a \notin 1 .. n
    <2>1. both[a].at = at
      BY <1>1, <1>2, <1>3, <1>5
    <2>2. CASE a = n + m
      BY <1>2, <2>1, <2>2, Zenon DEF both
    <2>3. CASE a # n + m
      <3>1. a < n + m /\ a + 1 \in 1 .. n + m /\ a + 1 \notin 1 .. n
        BY <1>2, <1>3, <1>5, <2>3
      <3>2. both[a + 1].at = at
        BY <1>1, <1>2, <3>1
      <3> QED
        BY <1>2, <2>1, <3>1, <3>2, Zenon DEF both
    <2> QED
      BY <2>2, <2>3
  <1> QED
    BY <1>4, <1>5

(* The line's own token.                                                    *)
LEMMA ClosesLine ==
  ASSUME NEW out \in Seq(Tok), NEW at, NEW more, Plain(more, at), Closes(out),
         NEW t \in Tok, t.kind # "DEDENT", t.at = at
  PROVE  Closes(Append(out \o more, t))
  <1> DEFINE both == out \o more
             all == Append(both, t)
             n == Len(both)
  <1>1. more \in Seq(Tok)
    BY DEF Plain
  <1>2. both \in Seq(Tok)
    BY <1>1, ThreeSeqs, Zenon
  <1>3. \A a \in DOMAIN both : both[a].kind = "DEDENT" =>
          \/ a < Len(both) /\ both[a + 1].at = both[a].at
          \/ a = Len(both) /\ both[a].at = at
    BY ClosesMore, Zenon
  <1> HIDE DEF both
  <1>4. /\ DOMAIN both = 1 .. n /\ DOMAIN all = 1 .. n + 1 /\ Len(all) = n + 1 /\ n \in Nat
        /\ all[n + 1] = t /\ \A k \in 1 .. n : all[k] = both[k]
    BY <1>2
  <1> HIDE DEF all, n
  <1>5. ASSUME NEW a \in DOMAIN all, all[a].kind = "DEDENT"
        PROVE  a < Len(all) /\ all[a + 1].at = all[a].at
    <2>1. a \in 1 .. n /\ a \in Nat
      BY <1>4, <1>5
    <2>2. CASE a < n /\ both[a + 1].at = both[a].at
      <3>1. a + 1 \in 1 .. n
        BY <1>4, <2>1, <2>2
      <3> QED
        BY <1>4, <2>1, <2>2, <3>1
    <2>3. CASE a = n /\ both[a].at = at
      BY <1>4, <2>1, <2>3
    <2> QED
      BY <1>3, <1>4, <1>5, <2>1, <2>2, <2>3 DEF n
  <1> QED
    BY <1>5, Zenon DEF Closes, all, both

(* What is appended leaves the head where it is.                            *)
LEMMA HeadsMore ==
  ASSUME NEW out \in Seq(Tok), NEW more \in Seq(Tok), Heads(out)
  PROVE  Heads(out \o more)
  <1>1. Len(out) >= 1 /\ Len(out) \in Nat
    BY DEF Heads
  <1>2. (out \o more)[1] = out[1] /\ Len(out \o more) >= 1
    BY <1>1
  <1>3. out \o more # <<>>
    BY <1>2
  <1> QED
    BY <1>2, <1>3, Zenon DEF Heads

(* The same for one token.                                                  *)
LEMMA HeadsAppend ==
  ASSUME NEW out \in Seq(Tok), NEW t \in Tok, Heads(out)
  PROVE  Heads(Append(out, t))
  <1>1. Len(out) >= 1 /\ Len(out) \in Nat
    BY DEF Heads
  <1>2. Append(out, t)[1] = out[1] /\ Append(out, t) # <<>>
    BY <1>1
  <1> QED
    BY <1>2, Zenon DEF Heads

(* At the left margin of a text nothing is indented or closed.              *)
LEMMA MarginKeeps ==
  ASSUME NEW a \in LexState, a.levels = <<0>>, a.out = <<>>, NEW at \in Nat
  PROVE  Indentation(a, 0, at).out = <<>>
  <1>1. Kept(<<0>>, 0) = <<0>>
    <2>1. /\ Kept(<<0>>, 0) \in Seq(Nat) /\ Kept(<<0>>, 0)[1] = 0
          /\ Len(Kept(<<0>>, 0)) \in 1 .. 1
      <3>1. <<0>> \in Seq(Nat) /\ <<0>> # <<>> /\ <<0>>[1] = 0 /\ 0 \in Nat /\ Len(<<0>>) = 1
        OBVIOUS
      <3>2. Len(Kept(<<0>>, 0)) \in 1 .. Len(<<0>>)
        BY <3>1, KeptLevels, Zenon
      <3>3. Kept(<<0>>, 0) \in Seq(Nat) /\ Kept(<<0>>, 0)[1] = 0
        BY <3>1, KeptLevels, Zenon
      <3> QED
        BY <3>1, <3>2, <3>3
    <2> DEFINE s == Kept(<<0>>, 0)
    <2> HIDE DEF s
    <2>2. s \in Seq(Nat) /\ s[1] = 0 /\ Len(s) = 1
      BY <2>1 DEF s
    <2>3. s = <<0>>
      BY <2>2
    <2> QED
      BY <2>3, Zenon DEF s
  <1>2. Last(<<0>>) = 0
    BY DEF Last
  <1>3. Indentation(a, 0, at)
          = [levels |-> <<0>>, out |-> <<>> \o [k \in 1 .. Len(<<0>>) - Len(<<0>>) |->
                                                   Token("DEDENT", at)]]
    BY <1>1, <1>2 DEF Indentation
  <1>4. [k \in 1 .. Len(<<0>>) - Len(<<0>>) |-> Token("DEDENT", at)] = <<>>
    OBVIOUS
  <1> QED
    BY <1>3, <1>4

(* The lexer reads line k.                                                  *)
LEMMA LexLineStep ==
  ASSUME NEW lines \in Seq(Line), NEW k \in 1 .. Len(lines), NEW a, LexedTo(a, lines, k - 1)
  PROVE  LexedTo(LexLine(a, lines[k], k), lines, k)
  <1> DEFINE line == lines[k]
             b == Indentation(a, line.indent, k)
  <1>1. line \in Line /\ k \in Nat \ {0} /\ k \in Nat
    OBVIOUS
  <1>2. line.indent \in Nat /\ line.kind \in LineKind
    BY <1>1 DEF Line
  <1>3. a \in LexState /\ Tells(a.out, lines, k - 1) /\ a.out \in Seq(Tok)
    BY DEF LexedTo, LexState
  <1>4. CASE line.kind = "blank"
    <2>1. LexLine(a, line, k) = a
      BY <1>4 DEF LexLine
    <2>2. Modules(lines, k) = Modules(lines, k - 1)
      <3>1. \A m \in 1 .. k : m \in 1 .. k - 1 \/ m = k
        BY <1>1
      <3>2. \A m \in 1 .. k - 1 : m \in 1 .. k
        BY <1>1
      <3>3. lines[k].kind \notin ModuleKind
        BY <1>4 DEF ModuleKind
      <3> QED
        BY <3>1, <3>2, <3>3 DEF Modules
    <2>3. Tells(a.out, lines, k)
      BY <1>3, <2>2, Zenon DEF Tells
    <2>4. Headed(lines) => Heads(a.out)
      <3>1. CASE k = 1
        BY <1>4, <3>1 DEF Headed
      <3>2. CASE k # 1
        <4>1. k - 1 > 0
          BY <1>1, <3>2
        <4> QED
          BY <4>1, Zenon DEF LexedTo
      <3> QED
        BY <3>1, <3>2
    <2>5. k # 0 /\ Closes(a.out)
      BY <1>1, Zenon DEF LexedTo
    <2> QED
      BY <1>3, <2>1, <2>3, <2>4, <2>5, Zenon DEF LexedTo
  <1>5. CASE line.kind # "blank"
    <2>1. PICK more : Plain(more, k) /\ b.out = a.out \o more
      BY <1>1, <1>2, <1>3, IndentationAdds, Zenon
    <2>2. b \in LexState
      BY <1>1, <1>2, <1>3, IndentationAdds, Zenon
    <2>3. Tells(b.out, lines, k - 1) /\ b.out \in Seq(Tok)
      <3>1. Tells(b.out, lines, k - 1)
        BY <1>3, <2>1, TellsPlain, Zenon
      <3>2. b.out \in Seq(Tok)
        <4> HIDE DEF b
        <4> QED
          BY <2>2 DEF LexState
      <3> QED
        BY <3>1, <3>2
    <2> DEFINE t == Token(line.kind, k)
               c == [b EXCEPT !.out = Append(b.out, t)]
    <2>4. t \in Tok /\ t.kind = line.kind /\ t.at = k
      BY <1>1, <1>2 DEF Token, Tok
    <2>10. Closes(Append(b.out, t))
      <3>1. t.kind # "DEDENT"
        BY <1>2, <2>4 DEF LineKind, Heading, ModuleKind
      <3>2. Closes(a.out)
        BY Zenon DEF LexedTo
      <3> HIDE DEF b, t
      <3>3. Closes(Append(a.out \o more, t))
        BY <1>3, <2>1, <2>4, <3>1, <3>2, ClosesLine, Zenon
      <3> QED
        BY <2>1, <3>3, Zenon
    <2>5. LexLine(a, line, k) = c
      BY <1>5 DEF LexLine
    <2>6. Tells(Append(b.out, t), lines, k)
      BY <1>1, <1>2, <2>3, TellsLine, Zenon
    <2>7. Headed(lines) => Heads(Append(b.out, t))
      <3>1. CASE k = 1
        <4> SUFFICES ASSUME Headed(lines) PROVE Heads(Append(b.out, t))
          OBVIOUS
        <4>1. line.kind = "version" /\ line.indent = 0 /\ a.levels = <<0>> /\ a.out = <<>>
          BY <3>1 DEF Headed, LexedTo
        <4>2. b.out = <<>>
          BY <1>1, <1>3, <4>1, MarginKeeps, Zenon
        <4> HIDE DEF b, t
        <4>3. Append(b.out, t)[1] = t /\ Append(b.out, t) # <<>>
          BY <4>2
        <4> QED
          BY <2>4, <4>1, <4>3, Zenon DEF Heads
      <3>2. CASE k # 1
        <4>1. k - 1 > 0
          BY <1>1, <3>2
        <4>2. Headed(lines) => Heads(a.out)
          BY <4>1, Zenon DEF LexedTo
        <4>3. more \in Seq(Tok)
          BY <2>1 DEF Plain
        <4>4. Headed(lines) => Heads(b.out)
          BY <1>3, <2>1, <4>2, <4>3, HeadsMore, Zenon
        <4> HIDE DEF b, t
        <4> QED
          BY <2>3, <2>4, <4>4, HeadsAppend, Zenon
      <3> QED
        BY <3>1, <3>2
    <2> HIDE DEF b, t
    <2>8. c \in LexState /\ c.out = Append(b.out, t)
      <3>1. Append(b.out, t) \in Seq(Tok)
        BY <2>3, <2>4
      <3> DEFINE o == Append(b.out, t)
      <3> HIDE DEF o
      <3>2. [b EXCEPT !.out = o] \in LexState /\ [b EXCEPT !.out = o].out = o
        <4>1. o \in Seq(Tok)
          BY <3>1, Zenon DEF o
        <4> QED
          BY <2>2, <4>1 DEF LexState
      <3> QED
        BY <3>2, Zenon DEF o
    <2> HIDE DEF c
    <2>9. k # 0
      BY <1>1
    <2> QED
      BY <2>5, <2>6, <2>7, <2>8, <2>9, <2>10, Zenon DEF LexedTo
  <1> QED
    BY <1>4, <1>5

(* The lexer's fold over the lines is a recursion over them.                *)
StartLex == [levels |-> StartLevels, out |-> <<>>]
LexFolds(F, lines, n) ==
  F = [s \in SUBSET (1 .. n) |->
         IF s = {} THEN StartLex ELSE LexLine(F[s \ {Max(s)}], lines[Max(s)], Max(s))]

(* Before the first line.                                                   *)
LEMMA StartLexed == ASSUME NEW lines PROVE LexedTo(StartLex, lines, 0)
  <1>1. StartLex \in LexState /\ StartLex.levels = <<0>> /\ StartLex.out = <<>>
    <2>1. <<0>> \in Seq(Nat) /\ <<0>> # <<>> /\ <<0>>[1] = 0 /\ <<>> \in Seq(Tok)
      OBVIOUS
    <2>2. StartLex = [levels |-> <<0>>, out |-> <<>>]
      BY DEF StartLex, StartLevels
    <2> QED
      BY <2>1, <2>2 DEF LexState
  <1>2. Tells(<<>>, lines, 0)
    BY DEF Tells, ModuleTokens, Modules
  <1>3. ~(0 > 0) /\ Closes(<<>>)
    BY DEF Closes
  <1> QED
    BY <1>1, <1>2, <1>3, Zenon DEF LexedTo

(* The lexer keeps the type of its state.                                   *)
LEMMA LexLineType ==
  ASSUME NEW a \in LexState, NEW line \in Line, NEW k \in Nat
  PROVE  LexLine(a, line, k) \in LexState
  <1> DEFINE b == Indentation(a, line.indent, k)
             t == Token(line.kind, k)
  <1>1. line.indent \in Nat /\ line.kind \in LineKind
    BY DEF Line
  <1>2. b \in LexState
    BY <1>1, IndentationAdds, Zenon
  <1>3. t \in Tok
    BY <1>1 DEF Token, Tok
  <1>4. LexLine(a, line, k) = IF line.kind = "blank" THEN a
                              ELSE [b EXCEPT !.out = Append(b.out, t)]
    BY DEF LexLine
  <1> HIDE DEF b, t
  <1>5. Append(b.out, t) \in Seq(Tok)
    BY <1>2, <1>3 DEF LexState
  <1> DEFINE o == Append(b.out, t)
  <1> HIDE DEF o
  <1>6. [b EXCEPT !.out = o] \in LexState
    <2>1. o \in Seq(Tok)
      BY <1>5, Zenon DEF o
    <2> QED
      BY <1>2, <2>1 DEF LexState
  <1> QED
    BY <1>4, <1>6, Zenon DEF o

(* The fold of LexLine over the lines has a value.                          *)
LEMMA LexFoldExists ==
  ASSUME NEW lines \in Seq(Line) PROVE \E F : LexFolds(F, lines, Len(lines))
  <1> DEFINE n == Len(lines)
             step == [k \in 1 .. n |-> [a \in LexState |-> LexLine(a, lines[k], k)]]
             T == SUBSET (1 .. n)
  <1>1. n \in Nat /\ \A k \in 1 .. n : lines[k] \in Line /\ k \in Nat
    OBVIOUS
  <1>2. step \in [1 .. n -> [LexState -> LexState]]
    <2>1. \A k \in 1 .. n : \A a \in LexState : LexLine(a, lines[k], k) \in LexState
      BY <1>1, LexLineType, Zenon
    <2> HIDE DEF n
    <2> QED
      BY <2>1
  <1>3. StartLex \in LexState
    BY StartLexed, Zenon DEF LexedTo
  <1>4. \A k \in 1 .. n : \A a \in LexState : step[k][a] = LexLine(a, lines[k], k)
    OBVIOUS
  <1> HIDE DEF step, n
  <1>5. PICK F \in [T -> LexState] : Folds(F, StartLex, step, n)
    BY <1>1, <1>2, <1>3, FoldsExist
  <1>6. \A s \in T : s # {} => Max(s) \in 1 .. n /\ s \ {Max(s)} \in T
    BY <1>1, MaxIsIn
  <1>7. \A s \in T : F[s] \in LexState
    OBVIOUS
  <1> HIDE DEF T
  <1>8. ASSUME NEW s \in T
        PROVE  (IF s = {} THEN StartLex ELSE step[Max(s)][F[s \ {Max(s)}]])
               = (IF s = {} THEN StartLex ELSE LexLine(F[s \ {Max(s)}], lines[Max(s)], Max(s)))
    BY <1>4, <1>6, <1>7, Zenon
  <1>9. F = [s \in T |-> IF s = {} THEN StartLex ELSE step[Max(s)][F[s \ {Max(s)}]]]
    BY <1>5, Zenon DEF Folds, T
  <1>10. LexFolds(F, lines, n)
    BY <1>8, <1>9, Zenon DEF LexFolds, T
  <1> QED
    BY <1>10, Zenon DEF n

(* After all lines the tokens tell their modules.                           *)
LEMMA LexFoldReads ==
  ASSUME NEW lines \in Seq(Line), NEW F, LexFolds(F, lines, Len(lines))
  PROVE  LexedTo(F[1 .. Len(lines)], lines, Len(lines))
  <1> DEFINE n == Len(lines)
             S == {k \in Nat : LexedTo(F[1 .. k], lines, k)}
  <1>1. n \in Nat
    OBVIOUS
  <1>2. 0 \in S
    <2>1. 1 .. 0 = {} /\ {} \in SUBSET (1 .. n)
      OBVIOUS
    <2>2. F[{}] = StartLex
      BY <2>1, Zenon DEF LexFolds
    <2>3. F[1 .. 0] = StartLex
      BY <2>1, <2>2
    <2> HIDE DEF S
    <2>4. LexedTo(F[1 .. 0], lines, 0)
      BY <2>3, StartLexed, Zenon
    <2> QED
      BY <2>4 DEF S
  <1>3. ASSUME NEW k \in 1 .. n, k - 1 \in S PROVE k \in S
    <2>1. /\ 1 .. k # {} /\ 1 .. k \in SUBSET (1 .. n) /\ k \in Nat /\ k > 0
          /\ (1 .. k) \ {k} = 1 .. (k - 1)
      <3> HIDE DEF S, n
      <3>1. k \in Nat /\ k > 0 /\ k \in 1 .. n /\ k \in 1 .. k
        BY <1>1
      <3>2. 1 .. k \in SUBSET (1 .. n)
        BY <1>1, <3>1
      <3>3. (1 .. k) \ {k} = 1 .. (k - 1)
        BY <3>1
      <3> QED
        BY <3>1, <3>2, <3>3
    <2>2. Max(1 .. k) = k
      BY <2>1, MaxOfUpTo, Zenon
    <2>3. F[1 .. k] = LexLine(F[(1 .. k) \ {Max(1 .. k)}], lines[Max(1 .. k)], Max(1 .. k))
      BY <2>1, Zenon DEF LexFolds
    <2>4. F[1 .. k] = LexLine(F[1 .. (k - 1)], lines[k], k)
      BY <2>1, <2>2, <2>3, Zenon
    <2>5. LexedTo(F[1 .. (k - 1)], lines, k - 1)
      BY <1>3
    <2>6. LexedTo(F[1 .. k], lines, k)
      BY <2>4, <2>5, LexLineStep, Zenon
    <2> QED
      BY <2>1, <2>6, Zenon
  <1> HIDE DEF S
  <1>4. n \in S
    <2>1. 0 .. n \subseteq S
      BY <1>1, <1>2, <1>3, BoundedInduction
    <2> QED
      BY <1>1, <2>1
  <1> QED
    BY <1>4, Zenon DEF S

(* The lexer's tokens tell the lines of the modules.                        *)
LEMMA LexTells ==
  ASSUME NEW lines \in Seq(Line), lines # <<>>
  PROVE  /\ Lex(lines) \in Seq(Tok) /\ Tells(Lex(lines), lines, Len(lines))
         /\ Headed(lines) => Heads(Lex(lines))
         /\ ClosesText(Lex(lines), lines)
  <1> DEFINE n == Len(lines)
             ks == [k \in 1 .. n |-> k]
             F == CHOOSE F : LexFolds(F, lines, n)
             acc == F[1 .. n]
  <1>1. n \in Nat /\ n > 0
    OBVIOUS
  <1>2. LexFolds(F, lines, n)
    BY LexFoldExists, Zenon
  <1>3. LexedTo(acc, lines, n)
    BY <1>2, LexFoldReads, Zenon
  <1>4. FoldLeft(LAMBDA a, k : LexLine(a, lines[k], k), StartLex, ks) = acc
    <2>1. DOMAIN ks = 1 .. n
      OBVIOUS
    <2> DEFINE G(f) == [s \in SUBSET (1 .. n) |-> IF s = {} THEN StartLex
                         ELSE LexLine(f[s \ {Max(s)}], lines[ks[Max(s)]], ks[Max(s)])]
               H(f) == [s \in SUBSET (1 .. n) |-> IF s = {} THEN StartLex
                         ELSE LexLine(f[s \ {Max(s)}], lines[Max(s)], Max(s))]
    <2>2. FoldLeft(LAMBDA a, k : LexLine(a, lines[k], k), StartLex, ks)
            = (CHOOSE f : f = G(f))[1 .. n]
      BY <2>1, Zenon DEF FoldLeft, MapThenFoldSet
    <2>3. \A s \in SUBSET (1 .. n) : s # {} => ks[Max(s)] = Max(s)
      <3> TAKE s \in SUBSET (1 .. n)
      <3> HAVE s # {}
      <3>1. Max(s) \in 1 .. n
        BY <1>1, MaxIsIn, Zenon
      <3> HIDE DEF n
      <3> QED
        BY <3>1
    <2> HIDE DEF ks
    <2>4. \A f : G(f) = H(f)
      BY <2>3, Zenon
    <2>5. F = CHOOSE f : f = H(f)
      BY Zenon DEF LexFolds
    <2> HIDE DEF G, H, F
    <2>6. F = CHOOSE f : f = G(f)
      BY <2>4, <2>5, Zenon
    <2> QED
      BY <2>2, <2>6, Zenon
  <1>5. Lex(lines) = LexEnd(acc, lines, n).out
    <2> HIDE DEF acc
    <2> QED
      BY <1>4, Zenon DEF Lex, StartLex
  <1> HIDE DEF acc, n
  <1>6. acc \in LexState /\ acc.out \in Seq(Tok) /\ Tells(acc.out, lines, n)
        /\ (Headed(lines) => Heads(acc.out)) /\ Closes(acc.out)
    BY <1>1, <1>3 DEF LexedTo, LexState
  <1>7. CASE Last(lines).kind = "blank"
    <2>1. Lex(lines) = Indentation(acc, 0, n).out
      BY <1>5, <1>7, Zenon DEF LexEnd
    <2>2. PICK more : Plain(more, n) /\ Indentation(acc, 0, n).out = acc.out \o more
      <3>1. 0 \in Nat
        OBVIOUS
      <3> QED
        BY <1>1, <1>6, <3>1, IndentationAdds, Zenon
    <2>3. more \in Seq(Tok)
      BY <2>2, Zenon DEF Plain
    <2>4. acc.out \o more \in Seq(Tok)
      BY <1>6, <2>3, ThreeSeqs, Zenon
    <2>5. \A a \in DOMAIN (acc.out \o more) : (acc.out \o more)[a].kind = "DEDENT" =>
            \/ a < Len(acc.out \o more) /\ (acc.out \o more)[a + 1].at = (acc.out \o more)[a].at
            \/ a = Len(acc.out \o more) /\ (acc.out \o more)[a].at = n
      BY <1>6, <2>2, ClosesMore, Zenon
    <2>6. ClosesText(Lex(lines), lines)
      BY <1>7, <2>1, <2>2, <2>5, Zenon DEF ClosesText, n
    <2> QED
      BY <1>6, <2>1, <2>2, <2>3, <2>4, <2>6, TellsPlain, HeadsMore, Zenon DEF n
  <1>8. CASE Last(lines).kind # "blank"
    <2>1. Lex(lines) = acc.out
      BY <1>5, <1>8, Zenon DEF LexEnd
    <2>2. ClosesText(Lex(lines), lines)
      BY <1>6, <2>1, Zenon DEF Closes, ClosesText
    <2> QED
      BY <1>6, <2>1, <2>2, Zenon DEF n
  <1> QED
    BY <1>7, <1>8

----------------------------------------------------------------------------
(* The grammar: what the parser makes of the tokens.                        *)

(* The parser's state.                                                      *)
ParseState == [next : {"start", "circuit", "block", "lines", "end", "error"}, depth : Int,
               root : BOOLEAN, module : Nat, list : Seq(PNode)]

(* A module has been opened and not closed yet.                             *)
Open(p) == p.depth >= 2 \/ (p.next = "block" /\ p.depth = 1)

(* What a token does to the modules: it opens one, closes one, or neither.  *)
Opens(p, t, q) ==
  /\ t.kind \in ModuleKind /\ p.next = "lines" /\ p.depth = 1
  /\ q.next = "block" /\ q.depth = 1 /\ q.module = t.at /\ q.list = p.list
Finishes(p, t, q) ==
  /\ t.kind = "DEDENT" /\ p.next = "lines" /\ p.depth = 2
  /\ q.next = "lines" /\ q.depth = 1 /\ q.list = Append(p.list, Node(p.module, t.at))
Goes(p, t, q) ==
  /\ t.kind \notin ModuleKind /\ q.module = p.module /\ q.list = p.list
  /\ \/ p.next \in {"start", "circuit"} /\ q.next \in {"circuit", "block"} /\ q.depth = p.depth
     \/ p.next \in {"start", "block"} /\ q.next = "lines" /\ q.depth = p.depth + 1
     \/ p.next = "lines" /\ p.depth > 1 /\ q.next \in {"lines", "block"} /\ q.depth = p.depth
     \/ p.next = "lines" /\ p.depth > 2 /\ q.next = "lines" /\ q.depth = p.depth - 1
     \/ /\ t.kind = "DEDENT" /\ p.next = "lines" /\ p.depth = 1
        /\ q.next = "end" /\ q.depth = 0
     \/ p.next = "lines" /\ p.depth < 1

(* What a token does to the state.                                          *)
Shifts(p, t, q) ==
  /\ q \in ParseState
  /\ q.next = "error" \/ Opens(p, t, q) \/ Finishes(p, t, q) \/ Goes(p, t, q)
  /\ p.root => q.root
  /\ p.next = "circuit" => q.next = "error" \/ q.root
  /\ p.next = "start" /\ t.kind = "version" => q.next = "circuit"

(* A token of the parser.                                                   *)
LEMMA ShiftShifts ==
  ASSUME NEW p \in ParseState, NEW t \in Tok PROVE Shifts(p, t, Shift(p, t))
  <1> DEFINE x == Node(p.module, t.at)
             l == Reduced(p, t.at)
             P(n, d, r, m, s) == [next |-> n, depth |-> d, root |-> r, module |-> m, list |-> s]
  <1>1. /\ p.next \in {"start", "circuit", "block", "lines", "end", "error"}
        /\ p.depth \in Int /\ p.root \in BOOLEAN /\ p.module \in Nat /\ p.list \in Seq(PNode)
        /\ p = P(p.next, p.depth, p.root, p.module, p.list)
    BY DEF ParseState
  <1>2. t.at \in Nat /\ x \in PNode
    BY <1>1 DEF Tok, PNode, Node
  <1>16. /\ l \in Seq(PNode) /\ (p.depth # 2 => l = p.list)
         /\ (p.depth = 2 => l = Append(p.list, x))
    <2> HIDE DEF x
    <2>1. Append(p.list, x) \in Seq(PNode)
      BY <1>1, <1>2
    <2>2. l = IF p.depth = 2 THEN Append(p.list, x) ELSE p.list
      BY Zenon DEF Reduced, x
    <2> QED
      BY <1>1, <2>1, <2>2, Zenon
  <1>3. Shift(p, t) =
          IF t.kind = "version" /\ p.next = "start"
          THEN P("circuit", p.depth, p.root, p.module, p.list)
          ELSE IF t.kind = "circuit" /\ p.next = "circuit"
          THEN P("block", p.depth, TRUE, p.module, p.list)
          ELSE IF t.kind = "INDENT" /\ p.next \in {"start", "block"}
          THEN P("lines", p.depth + 1, p.root, p.module, p.list)
          ELSE IF t.kind \in ModuleKind /\ p.next = "lines" /\ p.depth = 1
          THEN P("block", p.depth, p.root, t.at, p.list)
          ELSE IF t.kind = "when" /\ p.next = "lines" /\ p.depth > 1
          THEN P("block", p.depth, p.root, p.module, p.list)
          ELSE IF t.kind = "stmt" /\ p.next = "lines" /\ p.depth > 1 THEN p
          ELSE IF t.kind = "DEDENT" /\ p.next = "lines"
          THEN P(IF p.depth = 1 THEN "end" ELSE "lines", p.depth - 1, p.root, p.module, l)
          ELSE P("error", p.depth, p.root, p.module, p.list)
    <2> HIDE DEF l
    <2>0. PICK n, d, r, m, s : p = P(n, d, r, m, s)
      BY <1>1
    <2>9. p.next = n /\ p.depth = d /\ p.root = r /\ p.module = m /\ p.list = s
      BY <2>0
    <2>5. ASSUME NEW y PROVE [p EXCEPT !.next = y] = P(y, d, r, m, s)
      BY <2>0
    <2>6. [p EXCEPT !.next = "block", !.root = TRUE] = P("block", d, TRUE, m, s)
      <3> DEFINE u == [p EXCEPT !.next = "block"]
      <3>1. u = P("block", d, r, m, s)
        BY <2>5, Zenon
      <3> HIDE DEF u
      <3>2. ASSUME NEW y PROVE [u EXCEPT !.root = y] = P("block", d, y, m, s)
        BY <3>1
      <3> QED
        BY <3>2, Zenon DEF u
    <2>7. [p EXCEPT !.next = "lines", !.depth = @ + 1] = P("lines", d + 1, r, m, s)
      <3> DEFINE u == [p EXCEPT !.next = "lines"]
      <3>1. u = P("lines", d, r, m, s)
        BY <2>5, Zenon
      <3> HIDE DEF u
      <3>2. [u EXCEPT !.depth = @ + 1] = P("lines", d + 1, r, m, s)
        BY <2>0, <3>1
      <3> QED
        BY <3>2 DEF u
    <2>8. [p EXCEPT !.next = "block", !.module = t.at] = P("block", d, r, t.at, s)
      <3> DEFINE u == [p EXCEPT !.next = "block"]
      <3>1. u = P("block", d, r, m, s)
        BY <2>5, Zenon
      <3> HIDE DEF u
      <3>2. ASSUME NEW y PROVE [u EXCEPT !.module = y] = P("block", d, r, y, s)
        BY <3>1
      <3> QED
        BY <3>2, Zenon DEF u
    <2>10. [p EXCEPT !.next = IF p.depth = 1 THEN "end" ELSE "lines", !.depth = @ - 1,
                     !.list = Reduced(p, t.at)]
             = P(IF p.depth = 1 THEN "end" ELSE "lines", d - 1, r, m, l)
      <3> DEFINE f == IF p.depth = 1 THEN "end" ELSE "lines"
                 u == [p EXCEPT !.next = f]
                 v == [u EXCEPT !.depth = @ - 1]
      <3> HIDE DEF f
      <3>1. u = P(f, d, r, m, s)
        BY <2>5, Zenon
      <3> HIDE DEF u
      <3>2. v = P(f, d - 1, r, m, s)
        BY <2>0, <3>1
      <3> HIDE DEF v
      <3>3. ASSUME NEW y PROVE [v EXCEPT !.list = y] = P(f, d - 1, r, m, y)
        BY <3>2
      <3>4. [v EXCEPT !.list = Reduced(p, t.at)] = P(f, d - 1, r, m, l)
        BY <3>3, Zenon DEF l
      <3> QED
        BY <3>4, Zenon DEF u, v, f
    <2> HIDE DEF P
    <2> QED
      BY <2>5, <2>6, <2>7, <2>8, <2>9, <2>10, Zenon DEF Shift
  <1>4. \A n \in {"start", "circuit", "block", "lines", "end", "error"}, d \in Int,
           r \in BOOLEAN, m \in Nat, s \in Seq(PNode) :
          /\ P(n, d, r, m, s) \in ParseState
          /\ P(n, d, r, m, s).next = n /\ P(n, d, r, m, s).depth = d
          /\ P(n, d, r, m, s).root = r /\ P(n, d, r, m, s).module = m
          /\ P(n, d, r, m, s).list = s
    BY DEF ParseState
  <1>15. /\ P("block", p.depth, TRUE, p.module, p.list) \in ParseState
         /\ P("block", p.depth, TRUE, p.module, p.list).root = TRUE
         /\ P("block", p.depth, TRUE, p.module, p.list).next = "block"
         /\ P("block", p.depth, TRUE, p.module, p.list).depth = p.depth
         /\ P("block", p.depth, TRUE, p.module, p.list).module = p.module
         /\ P("block", p.depth, TRUE, p.module, p.list).list = p.list
    BY <1>1 DEF ParseState
  <1>5. p.depth + 1 \in Int /\ p.depth - 1 \in Int
    BY <1>1
  <1>6. ModuleKind = {"module", "public"}
    BY DEF ModuleKind
  <1> DEFINE q == Shift(p, t)
             Same == q \in ParseState /\ q.root = p.root /\ q.module = p.module
  <1> HIDE DEF P, l, q, x
  <1>7. CASE t.kind = "version" /\ p.next = "start"
    <2>1. q = P("circuit", p.depth, p.root, p.module, p.list)
      BY <1>3, <1>7, Zenon DEF q
    <2>2. Same /\ q.next = "circuit" /\ q.depth = p.depth /\ q.list = p.list
      BY <1>1, <1>4, <2>1
    <2> QED
      BY <1>6, <1>7, <2>2 DEF Shifts, Goes, q
  <1>8. CASE ~(t.kind = "version" /\ p.next = "start") /\ t.kind = "circuit" /\ p.next = "circuit"
    <2>1. q = P("block", p.depth, TRUE, p.module, p.list)
      BY <1>3, <1>8, Zenon DEF q
    <2>2. /\ q \in ParseState /\ q.root = TRUE /\ q.next = "block" /\ q.depth = p.depth
          /\ q.module = p.module /\ q.list = p.list
      BY <2>1, <1>15, Zenon
    <2> QED
      BY <1>6, <1>8, <2>2 DEF Shifts, Goes, q
  <1> DEFINE Early == \/ t.kind = "version" /\ p.next = "start"
                      \/ t.kind = "circuit" /\ p.next = "circuit"
  <1>9. CASE ~Early /\ t.kind = "INDENT" /\ p.next \in {"start", "block"}
    <2>1. q = P("lines", p.depth + 1, p.root, p.module, p.list)
      BY <1>3, <1>9, Zenon DEF q
    <2>2. Same /\ q.next = "lines" /\ q.depth = p.depth + 1 /\ q.list = p.list
      BY <1>1, <1>4, <1>5, <2>1
    <2> QED
      BY <1>6, <1>9, <2>2 DEF Shifts, Goes, q
  <1>10. CASE ~Early /\ ~(t.kind = "INDENT" /\ p.next \in {"start", "block"})
              /\ t.kind \in ModuleKind /\ p.next = "lines" /\ p.depth = 1
    <2>1. q = P("block", p.depth, p.root, t.at, p.list)
      BY <1>3, <1>10, Zenon DEF q
    <2>2. /\ q \in ParseState /\ q.root = p.root /\ q.next = "block" /\ q.depth = p.depth
          /\ q.module = t.at /\ q.list = p.list
      BY <1>1, <1>2, <1>4, <2>1
    <2> QED
      BY <1>10, <2>2 DEF Shifts, Opens, q
  <1> DEFINE Begins == \/ Early
                       \/ t.kind = "INDENT" /\ p.next \in {"start", "block"}
                       \/ t.kind \in ModuleKind /\ p.next = "lines" /\ p.depth = 1
  <1>11. CASE ~Begins /\ t.kind = "when" /\ p.next = "lines" /\ p.depth > 1
    <2>1. q = P("block", p.depth, p.root, p.module, p.list)
      BY <1>3, <1>11, Zenon DEF q
    <2>2. Same /\ q.next = "block" /\ q.depth = p.depth /\ q.list = p.list
      BY <1>1, <1>4, <1>5, <2>1
    <2> QED
      BY <1>6, <1>11, <2>2 DEF Shifts, Goes, q
  <1>12. CASE ~Begins /\ ~(t.kind = "when" /\ p.next = "lines" /\ p.depth > 1)
              /\ t.kind = "stmt" /\ p.next = "lines" /\ p.depth > 1
    <2>1. q = p
      BY <1>3, <1>12, Zenon DEF q
    <2> QED
      BY <1>6, <1>12, <2>1 DEF Shifts, Goes, q
  <1>13. CASE ~Begins /\ ~(t.kind = "when" /\ p.next = "lines" /\ p.depth > 1)
              /\ ~(t.kind = "stmt" /\ p.next = "lines" /\ p.depth > 1)
              /\ t.kind = "DEDENT" /\ p.next = "lines"
    <2> DEFINE n == IF p.depth = 1 THEN "end" ELSE "lines"
    <2>1. q = P(n, p.depth - 1, p.root, p.module, l)
      BY <1>3, <1>13, Zenon DEF q
    <2>2. n \in {"end", "lines"}
      OBVIOUS
    <2> HIDE DEF n
    <2>8. ASSUME NEW f \in {"end", "lines"}, NEW s \in Seq(PNode),
                 q = P(f, p.depth - 1, p.root, p.module, s)
          PROVE  Same /\ q.next = f /\ q.depth = p.depth - 1 /\ q.list = s
      <3>1. p.depth - 1 \in Int /\ p.root \in BOOLEAN /\ p.module \in Nat
        BY <1>1
      <3> QED
        BY <2>8, <3>1 DEF P, ParseState
    <2>3. Same /\ q.next = n /\ q.depth = p.depth - 1 /\ q.list = l
      BY <1>16, <2>1, <2>2, <2>8, Zenon
    <2>4. t.kind \notin ModuleKind
      BY <1>6, <1>13
    <2>5. CASE p.depth = 2
      <3>1. q.next = "lines" /\ q.depth = 1 /\ q.list = Append(p.list, Node(p.module, t.at))
        BY <1>16, <2>3, <2>5 DEF n, x
      <3> QED
        BY <1>13, <2>3, <2>5, <3>1 DEF Shifts, Finishes, q
    <2>6. CASE p.depth # 2
      <3>1. q.list = p.list
        BY <1>16, <2>3, <2>6, Zenon
      <3>2. Goes(p, t, q)
        BY <1>1, <1>13, <2>3, <2>4, <2>6, <3>1 DEF Goes, n
      <3> QED
        BY <1>13, <2>3, <3>2 DEF Shifts, q
    <2> QED
      BY <2>5, <2>6
  <1>14. CASE ~Begins /\ ~(t.kind = "when" /\ p.next = "lines" /\ p.depth > 1)
              /\ ~(t.kind = "stmt" /\ p.next = "lines" /\ p.depth > 1)
              /\ ~(t.kind = "DEDENT" /\ p.next = "lines")
    <2>1. q = P("error", p.depth, p.root, p.module, p.list)
      BY <1>3, <1>14, Zenon DEF q
    <2>2. Same /\ q.next = "error" /\ q.list = p.list
      BY <1>1, <1>4, <2>1
    <2> QED
      BY <1>14, <2>2 DEF Shifts, q
  <1> QED
    BY <1>7, <1>8, <1>9, <1>10, <1>11, <1>12, <1>13, <1>14, Zenon

----------------------------------------------------------------------------
(* The lines of the modules among the first j tokens, and what the parser   *)
(* has after them.                                                          *)
ModulesTold(toks, j) == {toks[a].at : a \in {b \in ModuleTokens(toks) : b <= j}}
Ordered(toks) == \A a, b \in ModuleTokens(toks) : a < b => toks[a].at < toks[b].at

(* m is the last module among the first j tokens.                           *)
LastTold(toks, m, j) ==
  \E a \in ModuleTokens(toks) :
    a <= j /\ toks[a].at = m /\ \A b \in ModuleTokens(toks) : b <= j => b <= a

(* Token j closes the module of node x; what comes behind it is another     *)
(* module or the end.                                                       *)
ClosedBy(toks, x, j) ==
  toks[j].kind = "DEDENT" /\ toks[j].at = x.lineno /\ LastTold(toks, x.module, j)
Followed(p, toks, j, k) ==
  \/ j = k /\ p.next = "lines" /\ p.depth = 1
  \/ j < k /\ toks[j + 1].kind \in ModuleKind
  \/ j + 1 = k /\ toks[k].kind = "DEDENT" /\ p.next = "end"

(* The nodes are those of the modules that have been told; of the last one, *)
(* which may be open still, there is none yet.                              *)
HasTold(p, toks, j) ==
  IF Open(p)
  THEN /\ LastTold(toks, p.module, j)
       /\ \A l \in Nat : Enumerates(Append(p.list, Node(p.module, l)), ModulesTold(toks, j))
  ELSE Enumerates(p.list, ModulesTold(toks, j))
HasClosed(p, toks, k) ==
  \A x \in Range(p.list) : \E j \in 1 .. k : ClosedBy(toks, x, j) /\ Followed(p, toks, j, k)
DepthOf(p) ==
  /\ p.next \in {"start", "circuit", "end"} => p.depth = 0
  /\ p.next = "block" => p.depth >= 0
  /\ p.next = "lines" => p.depth >= 1

ShiftedTo(p, toks, j) ==
  /\ p \in ParseState
  /\ p.next = "error" \/ (DepthOf(p) /\ HasTold(p, toks, j) /\ HasClosed(p, toks, j))
  /\ j = 0 => p = StartParse
  /\ j > 0 /\ Heads(toks) => p.next \in {"circuit", "error"} \/ p.root

(* Before the first token.                                                  *)
LEMMA StartShifted == ASSUME NEW toks \in Seq(Tok) PROVE ShiftedTo(StartParse, toks, 0)
  <1>1. /\ StartParse \in ParseState /\ StartParse.list = <<>>
        /\ StartParse.next = "start" /\ StartParse.depth = 0
    BY DEF StartParse, ParseState
  <1>2. ModulesTold(toks, 0) = {}
    BY DEF ModulesTold, ModuleTokens
  <1>3. ~(0 > 0)
    OBVIOUS
  <1>4. DepthOf(StartParse) /\ ~Open(StartParse)
    BY <1>1 DEF DepthOf, Open
  <1>5. HasTold(StartParse, toks, 0)
    BY <1>1, <1>2, <1>4, EnumerateNone, Zenon DEF HasTold
  <1>6. HasClosed(StartParse, toks, 0)
    <2>1. Range(<<>>) = {}
      BY DEF Range
    <2> QED
      BY <1>1, <2>1, Zenon DEF HasClosed
  <1> QED
    BY <1>1, <1>3, <1>4, <1>5, <1>6, Zenon DEF ShiftedTo

(* The elements of a sequence with one more behind.                         *)
LEMMA AppendRange ==
  ASSUME NEW S, NEW s \in Seq(S), NEW x \in S
  PROVE  \A y \in Range(Append(s, x)) : y \in Range(s) \/ y = x
  <1>1. /\ DOMAIN s = 1 .. Len(s) /\ DOMAIN Append(s, x) = 1 .. Len(s) + 1 /\ Len(s) \in Nat
        /\ \A i \in 1 .. Len(s) : Append(s, x)[i] = s[i]
        /\ Append(s, x)[Len(s) + 1] = x
    OBVIOUS
  <1>2. \A i \in 1 .. Len(s) + 1 : i \in 1 .. Len(s) \/ i = Len(s) + 1
    BY <1>1
  <1> QED
    BY <1>1, <1>2, Zenon DEF Range

(* A token that is none of a module tells nothing of them.                  *)
LEMMA ToldPlain ==
  ASSUME NEW toks \in Seq(Tok), NEW k \in 1 .. Len(toks), toks[k].kind \notin ModuleKind
  PROVE  /\ ModulesTold(toks, k) = ModulesTold(toks, k - 1)
         /\ \A m : LastTold(toks, m, k - 1) => LastTold(toks, m, k)
  <1>1. \A b \in ModuleTokens(toks) : b <= k <=> b <= k - 1
    <2> TAKE b \in ModuleTokens(toks)
    <2>1. b \in Nat /\ b # k /\ k \in Nat
      BY DEF ModuleTokens
    <2> QED
      BY <2>1
  <1> QED
    BY <1>1, Zenon DEF ModulesTold, LastTold

(* A module's token opens it behind all others.                             *)
LEMMA ToldModule ==
  ASSUME NEW toks \in Seq(Tok), Ordered(toks), NEW k \in 1 .. Len(toks),
         toks[k].kind \in ModuleKind
  PROVE  /\ ModulesTold(toks, k) = ModulesTold(toks, k - 1) \cup {toks[k].at}
         /\ Behind(ModulesTold(toks, k - 1), {toks[k].at})
         /\ LastTold(toks, toks[k].at, k)
  <1>1. k \in Nat /\ k \in DOMAIN toks
    OBVIOUS
  <1>2. k \in ModuleTokens(toks)
    BY <1>1 DEF ModuleTokens
  <1>3. \A b \in ModuleTokens(toks) : b \in Nat
    BY DEF ModuleTokens
  <1>4. Behind(ModulesTold(toks, k - 1), {toks[k].at})
    <2> SUFFICES ASSUME NEW b \in ModuleTokens(toks), b <= k - 1 PROVE toks[b].at < toks[k].at
      BY Zenon DEF Behind, ModulesTold
    <2>1. b < k
      BY <1>1, <1>3
    <2> QED
      BY <1>2, <2>1, Zenon DEF Ordered
  <1>5. ModulesTold(toks, k) = ModulesTold(toks, k - 1) \cup {toks[k].at}
    <2>1. \A b \in ModuleTokens(toks) : b <= k <=> (b <= k - 1 \/ b = k)
      BY <1>1, <1>3
    <2> QED
      BY <1>2, <2>1 DEF ModulesTold
  <1>6. LastTold(toks, toks[k].at, k)
    <2>1. k <= k
      BY <1>1
    <2> QED
      BY <1>2, <2>1, Zenon DEF LastTold
  <1> QED
    BY <1>4, <1>5, <1>6

(* What is behind a closed module stays there.                              *)
LEMMA FollowedStep ==
  ASSUME NEW toks \in Seq(Tok), NEW k \in 1 .. Len(toks), NEW p \in ParseState, NEW q,
         Shifts(p, toks[k], q), q.next # "error", NEW j \in 1 .. k - 1, Followed(p, toks, j, k - 1)
  PROVE  Followed(q, toks, j, k)
  <1>1. k \in Nat /\ j \in Nat /\ j < k /\ p.depth \in Int
    BY DEF ParseState
  <1>2. Opens(p, toks[k], q) \/ Finishes(p, toks[k], q) \/ Goes(p, toks[k], q)
    BY Zenon DEF Shifts
  <1>3. CASE j = k - 1 /\ p.next = "lines" /\ p.depth = 1
    <2>1. j + 1 = k
      BY <1>1, <1>3
    <2>2. \/ toks[k].kind \in ModuleKind
          \/ toks[k].kind = "DEDENT" /\ q.next = "end"
      BY <1>2, <1>3 DEF Opens, Finishes, Goes
    <2> QED
      BY <1>1, <2>1, <2>2 DEF Followed
  <1>4. CASE j < k - 1 /\ toks[j + 1].kind \in ModuleKind
    BY <1>1, <1>4 DEF Followed
  <1>5. CASE p.next = "end"
    BY <1>2, <1>5 DEF Opens, Finishes, Goes
  <1> QED
    BY <1>3, <1>4, <1>5, Zenon DEF Followed

(* The parser reads token k.                                                *)
LEMMA ShiftStep ==
  ASSUME NEW toks \in Seq(Tok), Ordered(toks), NEW k \in 1 .. Len(toks),
         NEW p, ShiftedTo(p, toks, k - 1)
  PROVE  ShiftedTo(Shift(p, toks[k]), toks, k)
  <1> DEFINE t == toks[k]
             q == Shift(p, t)
  <1>1. t \in Tok /\ t.at \in Nat /\ k \in Nat /\ k # 0 /\ k > 0 /\ k \in DOMAIN toks
    <2>1. t \in Tok /\ k \in Nat /\ k # 0 /\ k > 0 /\ k \in DOMAIN toks
      OBVIOUS
    <2>2. t.at \in Nat
      BY <2>1 DEF Tok
    <2> QED
      BY <2>1, <2>2
  <1>2. p \in ParseState /\ p.list \in Seq(PNode) /\ p.depth \in Int /\ p.module \in Nat
    BY DEF ShiftedTo, ParseState
  <1>3. Shifts(p, t, q)
    BY <1>1, <1>2, ShiftShifts, Zenon
  <1> HIDE DEF q
  <1>6. q \in ParseState
    BY <1>3, Zenon DEF Shifts
  <1>7. q.next = "error" \/ (DepthOf(q) /\ HasTold(q, toks, k) /\ HasClosed(q, toks, k))
    <2> SUFFICES ASSUME q.next # "error"
                 PROVE  DepthOf(q) /\ HasTold(q, toks, k) /\ HasClosed(q, toks, k)
      OBVIOUS
    <2>1. Opens(p, t, q) \/ Finishes(p, t, q) \/ Goes(p, t, q)
      BY <1>3, Zenon DEF Shifts
    <2>2. p.next # "error"
      BY <2>1, Zenon DEF Opens, Finishes, Goes
    <2>3. DepthOf(p) /\ HasTold(p, toks, k - 1) /\ HasClosed(p, toks, k - 1)
      BY <2>2, Zenon DEF ShiftedTo
    <2>4. \A x \in Range(p.list) : \E j \in 1 .. k : ClosedBy(toks, x, j) /\ Followed(q, toks, j, k)
      <3> TAKE x \in Range(p.list)
      <3>1. PICK j \in 1 .. k - 1 : ClosedBy(toks, x, j) /\ Followed(p, toks, j, k - 1)
        BY <2>3, Zenon DEF HasClosed
      <3>2. j \in 1 .. k
        BY <1>1
      <3>3. Followed(q, toks, j, k)
        BY <1>2, <1>3, <3>1, FollowedStep, Zenon
      <3> QED
        BY <3>1, <3>2, <3>3, Zenon
    <2>5. CASE Opens(p, t, q)
      <3>1. /\ t.kind \in ModuleKind /\ ~Open(p) /\ Open(q)
            /\ q.module = t.at /\ q.list = p.list /\ DepthOf(q)
        BY <2>5 DEF Opens, Open, DepthOf
      <3>2. Enumerates(p.list, ModulesTold(toks, k - 1))
        BY <2>3, <3>1, Zenon DEF HasTold
      <3>3. ASSUME NEW l \in Nat
            PROVE  Enumerates(Append(q.list, Node(q.module, l)), ModulesTold(toks, k))
        <4> DEFINE x == Node(q.module, l)
        <4>1. x \in PNode /\ x.module = t.at
          BY <1>1, <3>1 DEF Node, PNode
        <4> HIDE DEF x
        <4>2. Enumerates(Append(p.list, x), ModulesTold(toks, k - 1) \cup {x.module})
          BY <1>2, <3>1, <3>2, <4>1, ToldModule, EnumerateMore, Zenon
        <4> QED
          BY <3>1, <4>1, <4>2, ToldModule, Zenon DEF x
      <3>4. HasTold(q, toks, k)
        BY <3>1, <3>3, ToldModule, Zenon DEF HasTold
      <3> QED
        BY <2>4, <3>1, <3>4, Zenon DEF HasClosed
    <2>6. CASE Finishes(p, t, q)
      <3> DEFINE x == Node(p.module, t.at)
      <3>1. /\ t.kind = "DEDENT" /\ Open(p) /\ ~Open(q) /\ DepthOf(q)
            /\ q.next = "lines" /\ q.depth = 1 /\ q.list = Append(p.list, x)
        BY <2>6 DEF Finishes, Open, DepthOf
      <3>2. t.kind \notin ModuleKind
        BY <3>1 DEF ModuleKind
      <3>3. LastTold(toks, p.module, k - 1)
            /\ Enumerates(Append(p.list, x), ModulesTold(toks, k - 1))
        BY <1>1, <2>3, <3>1, Zenon DEF HasTold
      <3>4. LastTold(toks, p.module, k) /\ ModulesTold(toks, k) = ModulesTold(toks, k - 1)
        BY <3>2, <3>3, ToldPlain, Zenon
      <3>5. HasTold(q, toks, k)
        BY <3>1, <3>3, <3>4, Zenon DEF HasTold
      <3>6. x.module = p.module /\ x.lineno = t.at /\ x \in PNode
        BY <1>1, <1>2 DEF Node, PNode
      <3> HIDE DEF x
      <3>7. ClosedBy(toks, x, k) /\ Followed(q, toks, k, k) /\ k \in 1 .. k
        <4>1. k \in 1 .. k /\ k = k
          BY <1>1
        <4>2. toks[k].kind = "DEDENT" /\ toks[k].at = x.lineno
          BY <3>1, <3>6
        <4>3. LastTold(toks, x.module, k)
          BY <3>4, <3>6
        <4> QED
          BY <3>1, <4>1, <4>2, <4>3, Zenon DEF ClosedBy, Followed
      <3>8. \A y \in Range(q.list) : y \in Range(p.list) \/ y = x
        BY <1>2, <3>1, <3>6, AppendRange, Zenon
      <3>9. HasClosed(q, toks, k)
        BY <2>4, <3>7, <3>8, Zenon DEF HasClosed
      <3> QED
        BY <3>1, <3>5, <3>9
    <2>7. CASE Goes(p, t, q)
      <3>1. t.kind \notin ModuleKind /\ q.module = p.module /\ q.list = p.list
        BY <2>7, Zenon DEF Goes
      <3>2. DepthOf(q) /\ (Open(q) <=> Open(p))
        BY <1>2, <2>3, <2>7 DEF Goes, Open, DepthOf
      <3>3. HasTold(q, toks, k)
        BY <2>3, <3>1, <3>2, ToldPlain, Zenon DEF HasTold
      <3>4. HasClosed(q, toks, k)
        <4>1. Range(q.list) = Range(p.list)
          BY <3>1
        <4> QED
          BY <2>4, <4>1, Zenon DEF HasClosed
      <3> QED
        BY <3>2, <3>3, <3>4
    <2> QED
      BY <2>1, <2>5, <2>6, <2>7
  <1>5. Heads(toks) => q.next \in {"circuit", "error"} \/ q.root
    <2> SUFFICES ASSUME Heads(toks) PROVE q.next \in {"circuit", "error"} \/ q.root
      OBVIOUS
    <2>1. CASE k = 1
      <3>1. p.next = "start" /\ t.kind = "version"
        BY <2>1 DEF ShiftedTo, StartParse, Heads
      <3> QED
        BY <1>3, <3>1, Zenon DEF Shifts
    <2>2. CASE k # 1
      <3>1. k - 1 > 0
        BY <1>1, <2>2
      <3>2. p.next \in {"circuit", "error"} \/ p.root
        BY <3>1, Zenon DEF ShiftedTo
      <3>3. p.next = "error" => q.next = "error"
        BY <1>3 DEF Shifts, Opens, Finishes, Goes
      <3> QED
        BY <1>3, <3>2, <3>3, Zenon DEF Shifts
    <2> QED
      BY <2>1, <2>2
  <1> QED
    BY <1>1, <1>5, <1>6, <1>7, Zenon DEF ShiftedTo, q

(* The parser's fold over the tokens.                                       *)
ShiftFolds(F, toks, n) ==
  F = [s \in SUBSET (1 .. n) |->
         IF s = {} THEN StartParse ELSE Shift(F[s \ {Max(s)}], toks[Max(s)])]

(* The fold of Shift over the tokens has a value.                           *)
LEMMA ShiftFoldExists ==
  ASSUME NEW toks \in Seq(Tok) PROVE \E F : ShiftFolds(F, toks, Len(toks))
  <1> DEFINE n == Len(toks)
             step == [k \in 1 .. n |-> [p \in ParseState |-> Shift(p, toks[k])]]
             T == SUBSET (1 .. n)
  <1>1. n \in Nat /\ \A k \in 1 .. n : toks[k] \in Tok /\ k \in Nat
    OBVIOUS
  <1>2. step \in [1 .. n -> [ParseState -> ParseState]]
    <2>1. \A k \in 1 .. n : \A p \in ParseState : Shift(p, toks[k]) \in ParseState
      BY <1>1, ShiftShifts, Zenon DEF Shifts
    <2> HIDE DEF n
    <2> QED
      BY <2>1
  <1>3. StartParse \in ParseState
    BY StartShifted, Zenon DEF ShiftedTo
  <1>4. \A k \in 1 .. n : \A p \in ParseState : step[k][p] = Shift(p, toks[k])
    OBVIOUS
  <1> HIDE DEF step, n
  <1>5. PICK F \in [T -> ParseState] : Folds(F, StartParse, step, n)
    BY <1>1, <1>2, <1>3, FoldsExist
  <1>6. \A s \in T : s # {} => Max(s) \in 1 .. n /\ s \ {Max(s)} \in T
    BY <1>1, MaxIsIn
  <1>7. \A s \in T : F[s] \in ParseState
    OBVIOUS
  <1> HIDE DEF T
  <1>8. ASSUME NEW s \in T
        PROVE  (IF s = {} THEN StartParse ELSE step[Max(s)][F[s \ {Max(s)}]])
               = (IF s = {} THEN StartParse ELSE Shift(F[s \ {Max(s)}], toks[Max(s)]))
    BY <1>4, <1>6, <1>7, Zenon
  <1>9. F = [s \in T |-> IF s = {} THEN StartParse ELSE step[Max(s)][F[s \ {Max(s)}]]]
    BY <1>5, Zenon DEF Folds, T
  <1>10. ShiftFolds(F, toks, n)
    BY <1>8, <1>9, Zenon DEF ShiftFolds, T
  <1> QED
    BY <1>10, Zenon DEF n

(* After all tokens the list has their modules.                             *)
LEMMA ShiftFoldReads ==
  ASSUME NEW toks \in Seq(Tok), Ordered(toks), NEW F, ShiftFolds(F, toks, Len(toks))
  PROVE  ShiftedTo(F[1 .. Len(toks)], toks, Len(toks))
  <1> DEFINE n == Len(toks)
             S == {k \in Nat : ShiftedTo(F[1 .. k], toks, k)}
  <1>1. n \in Nat
    OBVIOUS
  <1>2. 0 \in S
    <2>1. 1 .. 0 = {} /\ {} \in SUBSET (1 .. n)
      OBVIOUS
    <2>2. F[{}] = StartParse
      BY <2>1, Zenon DEF ShiftFolds
    <2>3. F[1 .. 0] = StartParse
      BY <2>1, <2>2
    <2> HIDE DEF S
    <2>4. ShiftedTo(F[1 .. 0], toks, 0)
      BY <2>3, StartShifted, Zenon
    <2> QED
      BY <2>4 DEF S
  <1>3. ASSUME NEW k \in 1 .. n, k - 1 \in S PROVE k \in S
    <2>1. /\ 1 .. k # {} /\ 1 .. k \in SUBSET (1 .. n) /\ k \in Nat /\ k > 0
          /\ (1 .. k) \ {k} = 1 .. (k - 1)
      <3> HIDE DEF S, n
      <3>1. k \in Nat /\ k > 0 /\ k \in 1 .. n /\ k \in 1 .. k
        BY <1>1
      <3>2. 1 .. k \in SUBSET (1 .. n)
        BY <1>1, <3>1
      <3>3. (1 .. k) \ {k} = 1 .. (k - 1)
        BY <3>1
      <3> QED
        BY <3>1, <3>2, <3>3
    <2>2. Max(1 .. k) = k
      BY <2>1, MaxOfUpTo, Zenon
    <2>3. F[1 .. k] = Shift(F[(1 .. k) \ {Max(1 .. k)}], toks[Max(1 .. k)])
      BY <2>1, Zenon DEF ShiftFolds
    <2>4. F[1 .. k] = Shift(F[1 .. (k - 1)], toks[k])
      BY <2>1, <2>2, <2>3, Zenon
    <2>5. ShiftedTo(F[1 .. (k - 1)], toks, k - 1)
      BY <1>3
    <2>6. ShiftedTo(F[1 .. k], toks, k)
      BY <2>4, <2>5, ShiftStep, Zenon
    <2> QED
      BY <2>1, <2>6, Zenon
  <1> HIDE DEF S
  <1>4. n \in S
    <2>1. 0 .. n \subseteq S
      BY <1>1, <1>2, <1>3, BoundedInduction
    <2> QED
      BY <1>1, <2>1
  <1> QED
    BY <1>4, Zenon DEF S

(* The line of a node in its text: the next module's behind it, or the last *)
(* of the text, which is blank.                                             *)
FollowsIn(x, lines) ==
  /\ x.lineno \in x.module + 1 .. Len(lines)
  /\ \A m \in x.module + 1 .. x.lineno - 1 : lines[m].kind \notin ModuleKind
  /\ \/ lines[x.lineno].kind \in ModuleKind
     \/ x.lineno = Len(lines) /\ Last(lines).kind = "blank"

(* A module that is closed is followed by the line of its node.             *)
LEMMA ClosedFollows ==
  ASSUME NEW lines \in Seq(Line), lines # <<>>, NEW toks \in Seq(Tok),
         Tells(toks, lines, Len(lines)), ClosesText(toks, lines),
         NEW p \in ParseState, p.next = "end", NEW x \in PNode,
         NEW j \in 1 .. Len(toks), ClosedBy(toks, x, j), Followed(p, toks, j, Len(toks))
  PROVE  FollowsIn(x, lines)
  <1> DEFINE n == Len(toks)
             N == Len(lines)
  <1>1. /\ n \in Nat /\ N \in Nat /\ N >= 1 /\ DOMAIN toks = 1 .. n /\ j \in 1 .. n /\ j \in Nat
        /\ x.module \in Nat /\ x.lineno \in Nat
    BY DEF PNode
  <1>2. /\ \A a \in ModuleTokens(toks) : toks[a].at \in Modules(lines, N) /\ a \in 1 .. n
        /\ \A m \in Modules(lines, N) : \E a \in ModuleTokens(toks) : toks[a].at = m
        /\ \A a, b \in ModuleTokens(toks) : a < b => toks[a].at < toks[b].at
    <2> DEFINE K == ModuleTokens(toks)
    <2>1. /\ {toks[a].at : a \in K} = Modules(lines, N)
          /\ \A a, b \in K : a < b => toks[a].at < toks[b].at
      BY Zenon DEF Tells
    <2>2. \A a \in K : a \in 1 .. n
      BY <1>1 DEF ModuleTokens
    <2> HIDE DEF K
    <2>3. /\ \A a \in K : toks[a].at \in Modules(lines, N)
          /\ \A m \in Modules(lines, N) : \E a \in K : toks[a].at = m
      <3> HIDE DEF N
      <3> QED
        BY <2>1
    <2> QED
      BY <2>1, <2>2, <2>3, Zenon DEF K
  <1>3. /\ \A m \in 1 .. N : lines[m].kind \in ModuleKind => m \in Modules(lines, N)
        /\ \A m \in Modules(lines, N) : m \in 1 .. N /\ lines[m].kind \in ModuleKind
    BY DEF Modules
  <1>4. PICK a \in ModuleTokens(toks) :
          a <= j /\ toks[a].at = x.module /\ \A b \in ModuleTokens(toks) : b <= j => b <= a
    BY Zenon DEF ClosedBy, LastTold
  <1>5. toks[j].kind = "DEDENT" /\ toks[j].at = x.lineno
    BY Zenon DEF ClosedBy
  <1>6. x.module \in 1 .. N /\ lines[x.module].kind \in ModuleKind
    BY <1>2, <1>3, <1>4, Zenon
  <1>7. Last(lines) = lines[N]
    BY DEF Last
  <1>8. /\ toks[j].kind = "DEDENT" => \/ j < n /\ toks[j + 1].at = toks[j].at
                                      \/ j = n /\ toks[j].at = N /\ Last(lines).kind = "blank"
        /\ toks[n].kind = "DEDENT" => toks[n].at = N /\ Last(lines).kind = "blank"
    <2>1. n \in DOMAIN toks /\ j \in DOMAIN toks
      BY <1>1
    <2>2. ~(n < n)
      BY <1>1
    <2> QED
      BY <2>1, <2>2, Zenon DEF ClosesText
  <1>9. \A b \in ModuleTokens(toks) : b \in 1 .. n /\ b \in Nat /\ toks[b].kind \in ModuleKind
    BY <1>1 DEF ModuleTokens
  <1> HIDE DEF n, N
  <1>10. CASE j < n /\ toks[j + 1].kind \in ModuleKind
    <2>1. j + 1 \in ModuleTokens(toks) /\ toks[j + 1].at = x.lineno
      BY <1>1, <1>5, <1>8, <1>10 DEF ModuleTokens
    <2>2. x.lineno \in 1 .. N /\ lines[x.lineno].kind \in ModuleKind
      BY <1>2, <1>3, <2>1, Zenon
    <2>3. x.module < x.lineno
      <3>1. a < j + 1
        BY <1>1, <1>4, <1>9
      <3> QED
        BY <1>2, <1>4, <2>1, <3>1, Zenon
    <2>4. ASSUME NEW m \in x.module + 1 .. x.lineno - 1, lines[m].kind \in ModuleKind PROVE FALSE
      <3>1. m \in 1 .. N /\ m > x.module /\ m < x.lineno
        BY <1>1, <1>6, <2>2, <2>4
      <3>2. PICK b \in ModuleTokens(toks) : toks[b].at = m
        BY <1>2, <1>3, <2>4, <3>1, Zenon
      <3>3. b <= j \/ b = j + 1 \/ j + 1 < b
        BY <1>1, <1>9
      <3>4. CASE b <= j
        <4>1. b = a \/ b < a
          BY <1>4, <1>9, <3>4
        <4>2. toks[b].at = toks[a].at \/ toks[b].at < toks[a].at
          BY <1>2, <4>1, Zenon
        <4> QED
          BY <1>1, <1>4, <3>1, <3>2, <4>2
      <3>5. CASE b = j + 1
        BY <1>1, <2>1, <3>1, <3>2, <3>5
      <3>6. CASE j + 1 < b
        <4>1. toks[j + 1].at < toks[b].at
          BY <1>2, <2>1, <3>6, Zenon
        <4> QED
          BY <1>1, <2>1, <3>1, <3>2, <4>1
      <3> QED
        BY <3>3, <3>4, <3>5, <3>6
    <2>5. x.lineno \in x.module + 1 .. N
      BY <1>1, <2>2, <2>3
    <2> QED
      BY <2>2, <2>4, <2>5, Zenon DEF FollowsIn, N
  <1>11. CASE j + 1 = n /\ toks[n].kind = "DEDENT"
    <2>1. toks[n].at = N /\ lines[N].kind = "blank"
      BY <1>7, <1>8, <1>11, Zenon
    <2>2. x.lineno = N
      BY <1>1, <1>5, <1>8, <1>11, <2>1
    <2>3. x.module # N
      BY <1>6, <2>1 DEF ModuleKind
    <2>4. ASSUME NEW m \in x.module + 1 .. x.lineno - 1, lines[m].kind \in ModuleKind PROVE FALSE
      <3>1. m \in 1 .. N /\ m > x.module
        BY <1>1, <1>6, <2>2, <2>4
      <3>2. PICK b \in ModuleTokens(toks) : toks[b].at = m
        BY <1>2, <1>3, <2>4, <3>1, Zenon
      <3>3. b # n
        BY <1>9, <1>11 DEF ModuleKind
      <3>4. b <= j
        BY <1>1, <1>9, <1>11, <3>3
      <3>5. b = a \/ b < a
        BY <1>4, <1>9, <3>4
      <3>6. toks[b].at = toks[a].at \/ toks[b].at < toks[a].at
        BY <1>2, <3>5, Zenon
      <3> QED
        BY <1>1, <1>4, <3>1, <3>2, <3>6
    <2>5. x.lineno \in x.module + 1 .. N
      BY <1>1, <1>6, <2>2, <2>3
    <2> QED
      BY <1>7, <2>1, <2>2, <2>4, <2>5, Zenon DEF FollowsIn, N
  <1>12. \/ j < n /\ toks[j + 1].kind \in ModuleKind
         \/ j + 1 = n /\ toks[n].kind = "DEDENT"
    <2>1. p.next # "lines"
      OBVIOUS
    <2> QED
      BY <2>1, Zenon DEF Followed, n
  <1> QED
    BY <1>10, <1>11, <1>12

(* What the parser makes of a text: its modules in ascending order, each    *)
(* with the line behind it, if it accepts it, and a root, if the text has a *)
(* head.                                                                    *)
LEMMA ParseLists ==
  ASSUME NEW lines \in Seq(Line), lines # <<>>
  PROVE  LET r == Parse(lines)
         IN /\ r.ok \in BOOLEAN /\ r.root \in BOOLEAN /\ r.list \in Seq(PNode)
            /\ r.ok => Enumerates(r.list, Modules(lines, Len(lines)))
            /\ r.ok => \A x \in Range(r.list) : FollowsIn(x, lines)
            /\ r.ok /\ Headed(lines) => r.root
  <1> DEFINE toks == Lex(lines)
             n == Len(toks)
             F == CHOOSE F : ShiftFolds(F, toks, n)
             p == F[1 .. n]
  <1>1. /\ toks \in Seq(Tok) /\ Tells(toks, lines, Len(lines))
        /\ Headed(lines) => Heads(toks)
        /\ ClosesText(toks, lines)
    BY LexTells, Zenon
  <1> HIDE DEF toks
  <1>2. n \in Nat /\ DOMAIN toks = 1 .. n
    BY <1>1
  <1>3. Ordered(toks) /\ ModulesTold(toks, n) = Modules(lines, Len(lines))
    <2>1. \A b \in ModuleTokens(toks) : b <= n
      <3> TAKE b \in ModuleTokens(toks)
      <3>1. b \in 1 .. n
        BY <1>2 DEF ModuleTokens
      <3> QED
        BY <1>2, <3>1
    <2>2. ModulesTold(toks, n) = {toks[a].at : a \in ModuleTokens(toks)}
      BY <2>1, Zenon DEF ModulesTold
    <2> QED
      BY <1>1, <2>2, Zenon DEF Tells, Ordered
  <1>4. ShiftFolds(F, toks, n)
    BY <1>1, ShiftFoldExists, Zenon
  <1>5. ShiftedTo(p, toks, n)
    BY <1>1, <1>3, <1>4, ShiftFoldReads, Zenon
  <1>6. FoldLeft(Shift, StartParse, toks) = p
    BY <1>2, Zenon DEF FoldLeft, MapThenFoldSet, ShiftFolds
  <1> HIDE DEF p
  <1>7. Parse(lines) = [ok |-> p.next = "end", root |-> p.root, list |-> p.list]
    BY <1>6, Zenon DEF Parse, toks
  <1>8. p \in ParseState /\ p.root \in BOOLEAN /\ p.list \in Seq(PNode)
    BY <1>5 DEF ShiftedTo, ParseState
  <1>9. /\ Parse(lines).ok = (p.next = "end") /\ Parse(lines).root = p.root
        /\ Parse(lines).list = p.list
    BY <1>7
  <1>10. ASSUME p.next = "end"
         PROVE  DepthOf(p) /\ HasTold(p, toks, n) /\ HasClosed(p, toks, n)
    BY <1>5, <1>10 DEF ShiftedTo
  <1>12. ASSUME p.next = "end" PROVE Enumerates(p.list, Modules(lines, Len(lines)))
    <2>1. ~Open(p)
      BY <1>10, <1>12 DEF DepthOf, Open
    <2> QED
      BY <1>3, <1>10, <1>12, <2>1, Zenon DEF HasTold
  <1>13. ASSUME p.next = "end", NEW x \in Range(p.list) PROVE FollowsIn(x, lines)
    <2>1. PICK j \in 1 .. n : ClosedBy(toks, x, j) /\ Followed(p, toks, j, n)
      BY <1>10, <1>13, Zenon DEF HasClosed
    <2>2. x \in PNode
      BY <1>8 DEF Range
    <2> QED
      BY <1>1, <1>8, <1>13, <2>1, <2>2, ClosedFollows, Zenon
  <1>11. ASSUME p.next = "end", Headed(lines) PROVE p.root
    <2> HIDE DEF n
    <2>1. n # 0
      BY <1>5, <1>11 DEF ShiftedTo, StartParse
    <2>2. n > 0
      BY <1>2, <2>1
    <2>3. p.next \in {"circuit", "error"} \/ p.root
      BY <1>1, <1>5, <1>11, <2>2, Zenon DEF ShiftedTo
    <2> QED
      BY <1>11, <2>3
  <1> QED
    BY <1>8, <1>9, <1>11, <1>12, <1>13, Zenon

----------------------------------------------------------------------------
(* The invariant.                                                           *)

(* The invariant.  c[i] is the line where task i starts, and c[id] the line *)
(* behind the last of them.                                                 *)
TaskAt(c, i) == [offset |-> c[i], len |-> c[i + 1] - c[i], lineno |-> c[i], id |-> i]
ModulesIn(a, b) == {k \in a .. b : strbuf[k].kind \in ModuleKind}

Sorted == main \notin {"split", "crashed", "sort"}
Cuts(c) ==
  /\ c \in [0 .. id -> 1 .. Len(strbuf) + 1]
  /\ c[0] = 1 /\ \A i \in 1 .. id : c[i - 1] < c[i]
  /\ \A i \in 1 .. id : c[i] = Len(strbuf) + 1 \/ strbuf[c[i]].kind \in ModuleKind
  /\ main \in {"split", "crashed"} =>
       /\ c[id] = prev /\ prev <= Len(strbuf) /\ next_lineno = prev
       /\ next = 0 \/ next \in prev .. Len(strbuf)
  /\ main \notin {"split", "crashed"} => id > 0 /\ c[id] = Len(strbuf) + 1

(* Before the sort, and after it.                                           *)
Listed(c) == ~Sorted => taskQueue = [k \in 1 .. id |-> TaskAt(c, k - 1)]
Left == {t \in Thread : pc[t] # "done"}
FlagsFirst(c) ==
  Sorted => LET n == Cardinality(Left)
            IN /\ n <= Len(taskQueue) /\ (n < NR_THREAD => Len(taskQueue) = n)
               /\ \A k \in DOMAIN taskQueue :
                    IF k <= n THEN taskQueue[k] = Flag
                    ELSE \E i \in 0 .. id - 1 : taskQueue[k] = TaskAt(c, i)

(* Every task is in the queue, or with a thread, or its modules are stored. *)
Holding(c) == \A t \in Thread : pc[t] = "parse" => \E i \in 0 .. id - 1 : e[t] = TaskAt(c, i)
Queued(c, i) == \E k \in DOMAIN taskQueue : taskQueue[k] = TaskAt(c, i)
Held(c, i) == \E t \in Thread : pc[t] = "parse" /\ e[t] = TaskAt(c, i)
Stored(c, i) ==
  /\ Enumerates(lists[i].siblings, ModulesIn(c[i], c[i + 1] - 1))
  /\ \A node \in Range(lists[i].siblings) : NumberedBehind(node)
  /\ i = 0 => globalRoot.written \/ main = "aborted"
Accounted(c) == Sorted => \A i \in 0 .. id - 1 : Queued(c, i) \/ Held(c, i) \/ Stored(c, i)

(* The threads and main.                                                    *)
ThreadsInv ==
  /\ \A t \in Thread : pc[t] = "none" <=> t > started
  /\ \A t \in Thread : t <= joined => pc[t] = "done"
  /\ main \in {"split", "crashed", "sort"} => started = 0 /\ lists = <<>>
  /\ main = "start" => started < NR_THREAD
  /\ main = "join" => joined < NR_THREAD
  /\ main \in {"merge", "done"} => joined = NR_THREAD
  /\ Sorted => lists \in [0 .. id - 1 -> Lists]
AbortsOnlyHeadless == main = "aborted" => ~Headed(strbuf)

TasksInv(c) == Cuts(c) /\ Listed(c) /\ FlagsFirst(c) /\ Holding(c) /\ Accounted(c)
IInv ==
  /\ TypeOK /\ ThreadsInv /\ TreeIsText /\ AbortsOnlyHeadless
  /\ \E c \in [0 .. id -> 1 .. Len(strbuf) + 1] : TasksInv(c)

----------------------------------------------------------------------------
(* The search for boundaries, and permutations with flags.                  *)

(* While the text stays, so do the modules in it and the lines of nodes.    *)
LEMMA SameText ==
  ASSUME strbuf' = strbuf
  PROVE  /\ ModuleLines' = ModuleLines
         /\ \A x : NumberedBehind(x)' <=> NumberedBehind(x)
  BY Zenon DEF NumberedBehind, ModuleLines

(* The search finds module lines behind where it starts.                    *)
LEMMA NextBoundaryType ==
  ASSUME strbuf \in Seq(Line), NEW k \in Nat
  PROVE  \/ NextBoundary(k) = 0
         \/ NextBoundary(k) \in k + 1 .. Len(strbuf) /\ NextBoundary(k) \in ModuleLines
  <1>1. CASE Boundary(k) = {}
    BY <1>1 DEF NextBoundary
  <1>2. CASE Boundary(k) # {}
    <2>1. Len(strbuf) \in Nat /\ \A n \in Boundary(k) : n \in k + 1 .. Len(strbuf) /\ n \in Nat
      BY DEF Boundary
    <2>2. Boundary(k) \in SUBSET Nat
      BY <2>1
    <2>3. \E n \in Boundary(k) : \A m \in Boundary(k) : n <= m
      BY <1>2, <2>2, LeastElement, Zenon
    <2>4. NextBoundary(k) \in Boundary(k)
      BY <1>2, <2>3, Zenon DEF NextBoundary
    <2>5. \A n \in Boundary(k) : n \in ModuleLines
      BY DEF Boundary, ModuleLines, ModuleKind
    <2> QED
      BY <2>1, <2>4, <2>5
  <1> QED
    BY <1>1, <1>2

(* Skip finds a line further on, or none.                                   *)
LEMMA SkipType ==
  ASSUME strbuf \in Seq(Line), NEW k \in 1 .. Len(strbuf)
  PROVE  Skip(k) = 0 \/ (Skip(k) \in k + 1 .. Len(strbuf) /\ Skip(k) \in ModuleLines)
  <1> DEFINE M == MODULES_PER_TASK
             A == {0} \cup k .. Len(strbuf)
             nextOf(x) == IF x = 0 THEN 0 ELSE NextBoundary(x)
             step == [i \in 1 .. M |-> [x \in A |-> nextOf(x)]]
             At(f) == [i \in 0 .. M |-> IF i = 0 THEN k
                        ELSE IF f[i - 1] = 0 THEN 0 ELSE NextBoundary(f[i - 1])]
             at == CHOOSE f : f = At(f)
  <1>1. M \in Nat /\ M > 0 /\ Len(strbuf) \in Nat /\ k \in Nat /\ k > 0
    BY ThreadAssumption
  <1>2. \A x \in A :
          nextOf(x) = 0 \/ (nextOf(x) \in k + 1 .. Len(strbuf) /\ nextOf(x) \in ModuleLines)
    <2> TAKE x \in A
    <2>1. CASE x = 0
      BY <2>1
    <2>2. CASE x # 0
      <3>1. x \in k .. Len(strbuf) /\ x \in Nat
        BY <1>1, <2>2
      <3>2. \/ NextBoundary(x) = 0
            \/ NextBoundary(x) \in x + 1 .. Len(strbuf) /\ NextBoundary(x) \in ModuleLines
        BY <3>1, NextBoundaryType, Zenon
      <3>3. nextOf(x) = NextBoundary(x)
        BY <2>2
      <3> HIDE DEF nextOf
      <3> QED
        BY <1>1, <3>1, <3>2, <3>3
    <2> QED
      BY <2>1, <2>2
  <1> HIDE DEF nextOf
  <1>3. \A x \in A : nextOf(x) \in A
    BY <1>1, <1>2
  <1>4. k \in A
    BY <1>1
  <1>5. step \in [1 .. M -> [A -> A]] /\ \A i \in 1 .. M : \A x \in A : step[i][x] = nextOf(x)
    <2> HIDE DEF A
    <2> QED
      BY <1>3
  <1> HIDE DEF step, A, M
  <1>6. PICK f : Recurs(f, A, k, step, M)
    BY <1>1, <1>4, <1>5, RecursionExists
  <1>7. f = At(f)
    <2>1. f = [i \in 0 .. M |-> f[i]] /\ f[0] = k
      BY <1>6 DEF Recurs
    <2>2. \A i \in 1 .. M : f[i] = nextOf(f[i - 1])
      <3> TAKE i \in 1 .. M
      <3>1. i - 1 \in 0 .. M
        BY <1>1
      <3>2. f[i - 1] \in A
        BY <1>6, <3>1 DEF Recurs
      <3> QED
        BY <1>5, <1>6, <3>2, Zenon DEF Recurs
    <2>3. \A i \in 0 .. M : i = 0 \/ i \in 1 .. M
      BY <1>1
    <2>4. \A i \in 0 .. M : f[i] = IF i = 0 THEN k
                        ELSE IF f[i - 1] = 0 THEN 0 ELSE NextBoundary(f[i - 1])
      BY <2>1, <2>2, <2>3, Zenon DEF nextOf
    <2> QED
      BY <2>1, <2>4, Zenon
  <1>8. at = At(at)
    BY <1>7, Zenon
  <1> HIDE DEF at
  <1>9. at[0] = k /\ \A i \in 1 .. M : at[i] = nextOf(at[i - 1])
    <2>1. \A i \in 0 .. M : at[i] = IF i = 0 THEN k
                        ELSE IF at[i - 1] = 0 THEN 0 ELSE NextBoundary(at[i - 1])
      BY <1>8, Zenon
    <2>2. 0 \in 0 .. M /\ \A i \in 1 .. M : i \in 0 .. M /\ i # 0
      BY <1>1
    <2> QED
      BY <2>1, <2>2, Zenon DEF nextOf
  <1>10. \A i \in 0 .. M : at[i] \in A
    <2>1. at[0] \in A /\ \A i \in 1 .. M : at[i - 1] \in A => at[i] \in A
      BY <1>3, <1>4, <1>9, Zenon
    <2> QED
      BY <1>1, <2>1, RecursionKeeps, Zenon
  <1>11. at[M] = nextOf(at[M - 1]) /\ at[M - 1] \in A
    <2>1. M \in 1 .. M /\ M - 1 \in 0 .. M
      BY <1>1
    <2> QED
      BY <1>9, <1>10, <2>1, Zenon
  <1>12. Skip(k) = at[M]
    BY Zenon DEF Skip, at, M
  <1> QED
    BY <1>2, <1>11, <1>12, Zenon

----------------------------------------------------------------------------
(* A set of numbers from 1 on that has, with each, all below it.            *)
LEMMA FromOneOn ==
  ASSUME NEW n \in Nat, NEW S \in SUBSET (1 .. n),
         \A k \in S : \A j \in 1 .. k : j \in S
  PROVE  S = 1 .. Cardinality(S)
  <1>1. CASE S = {}
    <2>1. Cardinality(S) = 0
      BY <1>1, FS_EmptySet
    <2> QED
      BY <1>1, <2>1
  <1>2. CASE S # {}
    <2> DEFINE m == Max(S)
    <2>1. m \in S /\ \A y \in S : m >= y
      BY <1>2, MaxIsIn, Zenon
    <2> HIDE DEF m
    <2>2. m \in 1 .. n
      BY <2>1
    <2>3. S = 1 .. m
      <3>1. \A j \in S : j \in 1 .. m
        BY <2>1, <2>2
      <3>2. \A j \in 1 .. m : j \in S
        BY <2>1, Zenon
      <3> QED
        BY <3>1, <3>2
    <2>4. Cardinality(1 .. m) = m
      <3>1. 1 \in Int /\ m \in Int /\ m >= 1
        BY <2>2
      <3>2. Cardinality(1 .. m) = IF 1 > m THEN 0 ELSE m - 1 + 1
        BY <3>1, FS_Interval, Zenon
      <3> QED
        BY <3>1, <3>2
    <2> QED
      BY <2>3, <2>4
  <1> QED
    BY <1>1, <1>2

(* The indices which a permutation takes to the last b of a + b: there are  *)
(* b, and it takes some index to each.                                      *)
LEMMA PermutedFlags ==
  ASSUME NEW a \in Nat, NEW b \in Nat, NEW p \in Injection(1 .. a + b, 1 .. a + b)
  PROVE  /\ \A j \in 1 .. a + b : \E k \in 1 .. a + b : p[k] = j
         /\ Cardinality({k \in 1 .. a + b : p[k] > a}) = b
  <1> DEFINE D == 1 .. a + b
             S == {k \in D : p[k] > a}
             T == a + 1 .. a + b
             r == [k \in S |-> p[k]]
  <1>1. IsFiniteSet(D) /\ IsFiniteSet(T) /\ Cardinality(T) = b
    <2>1. 1 \in Int /\ a + b \in Int /\ a + 1 \in Int
      OBVIOUS
    <2> DEFINE u == a + b
               v == a + 1
    <2> HIDE DEF u, v
    <2>3. u \in Int /\ v \in Int /\ D = 1 .. u /\ T = v .. u
      BY <2>1 DEF u, v
    <2>4. IsFiniteSet(1 .. u) /\ IsFiniteSet(v .. u)
          /\ Cardinality(v .. u) = IF v > u THEN 0 ELSE u - v + 1
      BY <2>1, <2>3, FS_Interval, Zenon
    <2> HIDE DEF D, T
    <2>2. (IF v > u THEN 0 ELSE u - v + 1) = b
      BY DEF u, v
    <2> QED
      BY <2>2, <2>3, <2>4, Zenon
  <1> HIDE DEF D
  <1>2. p \in [D -> D] /\ \A i, j \in D : p[i] = p[j] => i = j
    <2>1. p \in Injection(D, D)
      BY DEF D
    <2> QED
      BY <2>1, Fun_InjectionProperties, Zenon
  <1>3. p \in Surjection(D, D)
    <2>1. p \in Injection(D, D)
      BY DEF D
    <2> QED
      BY <1>1, <2>1, FS_Injection, Zenon
  <1>4. \A j \in D : \E k \in D : p[k] = j
    BY <1>3, Fun_SurjectionProperties, Zenon
  <1>5. r \in Bijection(S, T)
    <2>1. \A k \in S : p[k] \in T
      <3> TAKE k \in S
      <3>1. p[k] \in D /\ p[k] > a
        BY <1>2
      <3> QED
        BY <3>1 DEF D
    <2>2. r \in [S -> T]
      BY <2>1
    <2>3. \A i, j \in S : r[i] = r[j] => i = j
      BY <1>2
    <2>4. \A j \in T : \E k \in S : r[k] = j
      <3> TAKE j \in T
      <3>1. j \in D /\ j > a
        BY DEF D
      <3>2. PICK k \in D : p[k] = j
        BY <1>4, <3>1
      <3>3. k \in S /\ r[k] = j
        BY <3>1, <3>2
      <3> QED
        BY <3>3
    <2> HIDE DEF r, S, T
    <2> QED
      BY <2>2, <2>3, <2>4, Fun_IsBij, Zenon
  <1>6. IsFiniteSet(S) /\ Cardinality(S) = Cardinality(T)
    <2>1. S \in SUBSET D
      OBVIOUS
    <2>2. IsFiniteSet(S)
      BY <1>1, <2>1, FS_Subset, Zenon
    <2>3. ExistsBijection(S, T)
      BY <1>5, Fun_ExistsBij, Zenon
    <2> HIDE DEF S, T
    <2> QED
      BY <2>2, <2>3, FS_Bijection, Zenon
  <1> QED
    BY <1>1, <1>4, <1>6, Zenon DEF D

----------------------------------------------------------------------------
(* Cuts, the sorted queue and the concatenation of lists.                   *)

(* Cuts of a text, one behind the other.                                    *)
Ascending(c, n, N) == c \in [0 .. n -> 1 .. N] /\ \A i \in 1 .. n : c[i - 1] < c[i]

(* The tasks between the cuts are not empty.                                *)
LEMMA TaskType ==
  ASSUME NEW n \in Nat, NEW N \in Nat, NEW c, Ascending(c, n, N), NEW i \in 0 .. n - 1
  PROVE  /\ TaskAt(c, i) \in Task /\ TaskAt(c, i).len \in Nat /\ TaskAt(c, i).len > 0
         /\ TaskAt(c, i).id = i /\ TaskAt(c, i).offset = c[i] /\ TaskAt(c, i).lineno = c[i]
         /\ TaskAt(c, i).len = c[i + 1] - c[i]
  <1>1. i \in 0 .. n /\ i + 1 \in 0 .. n /\ i + 1 \in 1 .. n /\ (i + 1) - 1 = i /\ i \in Int
    OBVIOUS
  <1>2. c[i] \in 1 .. N /\ c[i + 1] \in 1 .. N /\ c[i] < c[i + 1]
    <2>1. c[i] \in 1 .. N /\ c[i + 1] \in 1 .. N
      BY <1>1 DEF Ascending
    <2>2. c[(i + 1) - 1] < c[i + 1]
      BY <1>1, Zenon DEF Ascending
    <2> QED
      BY <1>1, <2>1, <2>2
  <1>3. c[i] \in Nat /\ c[i + 1] - c[i] \in Nat /\ c[i + 1] - c[i] > 0 /\ c[i] \in Int
    BY <1>2
  <1> QED
    BY <1>1, <1>3 DEF TaskAt, Task

(* What ascending cuts are.                                                 *)
LEMMA AscendingParts ==
  ASSUME NEW n \in Nat, NEW N \in Nat, NEW c, Ascending(c, n, N)
  PROVE  /\ \A i \in 0 .. n : c[i] \in Nat /\ c[i] >= 1 /\ c[i] <= N
         /\ \A i \in 1 .. n : c[i - 1] \in Nat /\ c[i] \in Nat /\ c[i - 1] < c[i]
  <1>1. \A i \in 0 .. n : c[i] \in Nat /\ c[i] >= 1 /\ c[i] <= N
    BY DEF Ascending
  <1>2. \A i \in 1 .. n : i - 1 \in 0 .. n /\ i \in 0 .. n
    OBVIOUS
  <1> QED
    BY <1>1, <1>2, Zenon DEF Ascending

(* The elements of a concatenation.                                         *)
LEMMA ConcatParts ==
  ASSUME NEW T, NEW s \in Seq(T), NEW t \in Seq(T)
  PROVE  /\ s \o t \in Seq(T) /\ Len(s \o t) = Len(s) + Len(t)
         /\ DOMAIN (s \o t) = 1 .. Len(s) + Len(t)
         /\ \A j \in 1 .. Len(s) : (s \o t)[j] = s[j]
         /\ \A j \in 1 .. Len(t) : (s \o t)[Len(s) + j] = t[j]
  OBVIOUS

(* A function of 1 .. m is a sequence.                                      *)
LEMMA SeqOfValues ==
  ASSUME NEW T, NEW m \in Nat, NEW f \in [1 .. m -> T]
  PROVE  f \in Seq(T) /\ Len(f) = m /\ DOMAIN f = 1 .. m
  OBVIOUS

(* std::sort brings the exit flags to the front: they alone have length 0.  *)
SortedFlags(s, c, n) ==
  /\ s \in Seq(Task) /\ Len(s) = n + NR_THREAD
  /\ \A k \in DOMAIN s : IF k <= NR_THREAD THEN s[k] = Flag
                         ELSE \E i \in 0 .. n - 1 : s[k] = TaskAt(c, i)
  /\ \A i \in 0 .. n - 1 : \E k \in DOMAIN s : s[k] = TaskAt(c, i)

(* The order of the queue behind the sort.                                  *)
LEMMA FlagsSortFirst ==
  ASSUME NEW n \in Nat, NEW N \in Nat, NEW c, Ascending(c, n, N),
         NEW tasks, tasks = [k \in 1 .. n |-> TaskAt(c, k - 1)],
         NEW q, q = tasks \o ExitFlags,
         NEW p \in Injection(DOMAIN q, DOMAIN q),
         NEW s, s = [k \in DOMAIN q |-> q[p[k]]], InOrder(s)
  PROVE  SortedFlags(s, c, n)
  <1> DEFINE r == NR_THREAD
             D == 1 .. n + r
             F == {k \in D : p[k] > n}
  <1>1. r \in Nat /\ r > 0
    BY ThreadAssumption
  <1>2. /\ \A k \in 1 .. n : k - 1 \in 0 .. n - 1
        /\ \A i \in 0 .. n - 1 : i + 1 \in 1 .. n /\ (i + 1) - 1 = i
    OBVIOUS
  <1>3. Flag \in Task /\ Flag.len = 0
    BY DEF Flag, Task
  <1>4. tasks \in Seq(Task)
    <2>1. \A k \in 1 .. n : TaskAt(c, k - 1) \in Task
      BY <1>2, TaskType, Zenon
    <2> QED
      BY <2>1
  <1>5. ExitFlags \in Seq(Task) /\ Len(ExitFlags) = r /\ \A k \in 1 .. r : ExitFlags[k] = Flag
    BY <1>1, <1>3 DEF ExitFlags
  <1>6. /\ q \in Seq(Task) /\ Len(q) = n + r /\ DOMAIN q = D
        /\ \A j \in 1 .. n : q[j] = tasks[j]
        /\ \A j \in 1 .. r : q[n + j] = Flag
    <2>1. Len(tasks) = n
      OBVIOUS
    <2> HIDE DEF D
    <2>2. /\ q \in Seq(Task) /\ Len(q) = n + r /\ DOMAIN q = 1 .. n + r
          /\ \A j \in 1 .. n : q[j] = tasks[j]
          /\ \A j \in 1 .. r : q[n + j] = ExitFlags[j]
      <3> DEFINE u == tasks \o ExitFlags
      <3>1. u \in Seq(Task)
        BY <1>4, <1>5, ConcatParts, Zenon
      <3>2. Len(u) = Len(tasks) + Len(ExitFlags)
        BY <1>4, <1>5, ConcatParts, Zenon
      <3>3. DOMAIN u = 1 .. Len(tasks) + Len(ExitFlags)
        BY <1>4, <1>5, ConcatParts, Zenon
      <3>4. \A j \in 1 .. Len(tasks) : u[j] = tasks[j]
        BY <1>4, <1>5, ConcatParts, SMT
      <3>5. \A j \in 1 .. Len(ExitFlags) : u[Len(tasks) + j] = ExitFlags[j]
        BY <1>4, <1>5, ConcatParts, SMT
      <3>6. q = u
        OBVIOUS
      <3> HIDE DEF u
      <3> QED
        BY <1>5, <2>1, <3>1, <3>2, <3>3, <3>4, <3>5, <3>6, Zenon
    <2> QED
      BY <1>5, <2>2, Zenon DEF D
  <1>7. \A j \in 1 .. n : q[j] = TaskAt(c, j - 1) /\ q[j].len \in Nat /\ q[j].len > 0
    <2> TAKE j \in 1 .. n
    <2>1. q[j] = TaskAt(c, j - 1)
      BY <1>6
    <2>2. TaskAt(c, j - 1).len \in Nat /\ TaskAt(c, j - 1).len > 0
      BY <1>2, TaskType, Zenon
    <2> QED
      BY <2>1, <2>2, Zenon
  <1>8. \A j \in D : j > n => q[j] = Flag
    <2> TAKE j \in D
    <2> HAVE j > n
    <2>1. j - n \in 1 .. r /\ j = n + (j - n)
      BY <1>1
    <2> QED
      BY <1>6, <2>1, Zenon
  <1> HIDE DEF r, D
  <1>9. p \in Injection(D, D) /\ p \in [D -> D]
    BY <1>6, Fun_InjectionProperties, Zenon
  <1>10. s = [k \in D |-> q[p[k]]] /\ s \in Seq(Task) /\ Len(s) = n + r /\ DOMAIN s = D
    <2>1. \A j \in D : q[j] \in Task
      <3> HIDE DEF Task
      <3> QED
        BY <1>1, <1>6 DEF D
    <2>2. \A k \in D : q[p[k]] \in Task
      BY <1>9, <2>1
    <2>3. s = [k \in D |-> q[p[k]]]
      BY <1>6, Zenon
    <2>4. s \in [D -> Task]
      BY <2>2, <2>3, Zenon
    <2>5. n + r \in Nat
      BY <1>1
    <2> QED
      BY <2>3, <2>4, <2>5, SeqOfValues, Zenon DEF D
  <1>11. /\ \A j \in D : \E k \in D : p[k] = j
         /\ Cardinality(F) = r
    BY <1>1, <1>9, PermutedFlags, Zenon DEF D
  <1>12. \A k \in D : s[k] = q[p[k]] /\ p[k] \in D /\ p[k] \in Nat /\ p[k] >= 1
                         /\ p[k] <= n + r
    <2>1. \A j \in D : j \in Nat /\ j >= 1 /\ j <= n + r
      BY <1>1 DEF D
    <2>2. \A k \in D : s[k] = q[p[k]]
      BY <1>10
    <2>3. \A k \in D : p[k] \in D
      BY <1>9
    <2> QED
      BY <2>1, <2>2, <2>3, Zenon
  <1>13. \A k \in D : k \notin F => p[k] \in 1 .. n /\ s[k] = TaskAt(c, p[k] - 1)
                                    /\ s[k].len \in Nat /\ s[k].len > 0
    <2> TAKE k \in D
    <2> HAVE k \notin F
    <2>1. p[k] \in 1 .. n
      <3>1. p[k] \in Nat /\ p[k] >= 1 /\ ~(p[k] > n)
        BY <1>12, Zenon
      <3> QED
        BY <3>1
    <2> QED
      BY <1>7, <1>12, <2>1, Zenon
  <1>14. \A k \in F : s[k] = Flag
    BY <1>8, <1>12
  <1>15. F = 1 .. r
    <2>1. ASSUME NEW k \in F, NEW j \in 1 .. k PROVE j \in F
      <3>1. k \in D /\ j \in D /\ j <= k /\ j \in Nat /\ k \in Nat
        BY <1>1 DEF D
      <3> SUFFICES ASSUME j \notin F PROVE FALSE
        OBVIOUS
      <3>2. j # k
        OBVIOUS
      <3>3. j < k
        BY <3>1, <3>2
      <3>4. s[j].len <= s[k].len
        BY <1>10, <3>1, <3>3, Zenon DEF InOrder
      <3>5. s[k].len = 0
        BY <1>3, <1>14
      <3>6. s[j].len \in Nat /\ s[j].len > 0
        BY <1>13, <3>1, Zenon
      <3>7. \A x \in Nat : x <= 0 => ~(x > 0)
        OBVIOUS
      <3> QED
        BY <3>4, <3>5, <3>6, <3>7, Zenon
    <2>2. F \in SUBSET (1 .. n + r) /\ n + r \in Nat
      BY <1>1 DEF D
    <2> HIDE DEF F
    <2> QED
      BY <1>11, <2>1, <2>2, FromOneOn, Zenon
  <1>16. ASSUME NEW k \in D
         PROVE  IF k <= r THEN s[k] = Flag ELSE \E i \in 0 .. n - 1 : s[k] = TaskAt(c, i)
    <2>1. k \in Nat /\ k >= 1
      BY <1>1 DEF D
    <2>2. CASE k <= r
      <3>1. k \in F
        BY <1>1, <1>15, <2>1, <2>2
      <3> QED
        BY <1>14, <2>2, <3>1
    <2>3. CASE ~(k <= r)
      <3>1. k \notin F
        <4> HIDE DEF F
        <4> QED
          BY <1>1, <1>15, <2>1, <2>3
      <3>2. p[k] - 1 \in 0 .. n - 1 /\ s[k] = TaskAt(c, p[k] - 1)
        BY <1>2, <1>13, <3>1, Zenon
      <3> QED
        BY <2>3, <3>2, Zenon
    <2> QED
      BY <2>2, <2>3
  <1>17. ASSUME NEW i \in 0 .. n - 1 PROVE \E k \in D : s[k] = TaskAt(c, i)
    <2>1. i + 1 \in D /\ i + 1 \in 1 .. n /\ (i + 1) - 1 = i
      BY <1>1 DEF D
    <2>2. PICK k \in D : p[k] = i + 1
      BY <1>11, <2>1, Zenon
    <2>3. q[i + 1] = TaskAt(c, i)
      <3>1. q[i + 1] = TaskAt(c, (i + 1) - 1)
        BY <1>7, <2>1, Zenon
      <3> QED
        BY <2>1, <3>1
    <2>4. s[k] = TaskAt(c, i)
      BY <1>12, <2>2, <2>3, Zenon
    <2> QED
      BY <2>4
  <1> QED
    BY <1>10, <1>16, <1>17, Zenon DEF r, SortedFlags

(* Two parts of the text that continue each other.                          *)
LEMMA PartsContinue ==
  ASSUME NEW a \in Nat, NEW b \in Nat, NEW d \in Nat, a <= b, b < d
  PROVE  /\ ModulesIn(a, d - 1) = ModulesIn(a, b - 1) \cup ModulesIn(b, d - 1)
         /\ Behind(ModulesIn(a, b - 1), ModulesIn(b, d - 1))
  <1>1. ASSUME NEW k PROVE k \in a .. d - 1 <=> k \in a .. b - 1 \/ k \in b .. d - 1
    OBVIOUS
  <1>2. \A k \in a .. b - 1 : \A m \in b .. d - 1 : k < m
    OBVIOUS
  <1>3. ModulesIn(a, d - 1) = ModulesIn(a, b - 1) \cup ModulesIn(b, d - 1)
    BY <1>1, Zenon DEF ModulesIn
  <1> QED
    BY <1>2, <1>3, Zenon DEF ModulesIn, Behind

----------------------------------------------------------------------------
(* The elements of two sequences are those of either.                       *)
LEMMA ConcatRange ==
  ASSUME NEW S, NEW s \in Seq(S), NEW u \in Seq(S)
  PROVE  \A x \in Range(s \o u) : x \in Range(s) \/ x \in Range(u)
  <1> DEFINE n == Len(s)
             m == Len(u)
  <1>1. /\ DOMAIN s = 1 .. n /\ DOMAIN u = 1 .. m /\ DOMAIN (s \o u) = 1 .. n + m
        /\ n \in Nat /\ m \in Nat
        /\ \A k \in 1 .. n : (s \o u)[k] = s[k]
        /\ \A k \in 1 .. n + m : k \notin 1 .. n =>
             k - n \in 1 .. m /\ (s \o u)[k] = u[k - n]
    OBVIOUS
  <1> HIDE DEF n, m
  <1> QED
    BY <1>1, Zenon DEF Range

(* The lists of consecutive parts, put together.                            *)
LEMMA FlattenEnumerates ==
  ASSUME strbuf \in Seq(Line), NEW n \in Nat, n > 0, NEW c, Ascending(c, n, Len(strbuf) + 1),
         NEW ss, ss \in [1 .. n -> Seq(PNode)],
         \A k \in 1 .. n : Enumerates(ss[k], ModulesIn(c[k - 1], c[k] - 1))
  PROVE  /\ FlattenSeq(ss) \in Seq(PNode)
         /\ Enumerates(FlattenSeq(ss), ModulesIn(c[0], c[n] - 1))
         /\ \A x \in Range(FlattenSeq(ss)) : \E k \in 1 .. n : x \in Range(ss[k])
  <1> DEFINE step == [k \in 1 .. n - 1 |-> [x \in Seq(PNode) |-> x \o ss[k + 1]]]
             G(f) == [i \in 1 .. Len(ss) |-> IF i = 1 THEN ss[i] ELSE f[i - 1] \o ss[i]]
             flat == CHOOSE f : f = G(f)
  <1>1. /\ n - 1 \in Nat /\ 1 \in 1 .. n /\ ss[1] \in Seq(PNode) /\ Len(ss) = n
        /\ Len(ss) # 0 /\ Len(strbuf) + 1 \in Nat
    OBVIOUS
  <1>2. step \in [1 .. n - 1 -> [Seq(PNode) -> Seq(PNode)]]
        /\ \A k \in 1 .. n - 1 : \A x \in Seq(PNode) : step[k][x] = x \o ss[k + 1]
    <2>1. \A k \in 1 .. n - 1 : ss[k + 1] \in Seq(PNode)
      <3> TAKE k \in 1 .. n - 1
      <3>1. k + 1 \in 1 .. n
        OBVIOUS
      <3> QED
        BY <3>1
    <2>2. \A k \in 1 .. n - 1 : \A x \in Seq(PNode) : x \o ss[k + 1] \in Seq(PNode)
      BY <2>1, ThreeSeqs, Zenon
    <2> QED
      BY <2>2
  <1> HIDE DEF step
  <1>3. PICK g : Recurs(g, Seq(PNode), ss[1], step, n - 1)
    BY <1>1, <1>2, RecursionExists
  <1> DEFINE h == [i \in 1 .. n |-> g[i - 1]]
  <1>4. h = G(h)
    <2>1. \A i \in 1 .. n : i # 1 => i - 1 \in 1 .. n /\ i - 1 \in 1 .. n - 1
                                     /\ (i - 1) - 1 \in 0 .. n - 1 /\ (i - 1) + 1 = i
      BY <1>1
    <2>2. \A i \in 1 .. n : i # 1 => h[i - 1] = g[(i - 1) - 1]
      BY <2>1
    <2>3. \A i \in 1 .. n : i # 1 => g[i - 1] = g[(i - 1) - 1] \o ss[i]
      <3> TAKE i \in 1 .. n
      <3> HAVE i # 1
      <3>1. g[i - 1] = step[i - 1][g[(i - 1) - 1]]
        BY <1>3, <2>1, Zenon DEF Recurs
      <3>2. g[(i - 1) - 1] \in Seq(PNode)
        <4>1. \A k \in 0 .. n - 1 : g[k] \in Seq(PNode)
          BY <1>3 DEF Recurs
        <4> QED
          BY <2>1, <4>1, Zenon
      <3>3. step[i - 1][g[(i - 1) - 1]] = g[(i - 1) - 1] \o ss[(i - 1) + 1]
        BY <1>2, <2>1, <3>2, Zenon
      <3> QED
        BY <2>1, <3>1, <3>3
    <2>4. g[1 - 1] = ss[1]
      BY <1>3 DEF Recurs
    <2>5. \A i \in 1 .. n : g[i - 1] = IF i = 1 THEN ss[i] ELSE h[i - 1] \o ss[i]
      BY <2>2, <2>3, <2>4, Zenon
    <2> QED
      BY <1>1, <2>5, Zenon
  <1>5. flat = G(flat)
    BY <1>4, Zenon
  <1> HIDE DEF flat
  <1>6. /\ flat[1] = ss[1]
        /\ \A i \in 1 .. n : i # 1 => flat[i] = flat[i - 1] \o ss[i]
    <2>1. \A i \in 1 .. n : flat[i] = IF i = 1 THEN ss[i] ELSE flat[i - 1] \o ss[i]
      BY <1>1, <1>5, Zenon
    <2> QED
      BY <1>1, <2>1, Zenon
  <1> DEFINE Good(i) ==
               /\ flat[i] \in Seq(PNode) /\ Enumerates(flat[i], ModulesIn(c[0], c[i] - 1))
               /\ \A x \in Range(flat[i]) : \E k \in 1 .. n : x \in Range(ss[k])
             S == {i \in Nat : Good(i + 1)}
  <1>7. 0 \in S
    <2>1. Good(1)
      <3>1. c[1 - 1] = c[0]
        OBVIOUS
      <3>2. Enumerates(ss[1], ModulesIn(c[0], c[1] - 1))
        BY <1>1, <3>1, Zenon
      <3> QED
        BY <1>1, <1>6, <3>2, Zenon
    <2> HIDE DEF Good
    <2> QED
      BY <2>1
  <1>8. ASSUME NEW j \in 1 .. n - 1, j - 1 \in S PROVE j \in S
    <2>1. j \in Nat /\ j + 1 \in 1 .. n /\ j + 1 # 1 /\ (j + 1) - 1 = j /\ (j - 1) + 1 = j
      OBVIOUS
    <2>2. Good(j)
      <3> HIDE DEF Good
      <3> QED
        BY <1>8, <2>1
    <2>3. flat[j + 1] = flat[j] \o ss[j + 1]
      <3>1. flat[j + 1] = flat[(j + 1) - 1] \o ss[j + 1]
        BY <1>6, <2>1, Zenon
      <3> QED
        BY <2>1, <3>1
    <2>4. ss[j + 1] \in Seq(PNode) /\ Enumerates(ss[j + 1], ModulesIn(c[j], c[j + 1] - 1))
      <3>1. Enumerates(ss[j + 1], ModulesIn(c[(j + 1) - 1], c[j + 1] - 1))
        BY <2>1, Zenon
      <3> QED
        BY <2>1, <3>1
    <2>5. c[0] \in Nat /\ c[j] \in Nat /\ c[j + 1] \in Nat /\ c[j] < c[j + 1] /\ c[0] <= c[j]
      <3>1. 0 \in 0 .. n /\ j \in 0 .. n /\ j + 1 \in 0 .. n
        BY <2>1
      <3>2. c[0] \in Nat /\ c[j] \in Nat /\ c[j + 1] \in Nat
        BY <1>1, <3>1, AscendingParts, Zenon
      <3>3. c[j] < c[j + 1]
        <4>1. c[(j + 1) - 1] < c[j + 1]
          BY <2>1, Zenon DEF Ascending
        <4> QED
          BY <2>1, <4>1
      <3>4. c[0] <= c[j]
        <4> DEFINE U == {x \in Nat : c[0] <= x}
        <4>1. c[0] \in U
          <5>1. \A x \in Nat : x <= x
            OBVIOUS
          <5> QED
            BY <3>2, <5>1, Zenon
        <4>2. \A k \in 1 .. n : c[k - 1] \in U => c[k] \in U
          <5> TAKE k \in 1 .. n
          <5>2. c[k] \in Nat /\ c[k - 1] \in Nat /\ c[k - 1] < c[k]
            BY <1>1, AscendingParts, Zenon
          <5>3. \A x, y, z \in Nat : x <= y /\ y < z => x <= z
            OBVIOUS
          <5> QED
            BY <3>2, <5>2, <5>3, Zenon
        <4> HIDE DEF U
        <4>3. c[j] \in U
          BY <3>1, <4>1, <4>2, RecursionKeeps, Zenon
        <4> QED
          BY <4>3 DEF U
      <3> QED
        BY <3>2, <3>3, <3>4
    <2>6. /\ ModulesIn(c[0], c[j + 1] - 1)
               = ModulesIn(c[0], c[j] - 1) \cup ModulesIn(c[j], c[j + 1] - 1)
          /\ Behind(ModulesIn(c[0], c[j] - 1), ModulesIn(c[j], c[j + 1] - 1))
      BY <2>5, PartsContinue, Zenon
    <2>8. flat[j] \o ss[j + 1] \in Seq(PNode)
      BY <2>2, <2>4, ThreeSeqs, Zenon
    <2>10. Enumerates(flat[j] \o ss[j + 1],
                      ModulesIn(c[0], c[j] - 1) \cup ModulesIn(c[j], c[j + 1] - 1))
      BY <2>2, <2>4, <2>6, EnumerateBoth, Zenon
    <2>11. \A x \in Range(flat[j] \o ss[j + 1]) : \E k \in 1 .. n : x \in Range(ss[k])
      BY <2>1, <2>2, <2>4, ConcatRange, Zenon
    <2>9. Good(j + 1)
      BY <2>3, <2>6, <2>8, <2>10, <2>11, Zenon
    <2> HIDE DEF Good
    <2> QED
      BY <2>1, <2>9
  <1> HIDE DEF S
  <1>9. n - 1 \in S
    <2>1. 0 .. n - 1 \subseteq S
      BY <1>1, <1>7, <1>8, BoundedInduction
    <2> QED
      BY <1>1, <2>1
  <1>10. Good(n)
    <2>1. Good((n - 1) + 1)
      BY <1>9, Zenon DEF S
    <2>2. (n - 1) + 1 = n
      OBVIOUS
    <2> HIDE DEF Good
    <2> QED
      BY <2>1, <2>2
  <1>11. FlattenSeq(ss) = flat[n]
    BY <1>1, Zenon DEF FlattenSeq, flat
  <1> QED
    BY <1>10, <1>11, Zenon

----------------------------------------------------------------------------
(* The steps of main.                                                       *)

(* What the types and the assumptions give.                                 *)
LEMMA Basics ==
  ASSUME TypeOK
  PROVE  /\ strbuf \in Seq(Line) /\ Len(strbuf) \in Nat /\ Len(strbuf) > 0
         /\ id \in Nat /\ Len(strbuf) + 1 \in Nat
         /\ NR_THREAD \in Nat /\ NR_THREAD > 0 /\ Thread = 1 .. NR_THREAD
         /\ IsFiniteSet(Thread) /\ Cardinality(Thread) = NR_THREAD
         /\ Flag \in Task /\ Flag.id = -1 /\ Unwritten \in Lists
  <1>1. strbuf \in Seq(Line) /\ strbuf # <<>>
    BY TextAssumption, Zenon DEF TypeOK
  <1>2. Len(strbuf) \in Nat /\ Len(strbuf) > 0 /\ Len(strbuf) + 1 \in Nat
    BY <1>1
  <1>3. NR_THREAD \in Nat /\ NR_THREAD > 0 /\ Thread = 1 .. NR_THREAD
    BY ThreadAssumption DEF Thread
  <1>4. IsFiniteSet(Thread) /\ Cardinality(Thread) = NR_THREAD
    <2>1. 1 \in Int /\ NR_THREAD \in Int
      BY <1>3
    <2>2. IsFiniteSet(1 .. NR_THREAD)
          /\ Cardinality(1 .. NR_THREAD) = IF 1 > NR_THREAD THEN 0 ELSE NR_THREAD - 1 + 1
      BY <2>1, FS_Interval, Zenon
    <2> QED
      BY <1>3, <2>2
  <1>5. Flag \in Task /\ Flag.id = -1 /\ Unwritten \in Lists
    BY DEF Flag, Task, Unwritten, Lists
  <1>6. id \in Nat
    BY DEF TypeOK
  <1> QED
    BY <1>1, <1>2, <1>3, <1>4, <1>5, <1>6

(* Append as a function.                                                    *)
LEMMA AppendIs ==
  ASSUME NEW T, NEW s \in Seq(T), NEW x \in T
  PROVE  Append(s, x) = [k \in 1 .. Len(s) + 1 |-> IF k = Len(s) + 1 THEN x ELSE s[k]]
  <1> DEFINE a == Append(s, x)
             n == Len(s) + 1
  <1>1. /\ n \in Nat /\ a \in Seq(T) /\ Len(a) = n /\ DOMAIN a = 1 .. n
        /\ \A k \in 1 .. n : a[k] = IF k = n THEN x ELSE s[k]
    OBVIOUS
  <1>2. a = [k \in DOMAIN a |-> a[k]]
    <2> HIDE DEF a, n
    <2> QED
      BY <1>1
  <1> HIDE DEF a, n
  <1>3. a = [k \in 1 .. n |-> IF k = n THEN x ELSE s[k]]
    BY <1>1, <1>2, Zenon
  <1> QED
    BY <1>3 DEF a, n

(* The cuts of the invariant ascend.                                        *)
LEMMA CutsAscend ==
  ASSUME NEW c, Cuts(c) PROVE Ascending(c, id, Len(strbuf) + 1)
  BY DEF Cuts, Ascending

(* The invariant holds at the start.                                        *)
LEMMA InitHolds == Init => IInv
  <1> SUFFICES ASSUME Init PROVE IInv
    OBVIOUS
  <1>1. strbuf \in Seq(Line) /\ strbuf # <<>>
    BY TextAssumption, Zenon DEF Init
  <1>2. next = 0 \/ next \in 1 .. Len(strbuf)
    <2>1. next = NextBoundary(0) /\ 0 \in Nat /\ 0 + 1 = 1
      BY DEF Init
    <2>2. NextBoundary(0) = 0 \/ NextBoundary(0) \in 0 + 1 .. Len(strbuf)
      BY <1>1, <2>1, NextBoundaryType, Zenon
    <2> QED
      BY <2>1, <2>2
  <1>3. Len(strbuf) \in Nat /\ Len(strbuf) > 0
    BY <1>1
  <1>4. Flag \in Task /\ Unwritten \in Lists
    BY DEF Flag, Task, Unwritten, Lists
  <1>5. NR_THREAD \in Nat /\ Thread = 1 .. NR_THREAD
    BY ThreadAssumption DEF Thread
  <1>6. TypeOK
    <2>1. e \in [Thread -> Task] /\ globalRoot \in Lists
      BY <1>4, Zenon DEF Init
    <2>2. pc \in [Thread -> {"none", "wait", "parse", "done"}]
      BY DEF Init
    <2>3. next \in Nat
      BY <1>2, <1>3
    <2>4. taskQueue \in Seq(Task)
      BY DEF Init
    <2> QED
      BY <1>5, <2>1, <2>2, <2>3, <2>4 DEF Init, TypeOK
  <1>7. ThreadsInv
    BY <1>5 DEF Init, ThreadsInv, Sorted
  <1>8. TreeIsText /\ AbortsOnlyHeadless
    BY DEF Init, TreeIsText, AbortsOnlyHeadless
  <1> DEFINE c == [i \in 0 .. 0 |-> 1]
  <1>9. c \in [0 .. id -> 1 .. Len(strbuf) + 1] /\ TasksInv(c)
    <2>1. id = 0 /\ main = "split" /\ prev = 1 /\ next_lineno = 1 /\ taskQueue = <<>>
          /\ pc = [t \in Thread |-> "none"]
      BY DEF Init
    <2>2. c \in [0 .. id -> 1 .. Len(strbuf) + 1] /\ c[0] = 1
      BY <1>3, <2>1
    <2>3. Cuts(c)
      <3> HIDE DEF c
      <3>1. \A i \in 1 .. id : c[i - 1] < c[i]
        BY <2>1
      <3>3. \A i \in 1 .. id : c[i] = Len(strbuf) + 1 \/ strbuf[c[i]].kind \in ModuleKind
        BY <2>1
      <3>2. c[id] = prev /\ prev <= Len(strbuf) /\ next_lineno = prev
            /\ (next = 0 \/ next \in prev .. Len(strbuf))
        BY <1>2, <1>3, <2>1, <2>2
      <3> QED
        BY <2>1, <2>2, <3>1, <3>2, <3>3 DEF Cuts
    <2>4. Listed(c)
      BY <2>1 DEF Listed
    <2>5. ~Sorted
      BY <2>1 DEF Sorted
    <2>6. Holding(c)
      BY <2>1 DEF Holding
    <2> QED
      BY <2>2, <2>3, <2>4, <2>5, <2>6, Zenon DEF TasksInv, FlagsFirst, Accounted
  <1> QED
    BY <1>6, <1>7, <1>8, <1>9, Zenon DEF IInv

----------------------------------------------------------------------------
(* The steps of main.                                                       *)
LEMMA SearchFromNullKeeps == IInv /\ SearchFromNull => IInv'
  <1> SUFFICES ASSUME IInv, SearchFromNull PROVE IInv'
    OBVIOUS
  <1>1. /\ main = "split" /\ main' = "crashed"
        /\ UNCHANGED <<strbuf, prev, next, next_lineno, id, taskQueue, started, joined,
                       pc, e, lists, globalRoot>>
    BY DEF SearchFromNull, split
  <1>2. TypeOK'
    BY <1>1 DEF IInv, TypeOK
  <1>3. ThreadsInv' /\ TreeIsText' /\ AbortsOnlyHeadless'
    BY <1>1 DEF IInv, ThreadsInv, TreeIsText, AbortsOnlyHeadless, Sorted
  <1>4. PICK c \in [0 .. id -> 1 .. Len(strbuf) + 1] : TasksInv(c)
    BY Zenon DEF IInv
  <1>5. Cuts(c)'
    BY <1>1, <1>4 DEF TasksInv, Cuts
  <1>6. Listed(c)' /\ Holding(c)' /\ ~Sorted'
    BY <1>1, <1>4 DEF TasksInv, Listed, Holding, Sorted
  <1>7. TasksInv(c)'
    BY <1>5, <1>6, Zenon DEF TasksInv, FlagsFirst, Accounted
  <1> QED
    BY <1>1, <1>2, <1>3, <1>4, <1>7, Zenon DEF IInv

(* The task that is cut off, and the cuts with its end.                     *)
CutsOn(d, c, n, N, stop) ==
  /\ Ascending(d, n + 1, N) /\ d[0] = c[0] /\ d[n + 1] = stop
  /\ \A i \in 0 .. n : d[i] = c[i]
  /\ \A i \in 0 .. n - 1 : TaskAt(d, i) = TaskAt(c, i)

(* One more cut behind the last.                                            *)
LEMMA CutMore ==
  ASSUME NEW n \in Nat, NEW N \in Nat, NEW c, Ascending(c, n, N), NEW stop \in 1 .. N, c[n] < stop
  PROVE  \E d : CutsOn(d, c, n, N, stop)
  <1> DEFINE d == [i \in 0 .. n + 1 |-> IF i = n + 1 THEN stop ELSE c[i]]
  <1>1. \A i \in 0 .. n : i \in 0 .. n + 1 /\ i # n + 1
    OBVIOUS
  <1>2. \A i \in 0 .. n : d[i] = c[i]
    BY <1>1
  <1>3. d[n + 1] = stop
    OBVIOUS
  <1>4. \A i \in 0 .. n + 1 : i \in 0 .. n \/ i = n + 1
    OBVIOUS
  <1>5. \A i \in 0 .. n : c[i] \in 1 .. N
    BY DEF Ascending
  <1>6. d \in [0 .. n + 1 -> 1 .. N]
    BY <1>1, <1>4, <1>5
  <1> HIDE DEF d
  <1>7. ASSUME NEW i \in 1 .. n + 1 PROVE d[i - 1] < d[i]
    <2>1. CASE i = n + 1
      <3>1. i - 1 = n /\ n \in 0 .. n
        BY <2>1
      <3> QED
        BY <1>2, <1>3, <2>1, <3>1
    <2>2. CASE i \in 1 .. n
      <3>1. i \in 0 .. n /\ i - 1 \in 0 .. n
        BY <2>2
      <3>2. d[i] = c[i] /\ d[i - 1] = c[i - 1]
        BY <1>2, <3>1, Zenon
      <3>3. c[i - 1] < c[i]
        BY <2>2, Zenon DEF Ascending
      <3> QED
        BY <3>2, <3>3
    <2> QED
      BY <2>1, <2>2
  <1>8. ASSUME NEW i \in 0 .. n - 1 PROVE TaskAt(d, i) = TaskAt(c, i)
    <2>1. i \in 0 .. n /\ i + 1 \in 0 .. n
      OBVIOUS
    <2>2. d[i] = c[i] /\ d[i + 1] = c[i + 1]
      BY <1>2, <2>1, Zenon
    <2> QED
      BY <2>2, Zenon DEF TaskAt
  <1>9. 0 \in 0 .. n
    OBVIOUS
  <1> QED
    BY <1>2, <1>3, <1>6, <1>7, <1>8, <1>9, Zenon DEF Ascending, CutsOn

(* A task is cut off at the next boundary.                                  *)
LEMMA CreateTaskKeeps == IInv /\ CreateTask => IInv'
  <1> SUFFICES ASSUME IInv, CreateTask PROVE IInv'
    OBVIOUS
  <1>1. TypeOK /\ ThreadsInv
    BY DEF IInv
  <1>2. PICK c \in [0 .. id -> 1 .. Len(strbuf) + 1] : TasksInv(c)
    BY Zenon DEF IInv
  <1>3. /\ strbuf \in Seq(Line) /\ Len(strbuf) \in Nat /\ Len(strbuf) > 0
        /\ id \in Nat /\ Len(strbuf) + 1 \in Nat /\ next \in Nat /\ prev \in Nat
    BY <1>1, Basics DEF TypeOK
  <1>4. /\ main = "split" /\ next # 0 /\ id' = id + 1
        /\ UNCHANGED <<strbuf, started, joined, pc, e, lists, globalRoot>>
    BY DEF CreateTask
  <1>5. /\ c[id] = prev /\ prev <= Len(strbuf) /\ next_lineno = prev
        /\ next \in prev .. Len(strbuf) /\ c[0] = 1
    BY <1>2, <1>4 DEF TasksInv, Cuts
  <1>6. Ascending(c, id, Len(strbuf) + 1)
    BY <1>2, CutsAscend, Zenon DEF TasksInv
  <1>7. prev >= 1
    <2>1. id \in 0 .. id
      BY <1>3
    <2> QED
      BY <1>3, <1>5, <1>6, <2>1, AscendingParts, Zenon
  <1> DEFINE skip == Skip(next)
             stop == IF skip = 0 THEN Len(strbuf) + 1 ELSE skip
             task == [offset |-> prev, len |-> stop - prev, lineno |-> prev, id |-> id]
  <1>8. skip = 0 \/ (skip \in next + 1 .. Len(strbuf) /\ skip \in ModuleLines)
    <2>1. next \in 1 .. Len(strbuf)
      BY <1>3, <1>5, <1>7
    <2> QED
      BY <1>3, <2>1, SkipType, Zenon
  <1> HIDE DEF skip
  <1>9. stop \in 1 .. Len(strbuf) + 1 /\ prev < stop /\ stop \in Nat
    BY <1>3, <1>5, <1>8
  <1>10. /\ taskQueue' = Append(taskQueue, task)
         /\ next' = skip
         /\ IF skip = 0 THEN main' = "sort" /\ UNCHANGED <<prev, next_lineno>>
            ELSE next_lineno' = skip /\ prev' = skip /\ UNCHANGED main
    <2>1. LinenoBehind(skip) = skip \/ skip = 0
      <3>1. skip = 0 \/ skip \in Nat
        BY <1>3, <1>8
      <3>2. next_lineno = prev /\ prev \in Nat
        BY <1>3, <1>5
      <3>3. \A m, n \in Nat : n + (m - 1 - n) + 1 = m
        OBVIOUS
      <3> QED
        BY <3>1, <3>2, <3>3, Zenon DEF LinenoBehind
    <2>2. (IF skip = 0 THEN Len(strbuf) ELSE skip - 1) - prev + 1 = stop - prev
      BY <1>3, <1>5, <1>8
    <2>3. /\ taskQueue' = Append(taskQueue,
              [offset |-> prev, len |-> (IF skip = 0 THEN Len(strbuf) ELSE skip - 1) - prev + 1,
               lineno |-> next_lineno, id |-> id])
          /\ next' = skip
          /\ IF skip = 0
             THEN main' = "sort" /\ UNCHANGED <<prev, next_lineno>>
             ELSE /\ next_lineno' = LinenoBehind(skip)
                  /\ prev' = skip
                  /\ UNCHANGED main
      BY Zenon DEF CreateTask, skip
    <2> HIDE DEF stop
    <2> QED
      BY <1>5, <2>1, <2>2, <2>3, Zenon
  <1> HIDE DEF stop
  <1>23. PICK d : CutsOn(d, c, id, Len(strbuf) + 1, stop)
    <2>1. c[id] < stop
      BY <1>5, <1>9
    <2> QED
      BY <1>3, <1>6, <1>9, <2>1, CutMore, Zenon
  <1>11. /\ Ascending(d, id + 1, Len(strbuf) + 1) /\ d[0] = 1 /\ d[id + 1] = stop
         /\ \A i \in 0 .. id : d[i] = c[i]
         /\ \A i \in 0 .. id - 1 : TaskAt(d, i) = TaskAt(c, i)
    BY <1>5, <1>23, Zenon DEF CutsOn
  <1>12. task = TaskAt(d, id) /\ task \in Task
    <2>1. id \in 0 .. id
      BY <1>3
    <2>2. d[id] = prev
      BY <1>5, <1>11, <2>1, Zenon
    <2>3. task = TaskAt(d, id)
      BY <1>11, <2>2, Zenon DEF TaskAt
    <2>4. id + 1 \in Nat /\ id \in 0 .. (id + 1) - 1
      BY <1>3
    <2> HIDE DEF task
    <2> QED
      BY <1>3, <1>11, <2>3, <2>4, TaskType, Zenon
  <1> HIDE DEF task
  <1>13. taskQueue = [k \in 1 .. id |-> TaskAt(c, k - 1)] /\ Len(taskQueue) = id
         /\ taskQueue \in Seq(Task) /\ lists = <<>>
    <2>1. taskQueue = [k \in 1 .. id |-> TaskAt(c, k - 1)] /\ lists = <<>>
      BY <1>1, <1>2, <1>4 DEF TasksInv, Listed, Sorted, ThreadsInv
    <2>2. Len(taskQueue) = id
      BY <1>3, <2>1
    <2> QED
      BY <1>1, <2>1, <2>2 DEF TypeOK
  <1>14. taskQueue' \in Seq(Task)
    BY <1>10, <1>12, <1>13
  <1>15. main' \in {"split", "sort"} /\ (main' = "sort" <=> skip = 0)
    BY <1>4, <1>10
  <1>16. TypeOK'
    <2>1. prev' \in Nat /\ next' \in Nat /\ next_lineno' \in Nat /\ id' \in Nat
      BY <1>3, <1>4, <1>5, <1>8, <1>10
    <2>2. /\ strbuf' \in Texts /\ started' \in 0 .. NR_THREAD /\ joined' \in 0 .. NR_THREAD
          /\ pc' \in [Thread -> {"none", "wait", "parse", "done"}]
          /\ e' \in [Thread -> Task] /\ globalRoot' \in Lists
      BY <1>1, <1>4, Zenon DEF TypeOK
    <2>3. lists' = <<>>
      BY <1>4, <1>13
    <2>4. main' \in {"split", "sort", "start", "join", "merge", "done",
               "exited", "aborted", "crashed"}
      BY <1>15
    <2> QED
      BY <1>14, <2>1, <2>2, <2>3, <2>4, Zenon DEF TypeOK
  <1>17. ThreadsInv'
    BY <1>1, <1>4, <1>15 DEF ThreadsInv, Sorted
  <1>18. TreeIsText' /\ AbortsOnlyHeadless' /\ ~Sorted'
    BY <1>15 DEF TreeIsText, AbortsOnlyHeadless, Sorted
  <1>19. Cuts(d)'
    <2>4. ASSUME NEW i \in 1 .. id + 1
          PROVE  d[i] = Len(strbuf) + 1 \/ strbuf[d[i]].kind \in ModuleKind
      <3>1. CASE i = id + 1
        <4>1. d[i] = stop
          BY <1>11, <3>1
        <4> QED
          BY <1>8, <4>1 DEF stop, ModuleLines
      <3>2. CASE i # id + 1
        <4>1. i \in 1 .. id /\ i \in 0 .. id
          BY <1>3, <3>2
        <4>2. c[i] = Len(strbuf) + 1 \/ strbuf[c[i]].kind \in ModuleKind
          BY <1>2, <4>1, Zenon DEF TasksInv, Cuts
        <4> QED
          BY <1>11, <4>1, <4>2, Zenon
      <3> QED
        BY <3>1, <3>2
    <2>5. \A i \in 1 .. id' : d[i] = Len(strbuf') + 1 \/ strbuf'[d[i]].kind \in ModuleKind
      BY <1>4, <2>4, Zenon
    <2>1. d \in [0 .. id' -> 1 .. Len(strbuf') + 1] /\ d[0] = 1
          /\ \A i \in 1 .. id' : d[i - 1] < d[i]
      BY <1>4, <1>11, Zenon DEF Ascending
    <2>2. CASE skip = 0
      <3>1. d[id'] = Len(strbuf') + 1 /\ id' > 0 /\ main' = "sort"
        BY <1>3, <1>4, <1>10, <1>11, <2>2 DEF stop
      <3>2. main' \notin {"split", "crashed"}
        BY <3>1
      <3> QED
        BY <1>11, <2>1, <2>5, <3>1, <3>2, Zenon DEF Cuts
    <2>3. CASE skip # 0
      <3>1. d[id'] = skip /\ prev' = skip /\ next' = skip /\ next_lineno' = skip
            /\ main' = "split"
        BY <1>4, <1>10, <1>11, <2>3 DEF stop
      <3>2. skip <= Len(strbuf') /\ skip \in skip .. Len(strbuf')
        BY <1>3, <1>4, <1>8, <2>3
      <3>3. ~(main' \notin {"split", "crashed"})
        BY <3>1
      <3> QED
        BY <1>11, <2>1, <2>5, <3>1, <3>2, <3>3, Zenon DEF Cuts
    <2> QED
      BY <2>2, <2>3
  <1>20. Listed(d)'
    <2> DEFINE q == [k \in 1 .. id + 1 |-> TaskAt(d, k - 1)]
    <2>1. \A k \in 1 .. id : taskQueue[k] = TaskAt(d, k - 1)
      <3> TAKE k \in 1 .. id
      <3>1. k - 1 \in 0 .. id - 1
        BY <1>3
      <3>2. taskQueue[k] = TaskAt(c, k - 1)
        BY <1>13, Zenon
      <3> QED
        BY <1>11, <3>1, <3>2, Zenon
    <2>2. (id + 1) - 1 = id
      BY <1>3
    <2>3. \A k \in 1 .. id + 1 : k \in 1 .. id \/ k = id + 1
      BY <1>3
    <2>4. taskQueue' = [k \in 1 .. id + 1 |-> IF k = id + 1 THEN task ELSE taskQueue[k]]
      <3>1. Append(taskQueue, task) = [k \in 1 .. Len(taskQueue) + 1 |->
                                         IF k = Len(taskQueue) + 1 THEN task ELSE taskQueue[k]]
        <4>1. taskQueue \in Seq(Task) /\ task \in Task
          BY <1>12, <1>13
        <4> QED
          BY <4>1, AppendIs
      <3> QED
        BY <1>10, <1>13, <3>1, Zenon
    <2>5. \A k \in 1 .. id + 1 : (IF k = id + 1 THEN task ELSE taskQueue[k]) = TaskAt(d, k - 1)
      BY <1>12, <2>1, <2>2, <2>3, Zenon
    <2>6. taskQueue' = q
      BY <2>4, <2>5, Zenon
    <2>7. taskQueue' = [k \in 1 .. id' |-> TaskAt(d, k - 1)]
      BY <1>4, <2>6
    <2> QED
      BY <2>7, Zenon DEF Listed
  <1>21. Holding(d)'
    <2>1. \A t \in Thread : pc[t] = "none"
      <3>1. started = 0 /\ \A t \in Thread : t > 0
        BY <1>1, <1>4, ThreadAssumption DEF ThreadsInv, Thread
      <3> QED
        BY <1>1, <3>1, Zenon DEF ThreadsInv
    <2> QED
      BY <1>4, <2>1 DEF Holding
  <1>22. d \in [0 .. id' -> 1 .. Len(strbuf') + 1] /\ TasksInv(d)'
    <2>1. d \in [0 .. id' -> 1 .. Len(strbuf') + 1]
      BY <1>4, <1>11, Zenon DEF Ascending
    <2> QED
      BY <1>18, <1>19, <1>20, <1>21, <2>1, Zenon DEF TasksInv, FlagsFirst, Accounted
  <1> QED
    BY <1>16, <1>17, <1>18, <1>22, Zenon DEF IInv

(* The exit flags come to the front and no task is lost.                    *)
LEMMA SortQueueKeeps == IInv /\ SortQueue => IInv'
  <1> SUFFICES ASSUME IInv, SortQueue PROVE IInv'
    OBVIOUS
  <1>1. TypeOK /\ ThreadsInv
    BY DEF IInv
  <1>2. PICK c \in [0 .. id -> 1 .. Len(strbuf) + 1] : TasksInv(c)
    BY Zenon DEF IInv
  <1>3. /\ main = "sort" /\ main' = "start"
        /\ lists' = [i \in 0 .. id - 1 |-> Unwritten]
        /\ UNCHANGED <<strbuf, prev, next, next_lineno, id, started, joined, pc, e, globalRoot>>
    BY DEF SortQueue, split
  <1>4. Ascending(c, id, Len(strbuf) + 1) /\ Len(strbuf) + 1 \in Nat /\ id \in Nat
    BY <1>1, <1>2, CutsAscend, Basics, Zenon DEF TasksInv
  <1>5. taskQueue = [k \in 1 .. id |-> TaskAt(c, k - 1)]
    BY <1>2, <1>3 DEF TasksInv, Listed, Sorted
  <1>6. /\ taskQueue' \in Seq(Task) /\ Len(taskQueue') = id + NR_THREAD
        /\ \A k \in DOMAIN taskQueue' : IF k <= NR_THREAD THEN taskQueue'[k] = Flag
                                ELSE \E i \in 0 .. id - 1 : taskQueue'[k] = TaskAt(c, i)
        /\ \A i \in 0 .. id - 1 : \E k \in DOMAIN taskQueue' : taskQueue'[k] = TaskAt(c, i)
    <2> DEFINE q == taskQueue \o ExitFlags
    <2>1. PICK p \in Injection(DOMAIN q, DOMAIN q) :
            /\ InOrder([k \in DOMAIN q |-> q[p[k]]])
            /\ taskQueue' = [k \in DOMAIN q |-> q[p[k]]]
      BY Zenon DEF SortQueue
    <2>2. InOrder(taskQueue') /\ taskQueue' = [k \in DOMAIN q |-> q[p[k]]]
      BY <2>1, Zenon
    <2> DEFINE s == taskQueue'
    <2>3. InOrder(s) /\ s = [k \in DOMAIN q |-> q[p[k]]] /\ q = taskQueue \o ExitFlags
      BY <2>2
    <2> HIDE DEF q, s
    <2>4. SortedFlags(s, c, id)
      BY <1>4, <1>5, <2>3, FlagsSortFirst, Zenon
    <2> QED
      BY <2>4, Zenon DEF SortedFlags, s
  <1>7. started = 0 /\ (\A t \in Thread : pc[t] = "none") /\ joined \in Nat
    <2>1. started = 0
      BY <1>1, <1>3 DEF ThreadsInv
    <2>2. \A t \in Thread : t > 0
      BY ThreadAssumption DEF Thread
    <2> QED
      BY <1>1, <2>1, <2>2 DEF ThreadsInv, TypeOK
  <1>8. TypeOK'
    <2>1. Unwritten \in Lists
      BY <1>1, Basics, Zenon
    <2>2. lists' \in [0 .. id' - 1 -> Lists]
      BY <1>3, <2>1
    <2> QED
      BY <1>1, <1>3, <1>6, <2>2 DEF TypeOK
  <1>9. ThreadsInv'
    <2>1. lists' \in [0 .. id' - 1 -> Lists]
      <3>1. Unwritten \in Lists
        BY <1>1, Basics, Zenon
      <3> QED
        BY <1>3, <3>1
    <2>2. started' < NR_THREAD
      BY <1>3, <1>7, ThreadAssumption
    <2> QED
      BY <1>1, <1>3, <2>1, <2>2 DEF ThreadsInv
  <1>10. TreeIsText' /\ AbortsOnlyHeadless' /\ Sorted'
    BY <1>3 DEF TreeIsText, AbortsOnlyHeadless, Sorted
  <1>11. Cuts(c)'
    BY <1>2, <1>3 DEF TasksInv, Cuts
  <1>12. FlagsFirst(c)'
    <2>1. Left' = Thread
      BY <1>3, <1>7 DEF Left
    <2>2. Cardinality(Left') = NR_THREAD /\ NR_THREAD \in Nat
      BY <1>1, <2>1, Basics, Zenon
    <2>3. NR_THREAD <= Len(taskQueue') /\ ~(NR_THREAD < NR_THREAD)
      BY <1>4, <1>6, <2>2
    <2> QED
      BY <1>3, <1>6, <2>2, <2>3 DEF FlagsFirst
  <1>13. Accounted(c)' /\ Holding(c)' /\ Listed(c)'
    BY <1>3, <1>6, <1>7, <1>10 DEF Accounted, Queued, Holding, Listed
  <1> QED
    BY <1>3, <1>8, <1>9, <1>10, <1>11, <1>12, <1>13, <1>2, Zenon DEF IInv, TasksInv

(* A thread is started.                                                     *)
LEMMA StartThreadKeeps == IInv /\ StartThread => IInv'
  <1> SUFFICES ASSUME IInv, StartThread PROVE IInv'
    OBVIOUS
  <1>1. TypeOK /\ ThreadsInv
    BY DEF IInv
  <1>2. PICK c \in [0 .. id -> 1 .. Len(strbuf) + 1] : TasksInv(c)
    BY Zenon DEF IInv
  <1>3. /\ main = "start" /\ started' = started + 1
        /\ pc' = [pc EXCEPT ![started + 1] = "wait"]
        /\ main' = IF started + 1 = NR_THREAD THEN "join" ELSE "start"
        /\ UNCHANGED <<strbuf, prev, next, next_lineno, id, taskQueue, joined, e, lists,
                       globalRoot>>
    BY DEF StartThread, split
  <1>4. /\ started \in Nat /\ joined \in Nat /\ NR_THREAD \in Nat /\ Thread = 1 .. NR_THREAD
        /\ started < NR_THREAD /\ started + 1 \in Thread
    BY <1>1, <1>3, ThreadAssumption DEF ThreadsInv, TypeOK, Thread
  <1>5. /\ pc[started + 1] = "none"
        /\ \A t \in Thread : t # started + 1 => pc'[t] = pc[t]
        /\ pc'[started + 1] = "wait" /\ pc' \in [Thread -> {"none", "wait", "parse", "done"}]
    <2>1. started + 1 > started
      BY <1>4
    <2>2. pc[started + 1] = "none"
      BY <1>1, <1>4, <2>1 DEF ThreadsInv
    <2>3. pc \in [Thread -> {"none", "wait", "parse", "done"}]
      BY <1>1 DEF TypeOK
    <2> QED
      BY <1>3, <1>4, <2>2, <2>3
  <1>6. main' \in {"start", "join"} /\ Sorted /\ Sorted'
    BY <1>3 DEF Sorted
  <1>7. TypeOK'
    <2>1. started' \in 0 .. NR_THREAD
      BY <1>3, <1>4
    <2> QED
      BY <1>1, <1>3, <1>5, <1>6, <2>1 DEF TypeOK
  <1>8. joined <= started
    <2> SUFFICES ASSUME joined > started PROVE FALSE
      BY <1>4
    <2>1. started + 1 <= joined
      BY <1>4
    <2>2. pc[started + 1] = "done"
      BY <1>1, <1>4, <2>1 DEF ThreadsInv
    <2> QED
      BY <1>5, <2>2
  <1>9. ThreadsInv'
    <2>1. ASSUME NEW t \in Thread PROVE pc'[t] = "none" <=> t > started'
      <3>1. CASE t = started + 1
        BY <1>3, <1>4, <1>5, <3>1
      <3>2. CASE t # started + 1
        <4>1. t > started <=> t > started'
          BY <1>3, <1>4, <3>2
        <4> QED
          BY <1>1, <1>5, <3>2, <4>1 DEF ThreadsInv
      <3> QED
        BY <3>1, <3>2
    <2>2. ASSUME NEW t \in Thread, t <= joined' PROVE pc'[t] = "done"
      <3>1. t # started + 1
        BY <1>3, <1>4, <1>8, <2>2
      <3> QED
        BY <1>1, <1>3, <1>5, <2>2, <3>1 DEF ThreadsInv
    <2>3. main' = "start" => started' < NR_THREAD
      BY <1>3, <1>4
    <2>4. main' = "join" => joined' < NR_THREAD
      BY <1>3, <1>4, <1>8
    <2>5. lists' \in [0 .. id' - 1 -> Lists]
      BY <1>1, <1>3, <1>6 DEF ThreadsInv
    <2> QED
      BY <1>6, <2>1, <2>2, <2>3, <2>4, <2>5 DEF ThreadsInv
  <1>10. TreeIsText' /\ AbortsOnlyHeadless'
    BY <1>6 DEF TreeIsText, AbortsOnlyHeadless
  <1>11. Cuts(c)'
    <2>1. main \notin {"split", "crashed"} /\ main' \notin {"split", "crashed"}
      BY <1>3, <1>6
    <2> QED
      BY <1>2, <1>3, <2>1, Zenon DEF TasksInv, Cuts
  <1>12. Left' = Left
    BY <1>4, <1>5 DEF Left
  <1>13. FlagsFirst(c)'
    BY <1>2, <1>3, <1>6, <1>12, Zenon DEF TasksInv, FlagsFirst
  <1>14. \A t \in Thread : pc'[t] = "parse" <=> pc[t] = "parse"
    BY <1>5
  <1>15. Holding(c)' /\ Listed(c)'
    <2>1. Holding(c)'
      BY <1>2, <1>3, <1>14, Zenon DEF TasksInv, Holding
    <2> QED
      BY <1>6, <2>1, Zenon DEF Listed
  <1>16. Accounted(c)'
    <2> SUFFICES ASSUME NEW i \in 0 .. id - 1
                 PROVE  Queued(c, i)' \/ Held(c, i)' \/ Stored(c, i)'
      BY <1>3, Zenon DEF Accounted
    <2>1. Queued(c, i) \/ Held(c, i) \/ Stored(c, i)
      BY <1>2, <1>6, Zenon DEF TasksInv, Accounted
    <2>2. Queued(c, i) => Queued(c, i)'
      BY <1>3, Zenon DEF Queued
    <2>3. Held(c, i) => Held(c, i)'
      BY <1>3, <1>14, Zenon DEF Held
    <2>4. Stored(c, i) => Stored(c, i)'
      <3>1. main # "aborted"
        BY <1>3
      <3> QED
        BY <1>3, <3>1, SameText, Zenon DEF Stored, ModulesIn
    <2> QED
      BY <2>1, <2>2, <2>3, <2>4, Zenon
  <1> QED
    BY <1>2, <1>3, <1>7, <1>9, <1>10, <1>11, <1>13, <1>15, <1>16, Zenon DEF IInv, TasksInv

----------------------------------------------------------------------------
(* The steps of the threads.                                                *)

(* The last element of the queue, and the rest.                             *)
LEMMA QueueEnds ==
  ASSUME NEW T, NEW q \in Seq(T), q # <<>>
  PROVE  /\ Len(q) \in Nat /\ Len(q) > 0 /\ Last(q) = q[Len(q)] /\ Last(q) \in T
         /\ Front(q) \in Seq(T) /\ Len(Front(q)) = Len(q) - 1
         /\ DOMAIN q = 1 .. Len(q) /\ DOMAIN Front(q) = 1 .. Len(q) - 1
         /\ \A k \in 1 .. Len(q) - 1 : Front(q)[k] = q[k]
  <1>1. Front(q) = [k \in 1 .. Len(q) - 1 |-> q[k]]
    BY DEF Front
  <1>2. Len(q) \in Nat /\ Len(q) > 0 /\ Last(q) = q[Len(q)]
    BY DEF Last
  <1> QED
    BY <1>1, <1>2

(* No thread runs before the sort.                                          *)
LEMMA RunsSorted ==
  ASSUME TypeOK, ThreadsInv, NEW t \in Thread, pc[t] # "none"
  PROVE  Sorted /\ t <= started /\ main \notin {"split", "crashed", "sort"}
  <1>1. t \in Nat /\ t > 0 /\ started \in Nat
    BY ThreadAssumption DEF Thread, TypeOK
  <1>2. ~(t > started)
    BY Zenon DEF ThreadsInv
  <1>3. started # 0 /\ t <= started
    BY <1>1, <1>2
  <1>4. main \notin {"split", "crashed", "sort"}
    BY <1>3 DEF ThreadsInv
  <1> QED
    BY <1>3, <1>4 DEF Sorted

(* The threads that have not ended.                                         *)
LEMMA LeftType ==
  ASSUME TypeOK
  PROVE  /\ IsFiniteSet(Left) /\ Cardinality(Left) \in Nat /\ Cardinality(Left) <= NR_THREAD
         /\ \A t \in Left : Cardinality(Left \ {t}) = Cardinality(Left) - 1
         /\ \A t \in Left : Cardinality(Left) > 0
  <1>1. Left \in SUBSET Thread
    BY DEF Left
  <1>2. IsFiniteSet(Thread) /\ Cardinality(Thread) = NR_THREAD
    BY Basics, Zenon
  <1>3. IsFiniteSet(Left) /\ Cardinality(Left) <= NR_THREAD
    BY <1>1, <1>2, FS_Subset, Zenon
  <1>4. Cardinality(Left) \in Nat
    BY <1>3, FS_CardinalityType, Zenon
  <1>5. \A t \in Left : Cardinality(Left \ {t}) = Cardinality(Left) - 1
    BY <1>3, FS_RemoveElement, Zenon
  <1>6. \A t \in Left : Cardinality(Left) # 0
    BY <1>3, FS_EmptySet, Zenon
  <1> HIDE DEF Left
  <1> QED
    BY <1>3, <1>4, <1>5, <1>6

(* A thread takes the last element: a task, while there is one, or its      *)
(* flag.                                                                    *)
LEMMA TakeKeeps ==
  ASSUME IInv, NEW t \in Thread, Take(t)
  PROVE  IInv'
  <1>1. TypeOK /\ ThreadsInv
    BY DEF IInv
  <1>2. PICK c \in [0 .. id -> 1 .. Len(strbuf) + 1] : TasksInv(c)
    BY Zenon DEF IInv
  <1> DEFINE x == Last(taskQueue)
             L == Len(taskQueue)
             n == Cardinality(Left)
             to == IF x.id = -1 THEN "done" ELSE "parse"
  <1>3. pc[t] = "wait" /\ taskQueue # <<>> /\ taskQueue \in Seq(Task)
    BY <1>1 DEF Take, TypeOK
  <1>4. /\ L \in Nat /\ L > 0 /\ x = taskQueue[L] /\ x \in Task
        /\ Front(taskQueue) \in Seq(Task) /\ Len(Front(taskQueue)) = L - 1
        /\ DOMAIN taskQueue = 1 .. L /\ DOMAIN Front(taskQueue) = 1 .. L - 1
        /\ \A k \in 1 .. L - 1 : Front(taskQueue)[k] = taskQueue[k]
    <2>1. taskQueue \in Seq(Task) /\ taskQueue # <<>>
      BY <1>3
    <2> QED
      BY <2>1, QueueEnds, Zenon
  <1>5. e' = [e EXCEPT ![t] = x] /\ e'[t] = x /\ e' \in [Thread -> Task]
    <2>1. e \in [Thread -> Task] /\ x \in Task
      BY <1>1, <1>4, Zenon DEF TypeOK
    <2>2. e' = [e EXCEPT ![t] = x]
      BY Zenon DEF Take
    <2> HIDE DEF x
    <2> QED
      BY <2>1, <2>2
  <1>6. /\ taskQueue' = Front(taskQueue) /\ pc' = [pc EXCEPT ![t] = to]
        /\ UNCHANGED <<main, strbuf, prev, next, next_lineno, id, started, joined, lists,
                       globalRoot>>
    BY <1>5, Zenon DEF Take, split
  <1>7. Sorted /\ Sorted' /\ t <= started /\ main \notin {"split", "crashed", "sort"}
    BY <1>1, <1>3, <1>6, RunsSorted DEF Sorted
  <1> HIDE DEF x, L
  <1>8. /\ pc' \in [Thread -> {"none", "wait", "parse", "done"}]
        /\ pc'[t] = to /\ to \in {"done", "parse"}
        /\ \A u \in Thread : u # t => pc'[u] = pc[u] /\ e'[u] = e[u]
    <2>1. /\ pc \in [Thread -> {"none", "wait", "parse", "done"}]
          /\ e \in [Thread -> Task] /\ to \in {"done", "parse"}
      BY <1>1 DEF TypeOK
    <2> HIDE DEF to
    <2> QED
      BY <1>5, <1>6, <2>1
  <1>9. TypeOK'
    <2>1. taskQueue' \in Seq(Task)
      BY <1>4, <1>6
    <2>2. /\ pc' \in [Thread -> {"none", "wait", "parse", "done"}] /\ e' \in [Thread -> Task]
      BY <1>5, <1>8
    <2> QED
      BY <1>1, <1>6, <2>1, <2>2, Zenon DEF TypeOK
  <1>10. ThreadsInv'
    <2>1. \A u \in Thread : pc'[u] = "none" <=> pc[u] = "none"
      BY <1>3, <1>8
    <2>2. \A u \in Thread : pc[u] = "done" => pc'[u] = "done"
      BY <1>3, <1>8
    <2>3. lists' \in [0 .. id' - 1 -> Lists]
      BY <1>1, <1>6, <1>7 DEF ThreadsInv
    <2> QED
      BY <1>1, <1>6, <1>7, <2>1, <2>2, <2>3 DEF ThreadsInv
  <1>11. TreeIsText' /\ AbortsOnlyHeadless'
    <2>1. TreeIsText /\ AbortsOnlyHeadless
      BY DEF IInv
    <2>2. TreeIsText'
      BY <1>6, <2>1, SameText, Zenon DEF TreeIsText
    <2> QED
      BY <1>6, <2>1, <2>2 DEF AbortsOnlyHeadless
  <1>12. Cuts(c)' /\ Listed(c)'
    BY <1>2, <1>6, <1>7 DEF TasksInv, Cuts, Listed
  <1>13. /\ n \in Nat /\ n > 0 /\ t \in Left /\ Cardinality(Left \ {t}) = n - 1
         /\ n <= NR_THREAD /\ NR_THREAD \in Nat
    <2>1. t \in Left
      BY <1>3 DEF Left
    <2> QED
      BY <1>1, <2>1, LeftType, ThreadAssumption, Zenon
  <1>14. /\ n <= L /\ (n < NR_THREAD => L = n)
         /\ \A k \in 1 .. L : IF k <= n THEN taskQueue[k] = Flag
                              ELSE \E i \in 0 .. id - 1 : taskQueue[k] = TaskAt(c, i)
    BY <1>2, <1>4, <1>7, Zenon DEF TasksInv, FlagsFirst, L
  <1>20. n <= L /\ (n < NR_THREAD => L = n)
    BY <1>14, Zenon
  <1>15. Ascending(c, id, Len(strbuf) + 1) /\ Len(strbuf) + 1 \in Nat /\ id \in Nat
    BY <1>1, <1>2, CutsAscend, Basics, Zenon DEF TasksInv
  <1>16. Flag.id = -1 /\ \A i \in 0 .. id - 1 : TaskAt(c, i).id # -1
    <2>1. Flag.id = -1
      BY DEF Flag
    <2>2. \A i \in 0 .. id - 1 : TaskAt(c, i).id = i /\ i # -1
      <3> TAKE i \in 0 .. id - 1
      <3>1. TaskAt(c, i).id = i
        BY DEF TaskAt
      <3> QED
        BY <1>15, <3>1
    <2> QED
      BY <2>1, <2>2, Zenon
  <1>17. /\ taskQueue' \in Seq(Task) /\ Len(taskQueue') = L - 1 /\ DOMAIN taskQueue' = 1 .. L - 1
         /\ \A k \in 1 .. L - 1 : taskQueue'[k] = taskQueue[k]
    BY <1>4, <1>6, Zenon
  <1>18. CASE x.id = -1
    <2>1. L = n
      <3> SUFFICES ASSUME L # n PROVE FALSE
        OBVIOUS
      <3>1. L \in 1 .. L /\ ~(L <= n)
        <4> HIDE DEF n
        <4> QED
          BY <1>4, <1>13, <1>20
      <3>2. PICK i \in 0 .. id - 1 : taskQueue[L] = TaskAt(c, i)
        BY <1>14, <3>1, Zenon
      <3>3. x.id = TaskAt(c, i).id
        BY <1>4, <3>2, Zenon
      <3> QED
        BY <1>16, <1>18, <3>3, Zenon
    <2>2. pc'[t] = "done"
      BY <1>8, <1>18
    <2>3. Left' = Left \ {t}
      BY <1>8, <2>2 DEF Left
    <2>4. Cardinality(Left') = L - 1
      BY <1>13, <2>1, <2>3
    <2>5. FlagsFirst(c)'
      <3>1. \A k \in 1 .. L - 1 : k <= L - 1 /\ taskQueue'[k] = Flag
        <4> TAKE k \in 1 .. L - 1
        <4>1. k \in 1 .. L /\ k <= n /\ k <= L - 1
          BY <1>4, <2>1
        <4>2. taskQueue[k] = Flag
          BY <1>14, <4>1, Zenon
        <4> QED
          BY <1>17, <4>1, <4>2
      <3>2. L - 1 <= L - 1
        BY <1>4
      <3> QED
        BY <1>17, <2>4, <3>1, <3>2, Zenon DEF FlagsFirst
    <2>6. Holding(c)'
      <3> SUFFICES ASSUME NEW u \in Thread, pc'[u] = "parse"
                   PROVE  \E i \in 0 .. id - 1 : e'[u] = TaskAt(c, i)
        BY <1>6 DEF Holding
      <3>1. u # t
        BY <2>2
      <3>2. pc[u] = "parse" /\ e'[u] = e[u]
        BY <1>8, <3>1
      <3> QED
        BY <1>2, <3>2, Zenon DEF TasksInv, Holding
    <2>7. Accounted(c)'
      <3> SUFFICES ASSUME NEW i \in 0 .. id - 1
                   PROVE  Queued(c, i)' \/ Held(c, i)' \/ Stored(c, i)'
        BY <1>6, Zenon DEF Accounted
      <3>1. ~Queued(c, i)
        <4> SUFFICES ASSUME NEW k \in 1 .. L, taskQueue[k] = TaskAt(c, i) PROVE FALSE
          BY <1>4, Zenon DEF Queued
        <4>1. k <= n
          BY <1>4, <2>1
        <4>2. taskQueue[k] = Flag
          BY <1>14, <4>1, Zenon
        <4> QED
          BY <1>16, <4>2, Zenon
      <3>2. Held(c, i) => Held(c, i)'
        <4> SUFFICES ASSUME NEW u \in Thread, pc[u] = "parse", e[u] = TaskAt(c, i)
                     PROVE  Held(c, i)'
          BY DEF Held
        <4>1. u # t
          BY <1>3
        <4> QED
          BY <1>8, <4>1, Zenon DEF Held
      <3>3. Stored(c, i) => Stored(c, i)'
        BY <1>6, SameText, Zenon DEF Stored, ModulesIn
      <3>4. Queued(c, i) \/ Held(c, i) \/ Stored(c, i)
        BY <1>2, <1>7, Zenon DEF TasksInv, Accounted
      <3> QED
        BY <3>1, <3>2, <3>3, <3>4, Zenon
    <2> QED
      BY <1>2, <1>6, <1>9, <1>10, <1>11, <1>12, <2>5, <2>6, <2>7, Zenon DEF IInv, TasksInv
  <1>19. CASE x.id # -1
    <2>1. L > n /\ n = NR_THREAD
      <3>1. L # n
        <4> SUFFICES ASSUME L = n PROVE FALSE
          OBVIOUS
        <4>1. L \in 1 .. L /\ L <= n
          BY <1>4
        <4>2. taskQueue[L] = Flag
          BY <1>14, <4>1, Zenon
        <4> QED
          BY <1>4, <1>16, <1>19, <4>2, Zenon
      <3> HIDE DEF n
      <3> QED
        BY <1>4, <1>13, <1>20, <3>1
    <2>2. pc'[t] = "parse"
      BY <1>8, <1>19
    <2>3. Left' = Left
      BY <1>3, <1>8, <2>2 DEF Left
    <2>4. PICK j \in 0 .. id - 1 : x = TaskAt(c, j)
      <3>1. L \in 1 .. L /\ ~(L <= n)
        BY <1>4, <1>13, <2>1
      <3>2. \E j \in 0 .. id - 1 : taskQueue[L] = TaskAt(c, j)
        BY <1>14, <3>1, Zenon
      <3> QED
        BY <1>4, <3>2, Zenon
    <2>5. FlagsFirst(c)'
      <3>1. \A k \in 1 .. L - 1 : k \in 1 .. L
        BY <1>4
      <3>2. n <= L - 1 /\ ~(n < NR_THREAD)
        BY <1>4, <1>13, <2>1
      <3>3. \A k \in 1 .. L - 1 : IF k <= n THEN taskQueue'[k] = Flag
                              ELSE \E i \in 0 .. id' - 1 : taskQueue'[k] = TaskAt(c, i)
        BY <1>6, <1>14, <1>17, <3>1
      <3> HIDE DEF n
      <3>4. Cardinality(Left') = n
        BY <2>3 DEF n
      <3> QED
        BY <1>17, <3>2, <3>3, <3>4, Zenon DEF FlagsFirst
    <2>6. Holding(c)'
      <3> SUFFICES ASSUME NEW u \in Thread, pc'[u] = "parse"
                   PROVE  \E i \in 0 .. id - 1 : e'[u] = TaskAt(c, i)
        BY <1>6 DEF Holding
      <3>1. CASE u = t
        BY <1>5, <2>4, <3>1, Zenon
      <3>2. CASE u # t
        <4>1. pc[u] = "parse" /\ e'[u] = e[u]
          BY <1>8, <3>2
        <4> QED
          BY <1>2, <4>1, Zenon DEF TasksInv, Holding
      <3> QED
        BY <3>1, <3>2
    <2>7. Accounted(c)'
      <3> SUFFICES ASSUME NEW i \in 0 .. id - 1
                   PROVE  Queued(c, i)' \/ Held(c, i)' \/ Stored(c, i)'
        BY <1>6, Zenon DEF Accounted
      <3>1. Queued(c, i) => Queued(c, i)' \/ Held(c, i)'
        <4> SUFFICES ASSUME NEW k \in 1 .. L, taskQueue[k] = TaskAt(c, i)
                     PROVE  Queued(c, i)' \/ Held(c, i)'
          BY <1>4, Zenon DEF Queued
        <4>1. CASE k = L
          <5>1. e'[t] = TaskAt(c, i)
            BY <1>4, <1>5, <4>1
          <5> QED
            BY <2>2, <5>1, Zenon DEF Held
        <4>2. CASE k # L
          <5>1. k \in 1 .. L - 1
            BY <1>4, <4>2
          <5> QED
            BY <1>17, <5>1, Zenon DEF Queued
        <4> QED
          BY <4>1, <4>2
      <3>2. Held(c, i) => Held(c, i)'
        <4> SUFFICES ASSUME NEW u \in Thread, pc[u] = "parse", e[u] = TaskAt(c, i)
                     PROVE  Held(c, i)'
          BY DEF Held
        <4>1. u # t
          BY <1>3
        <4> QED
          BY <1>8, <4>1, Zenon DEF Held
      <3>3. Stored(c, i) => Stored(c, i)'
        BY <1>6, SameText, Zenon DEF Stored, ModulesIn
      <3>4. Queued(c, i) \/ Held(c, i) \/ Stored(c, i)
        BY <1>2, <1>7, Zenon DEF TasksInv, Accounted
      <3> QED
        BY <3>1, <3>2, <3>3, <3>4, Zenon
    <2> QED
      BY <1>2, <1>6, <1>9, <1>10, <1>11, <1>12, <2>5, <2>6, <2>7, Zenon DEF IInv, TasksInv
  <1> QED
    BY <1>18, <1>19

(* The lines from a to b - 1, as a text of their own.                       *)
LEMMA PartOfText ==
  ASSUME strbuf \in Seq(Line), NEW a \in Nat, NEW b \in Nat, a >= 1, a < b,
         b <= Len(strbuf) + 1, NEW lines, lines = SubSeq(strbuf, a, b - 1)
  PROVE  /\ lines \in Seq(Line) /\ lines # <<>> /\ Len(lines) = b - a
         /\ Modules(lines, Len(lines)) \in SUBSET Nat
         /\ \A m \in Modules(lines, Len(lines)) : m >= 1
         /\ {a + m - 1 : m \in Modules(lines, Len(lines))} = ModulesIn(a, b - 1)
         /\ lines = [m \in 1 .. b - a |-> strbuf[a + m - 1]]
         /\ a = 1 /\ Headed(strbuf) => Headed(lines)
  <1>1. Len(strbuf) \in Nat /\ a \in 1 .. Len(strbuf) /\ b - 1 \in a .. Len(strbuf)
    BY SMT
  <1>2. lines \in Seq(Line) /\ Len(lines) = b - a
        /\ lines = [m \in 1 .. b - a |-> strbuf[a + m - 1]]
    <2>1. lines = [m \in 1 .. (b - 1) - a + 1 |-> strbuf[a + m - 1]]
      BY <1>1
    <2>2. (b - 1) - a + 1 = b - a /\ b - a \in Nat
      BY <1>1
    <2>3. \A m \in 1 .. b - a : a + m - 1 \in 1 .. Len(strbuf)
      BY <1>1
    <2>4. \A j \in 1 .. Len(strbuf) : strbuf[j] \in Line
      BY <1>1
    <2>5. lines = [m \in 1 .. b - a |-> strbuf[a + m - 1]]
      BY <2>1, <2>2
    <2>6. lines \in [1 .. b - a -> Line]
      BY <2>3, <2>4, <2>5
    <2>7. lines \in Seq(Line) /\ Len(lines) = b - a
      BY <2>2, <2>6, SeqOfValues, Zenon
    <2> QED
      BY <2>5, <2>7
  <1>3. lines # <<>> /\ \A m \in 1 .. b - a : lines[m] = strbuf[a + m - 1]
    <2>1. b - a > 0
      BY <1>1
    <2> QED
      BY <1>2, <2>1
  <1>4. Modules(lines, Len(lines)) = {m \in 1 .. b - a : strbuf[a + m - 1].kind \in ModuleKind}
    BY <1>2, <1>3 DEF Modules
  <1> DEFINE M == {m \in 1 .. b - a : strbuf[a + m - 1].kind \in ModuleKind}
  <1>5. {a + m - 1 : m \in M} = ModulesIn(a, b - 1)
    <2>1. \A m \in M : a + m - 1 \in ModulesIn(a, b - 1)
      BY <1>1 DEF ModulesIn
    <2>2. \A k \in ModulesIn(a, b - 1) : k - a + 1 \in M /\ k = a + (k - a + 1) - 1
      <3> TAKE k \in ModulesIn(a, b - 1)
      <3>1. k \in a .. b - 1 /\ k \in Nat /\ strbuf[k].kind \in ModuleKind
        BY DEF ModulesIn
      <3>2. k - a + 1 \in 1 .. b - a /\ k = a + (k - a + 1) - 1
        BY <3>1
      <3> QED
        BY <3>1, <3>2
    <2> HIDE DEF M
    <2>3. \A k \in ModulesIn(a, b - 1) : \E m \in M : k = a + m - 1
      BY <2>2
    <2> QED
      BY <2>1, <2>3
  <1>6. M \in SUBSET Nat /\ \A m \in M : m >= 1
    BY <1>1
  <1>7. a = 1 /\ Headed(strbuf) => Headed(lines)
    <2> SUFFICES ASSUME a = 1, Headed(strbuf) PROVE Headed(lines)
      OBVIOUS
    <2>1. 1 \in 1 .. b - a /\ a + 1 - 1 = 1
      BY <1>1
    <2>2. lines[1] = strbuf[1]
      BY <1>2, <2>1
    <2> QED
      BY <2>2, Zenon DEF Headed
  <1> HIDE DEF M
  <1>8. /\ Modules(lines, Len(lines)) = M
    BY <1>4, Zenon DEF M
  <1> QED
    BY <1>2, <1>3, <1>5, <1>6, <1>7, <1>8, Zenon

(* The line of a node in a part of the text, which a module line or nothing *)
(* follows, is that of what follows its module in the whole text.           *)
LEMMA MovedBehind ==
  ASSUME strbuf \in Seq(Line), NEW a \in Nat, NEW b \in Nat, a >= 1, a < b,
         b <= Len(strbuf) + 1, b = Len(strbuf) + 1 \/ strbuf[b].kind \in ModuleKind,
         NEW lines \in Seq(Line), Len(lines) = b - a,
         lines = [m \in 1 .. b - a |-> strbuf[a + m - 1]],
         NEW x \in PNode, FollowsIn(x, lines)
  PROVE  NumberedBehind(Node(a + x.module - 1, a + x.lineno - 1))
  <1> DEFINE m == x.module
             l == x.lineno
             y == Node(a + m - 1, a + l - 1)
             n == Len(strbuf)
  <1>1. /\ n \in Nat /\ DOMAIN strbuf = 1 .. n /\ m \in Nat /\ l \in Nat
        /\ l \in m + 1 .. b - a
    BY DEF FollowsIn, PNode
  <1>2. y.module = a + m - 1 /\ y.lineno = a + l - 1
    BY DEF Node
  <1>3. \A k \in m + 1 .. l - 1 : lines[k].kind \notin ModuleKind
    BY DEF FollowsIn
  <1>4. \/ lines[l].kind \in ModuleKind
        \/ l = b - a /\ lines[l].kind = "blank"
    BY DEF FollowsIn, Last
  <1> HIDE DEF m, l, y, n
  <1>5. y.lineno \in y.module + 1 .. n
    BY <1>1, <1>2 DEF n
  <1>6. \A k \in y.module + 1 .. y.lineno - 1 : k \notin ModuleLines
    <2> SUFFICES ASSUME NEW k \in y.module + 1 .. y.lineno - 1 PROVE k \notin ModuleLines
      OBVIOUS
    <2>1. /\ k - a + 1 \in m + 1 .. l - 1 /\ k - a + 1 \in 1 .. b - a
          /\ a + (k - a + 1) - 1 = k
      BY <1>1, <1>2
    <2>2. lines[k - a + 1].kind \notin ModuleKind
      BY <1>3, <2>1
    <2>3. lines[k - a + 1] = strbuf[a + (k - a + 1) - 1]
      BY <2>1
    <2>4. strbuf[k].kind \notin ModuleKind
      BY <2>1, <2>2, <2>3
    <2> QED
      BY <2>4, Zenon DEF ModuleLines
  <1>7. /\ l \in 1 .. b - a /\ lines[l] = strbuf[y.lineno] /\ y.lineno \in DOMAIN strbuf
    <2>1. l \in 1 .. b - a /\ a + l - 1 \in 1 .. n
      BY <1>1 DEF n
    <2> QED
      BY <1>1, <1>2, <2>1
  <1>8. CASE lines[l].kind \in ModuleKind
    <2>1. y.lineno \in ModuleLines
      BY <1>7, <1>8 DEF ModuleLines
    <2> QED
      BY <1>5, <1>6, <2>1, Zenon DEF NumberedBehind, y, m, l, n
  <1>9. CASE l = b - a /\ lines[l].kind = "blank"
    <2>1. y.lineno + 1 = b
      BY <1>1, <1>2, <1>9
    <2>2. b \in ModuleLines \cup {n + 1}
      <3>1. b = n + 1 \/ b \in 1 .. n
        BY <1>1 DEF n
      <3> QED
        BY <1>1, <3>1, Zenon DEF ModuleLines, n
    <2>3. strbuf[y.lineno].kind = "blank"
      BY <1>7, <1>9
    <2>4. y.lineno + 1 \in ModuleLines \cup {Len(strbuf) + 1}
      BY <2>1, <2>2, Zenon DEF n
    <2> QED
      BY <1>5, <1>6, <2>3, <2>4, Zenon DEF NumberedBehind, y, m, l, n
  <1> QED
    BY <1>4, <1>8, <1>9

(* What a thread makes of task i.                                           *)
LEMMA ParsedPart ==
  ASSUME TypeOK, NEW c, Ascending(c, id, Len(strbuf) + 1), c[0] = 1, NEW i \in 0 .. id - 1,
         c[i + 1] = Len(strbuf) + 1 \/ strbuf[c[i + 1]].kind \in ModuleKind,
         NEW p \in Parsed, p.part = TaskText(TaskAt(c, i))
  PROVE  /\ p.result.ok \in BOOLEAN /\ p.result.root \in BOOLEAN
         /\ p.result.ok =>
              LET list == Numbered(p.result.list, TaskAt(c, i))
              IN /\ list \in Seq(PNode) /\ Enumerates(list, ModulesIn(c[i], c[i + 1] - 1))
                 /\ \A node \in Range(list) : NumberedBehind(node)
         /\ p.result.ok /\ i = 0 /\ Headed(strbuf) => p.result.root
  <1> DEFINE lines == p.part
             a == c[i]
             b == c[i + 1]
  <1>1. /\ strbuf \in Seq(Line) /\ id \in Nat /\ Len(strbuf) + 1 \in Nat
    BY Basics, Zenon
  <1>2. a \in Nat /\ b \in Nat /\ a >= 1 /\ a < b /\ b <= Len(strbuf) + 1
    <2>1. i \in 0 .. id /\ i + 1 \in 0 .. id /\ i + 1 \in 1 .. id /\ (i + 1) - 1 = i
      BY <1>1
    <2>2. c[(i + 1) - 1] < c[i + 1]
      BY <2>1, Zenon DEF Ascending
    <2>3. c[i] < c[i + 1]
      BY <2>1, <2>2
    <2> QED
      BY <1>1, <2>1, <2>3, AscendingParts, Zenon
  <1>3. lines = SubSeq(strbuf, a, b - 1)
    <2>1. TaskAt(c, i).offset = a /\ TaskAt(c, i).len = b - a
      BY DEF TaskAt
    <2>2. a + (b - a) - 1 = b - 1
      BY <1>2
    <2> QED
      BY <2>1, <2>2 DEF TaskText
  <1>4. p.result = Parse(lines)
    BY DEF Parsed
  <1> HIDE DEF lines, a, b
  <1>5. /\ lines \in Seq(Line) /\ lines # <<>>
        /\ Modules(lines, Len(lines)) \in SUBSET Nat
        /\ \A m \in Modules(lines, Len(lines)) : m >= 1
        /\ {a + m - 1 : m \in Modules(lines, Len(lines))} = ModulesIn(a, b - 1)
        /\ a = 1 /\ Headed(strbuf) => Headed(lines)
        /\ Len(lines) = b - a /\ lines = [m \in 1 .. b - a |-> strbuf[a + m - 1]]
    BY <1>1, <1>2, <1>3, PartOfText, Zenon
  <1> DEFINE r == Parse(lines)
  <1>6. /\ r.ok \in BOOLEAN /\ r.root \in BOOLEAN /\ r.list \in Seq(PNode)
        /\ r.ok => Enumerates(r.list, Modules(lines, Len(lines)))
        /\ r.ok => \A x \in Range(r.list) : FollowsIn(x, lines)
        /\ r.ok /\ Headed(lines) => r.root
    BY <1>5, ParseLists, Zenon
  <1> HIDE DEF r
  <1> DEFINE task == TaskAt(c, i)
             list == Numbered(r.list, task)
  <1>7. r.ok => /\ list \in Seq(PNode) /\ Enumerates(list, ModulesIn(a, b - 1))
                /\ \A node \in Range(list) : NumberedBehind(node)
    <2> SUFFICES ASSUME r.ok
                 PROVE  /\ list \in Seq(PNode) /\ Enumerates(list, ModulesIn(a, b - 1))
                        /\ \A node \in Range(list) : NumberedBehind(node)
      OBVIOUS
    <2>1. task.offset = a /\ task.lineno = a
      BY DEF TaskAt, a
    <2>2. \A x \in Range(r.list) : x \in PNode
      BY <1>6 DEF Range
    <2>3. \A x \in Range(r.list) : x.lineno >= 1
      <3> SUFFICES ASSUME NEW x \in Range(r.list) PROVE x.lineno >= 1
        OBVIOUS
      <3>1. x.lineno \in x.module + 1 .. Len(lines) /\ x.module \in Nat /\ Len(lines) \in Nat
        BY <1>5, <1>6, <2>2 DEF FollowsIn, PNode
      <3> QED
        BY <3>1
    <2> HIDE DEF task
    <2> DEFINE M == Modules(lines, Len(lines))
               s == r.list
    <2>7. /\ s \in Seq(PNode) /\ M \in SUBSET Nat /\ Enumerates(s, M)
          /\ FromOne(s, M)
      BY <1>5, <1>6, <2>3 DEF FromOne
    <2>8. /\ {a + m - 1 : m \in M} = ModulesIn(a, b - 1) /\ list = Numbered(s, task)
          /\ \A x \in Range(s) : x \in PNode /\ FollowsIn(x, lines)
      BY <1>5, <1>6, <2>2
    <2> HIDE DEF M, s, list
    <2>4. /\ Numbered(s, task) \in Seq(PNode)
          /\ Enumerates(Numbered(s, task), {a + m - 1 : m \in M})
          /\ MovedBy(Numbered(s, task), s, a)
      BY <1>2, <2>1, <2>7, EnumerateMoved, Zenon
    <2>5. b = Len(strbuf) + 1 \/ strbuf[b].kind \in ModuleKind
      BY DEF b
    <2>6. ASSUME NEW y \in Range(list) PROVE NumberedBehind(y)
      <3>1. PICK x \in Range(s) : y = Node(a + x.module - 1, a + x.lineno - 1)
        BY <2>4, <2>8, Zenon DEF MovedBy
      <3>2. x \in PNode /\ FollowsIn(x, lines)
        BY <2>8
      <3> QED
        BY <1>1, <1>2, <1>5, <2>5, <3>1, <3>2, MovedBehind, Zenon
    <2> QED
      BY <2>4, <2>6, <2>8, Zenon
  <1>8. i = 0 => a = 1
    BY DEF a
  <1> QED
    BY <1>4, <1>5, <1>6, <1>7, <1>8, Zenon DEF r, a, b

(* A thread parses its task and stores the list of it.                      *)
LEMMA ParseTaskKeeps ==
  ASSUME IInv, NEW t \in Thread, Running, ParseTask(t)
  PROVE  IInv'
  <1>1. TypeOK /\ ThreadsInv
    BY DEF IInv
  <1>2. PICK c \in [0 .. id -> 1 .. Len(strbuf) + 1] : TasksInv(c)
    BY Zenon DEF IInv
  <1>3. pc[t] = "parse" /\ pc \in [Thread -> {"none", "wait", "parse", "done"}]
    BY <1>1 DEF ParseTask, TypeOK
  <1>4. Sorted /\ t <= started /\ main \notin {"split", "crashed", "sort"}
    BY <1>1, <1>3, RunsSorted
  <1>5. PICK i \in 0 .. id - 1 : e[t] = TaskAt(c, i)
    BY <1>2, <1>3, Zenon DEF TasksInv, Holding
  <1>6. /\ Ascending(c, id, Len(strbuf) + 1) /\ Len(strbuf) + 1 \in Nat /\ id \in Nat
        /\ c[0] = 1 /\ (c[i + 1] = Len(strbuf) + 1 \/ strbuf[c[i + 1]].kind \in ModuleKind)
    <2>1. Cuts(c)
      BY <1>2 DEF TasksInv
    <2>2. Ascending(c, id, Len(strbuf) + 1) /\ Len(strbuf) + 1 \in Nat /\ id \in Nat
      BY <1>1, <2>1, CutsAscend, Basics, Zenon
    <2>3. i + 1 \in 1 .. id
      BY <2>2
    <2> QED
      BY <2>1, <2>2, <2>3, Zenon DEF Cuts
  <1>7. e[t].id = i
    BY <1>5 DEF TaskAt
  <1> DEFINE stored(p) ==
               [written |-> TRUE, siblings |-> Numbered(p.result.list, TaskAt(c, i))]
  <1>8. PICK p \in Parsed :
          /\ p.part = TaskText(TaskAt(c, i))
          /\ IF ~p.result.ok
             THEN main' = "exited" /\ UNCHANGED <<lists, globalRoot, pc>>
             ELSE /\ lists' = [lists EXCEPT ![i] = stored(p)]
                  /\ IF i = 0 /\ ~p.result.root THEN main' = "aborted" ELSE UNCHANGED main
                  /\ globalRoot' = IF i = 0 THEN [Unwritten EXCEPT !.written = p.result.root]
                                   ELSE globalRoot
                  /\ pc' = [pc EXCEPT ![t] = "wait"]
    BY <1>5, <1>7, Zenon DEF ParseTask, Store
  <1>9. UNCHANGED <<strbuf, prev, next, next_lineno, id, taskQueue, started, joined, e>>
    BY DEF ParseTask, split
  <1>10. /\ p.result.ok \in BOOLEAN /\ p.result.root \in BOOLEAN
         /\ p.result.ok =>
              LET list == Numbered(p.result.list, TaskAt(c, i))
              IN /\ list \in Seq(PNode) /\ Enumerates(list, ModulesIn(c[i], c[i + 1] - 1))
                 /\ \A node \in Range(list) : NumberedBehind(node)
         /\ p.result.ok /\ i = 0 /\ Headed(strbuf) => p.result.root
    BY <1>1, <1>6, <1>8, ParsedPart, Zenon
  <1>11. main \notin {"merge", "done"} /\ ~(t <= joined)
    <2>1. ~(t <= joined)
      <3>1. pc[t] # "done"
        BY <1>3
      <3> QED
        BY <1>1, <3>1, Zenon DEF ThreadsInv
    <2>2. t <= NR_THREAD
      BY ThreadAssumption DEF Thread
    <2> QED
      BY <1>1, <2>1, <2>2 DEF ThreadsInv
  <1>12. main \in {"start", "join"}
    BY <1>4, <1>11 DEF Running
  <1>13. CASE ~p.result.ok
    <2>1. main' = "exited" /\ UNCHANGED <<lists, globalRoot, pc>>
      BY <1>8, <1>13, Zenon
    <2>2. TypeOK'
      BY <1>1, <1>9, <2>1 DEF TypeOK
    <2>3. Sorted'
      BY <2>1 DEF Sorted
    <2>4. ThreadsInv'
      BY <1>1, <1>4, <1>9, <2>1 DEF ThreadsInv
    <2>5. TreeIsText' /\ AbortsOnlyHeadless'
      BY <2>1 DEF TreeIsText, AbortsOnlyHeadless
    <2>6. Cuts(c)' /\ Listed(c)' /\ Holding(c)'
      <3>1. Cuts(c)'
        <4>1. main' \notin {"split", "crashed"} /\ main \notin {"split", "crashed"}
          BY <1>12, <2>1
        <4> QED
          BY <1>2, <1>9, <4>1, Zenon DEF TasksInv, Cuts
      <3>2. Holding(c)'
        BY <1>2, <1>9, <2>1, Zenon DEF TasksInv, Holding
      <3> QED
        BY <2>3, <3>1, <3>2, Zenon DEF Listed
    <2>7. FlagsFirst(c)'
      BY <1>2, <1>4, <1>9, <2>1, Zenon DEF TasksInv, FlagsFirst, Left
    <2>8. Accounted(c)'
      <3> SUFFICES ASSUME NEW j \in 0 .. id - 1
                   PROVE  Queued(c, j)' \/ Held(c, j)' \/ Stored(c, j)'
        BY <1>9, Zenon DEF Accounted
      <3>1. Queued(c, j) \/ Held(c, j) \/ Stored(c, j)
        BY <1>2, <1>4, Zenon DEF TasksInv, Accounted
      <3>2. main # "aborted"
        BY <1>12
      <3> QED
        BY <1>9, <2>1, <3>1, <3>2, SameText, Zenon DEF Queued, Held, Stored, ModulesIn
    <2> QED
      BY <1>2, <1>9, <2>2, <2>4, <2>5, <2>6, <2>7, <2>8, Zenon DEF IInv, TasksInv
  <1>14. CASE p.result.ok
    <2>1. /\ lists' = [lists EXCEPT ![i] = stored(p)]
          /\ globalRoot' = IF i = 0 THEN [Unwritten EXCEPT !.written = p.result.root]
                           ELSE globalRoot
          /\ pc' = [pc EXCEPT ![t] = "wait"]
          /\ IF i = 0 /\ ~p.result.root THEN main' = "aborted" ELSE UNCHANGED main
      BY <1>8, <1>14, Zenon
    <2>2. lists \in [0 .. id - 1 -> Lists]
      BY <1>1, <1>4 DEF ThreadsInv
    <2>3. stored(p) \in Lists
      BY <1>10, <1>14 DEF Lists
    <2>4. /\ lists' \in [0 .. id - 1 -> Lists] /\ lists'[i] = stored(p)
          /\ \A j \in 0 .. id - 1 : j # i => lists'[j] = lists[j]
      <3> HIDE DEF stored
      <3> QED
        BY <2>1, <2>2, <2>3
    <2>5. /\ pc' \in [Thread -> {"none", "wait", "parse", "done"}] /\ pc'[t] = "wait"
          /\ \A u \in Thread : u # t => pc'[u] = pc[u]
      BY <1>3, <2>1
    <2>6. main' \in {"start", "join", "aborted"} /\ (main' # "aborted" => main' = main)
      BY <1>12, <2>1
    <2>7. globalRoot' \in Lists
      <3>1. \A b \in BOOLEAN : [Unwritten EXCEPT !.written = b] \in Lists
        <4> TAKE b \in BOOLEAN
        <4>1. [Unwritten EXCEPT !.written = b] = [written |-> b, siblings |-> <<>>]
          BY DEF Unwritten
        <4>2. <<>> \in Seq(PNode)
          OBVIOUS
        <4> QED
          BY <4>1, <4>2, Zenon DEF Lists
      <3>2. globalRoot \in Lists
        BY <1>1 DEF TypeOK
      <3> QED
        BY <1>10, <2>1, <3>1, <3>2, Zenon
    <2>8. TypeOK'
      BY <1>1, <1>9, <2>4, <2>5, <2>6, <2>7 DEF TypeOK
    <2>9. Sorted'
      BY <2>6 DEF Sorted
    <2>10. ThreadsInv'
      <3>1. \A u \in Thread : pc'[u] = "none" <=> pc[u] = "none"
        BY <1>3, <2>5
      <3>2. \A u \in Thread : pc[u] = "done" => pc'[u] = "done"
        BY <1>3, <2>5
      <3>3. lists' \in [0 .. id' - 1 -> Lists]
        BY <1>9, <2>4
      <3> QED
        BY <1>1, <1>9, <2>6, <3>1, <3>2, <3>3 DEF ThreadsInv
    <2>11. TreeIsText'
      BY <2>6 DEF TreeIsText
    <2>12. AbortsOnlyHeadless'
      <3>1. main' = "aborted" => i = 0 /\ ~p.result.root
        BY <1>12, <2>1
      <3>2. Headed(strbuf') = Headed(strbuf)
        BY <1>9
      <3> QED
        BY <1>10, <1>14, <3>1, <3>2, Zenon DEF AbortsOnlyHeadless
    <2>13. Cuts(c)' /\ Listed(c)'
      <3>1. main' \notin {"split", "crashed"} /\ main \notin {"split", "crashed"}
        BY <1>12, <2>6
      <3> QED
        BY <1>2, <1>9, <2>9, <3>1, Zenon DEF TasksInv, Cuts, Listed
    <2>14. Holding(c)'
      <3> SUFFICES ASSUME NEW u \in Thread, pc'[u] = "parse"
                   PROVE  \E j \in 0 .. id - 1 : e[u] = TaskAt(c, j)
        BY <1>9 DEF Holding
      <3>1. pc[u] = "parse"
        BY <2>5
      <3> QED
        BY <1>2, <3>1, Zenon DEF TasksInv, Holding
    <2>15. FlagsFirst(c)'
      <3>1. Left' = Left
        BY <1>3, <2>5 DEF Left
      <3> QED
        BY <1>2, <1>4, <1>9, <3>1, Zenon DEF TasksInv, FlagsFirst
    <2>16. Accounted(c)'
      <3> SUFFICES ASSUME NEW j \in 0 .. id - 1
                   PROVE  Queued(c, j)' \/ Held(c, j)' \/ Stored(c, j)'
        BY <1>9, Zenon DEF Accounted
      <3>1. CASE j = i
        <4>1. lists'[j].siblings = Numbered(p.result.list, TaskAt(c, i))
          BY <2>4, <3>1
        <4>2. /\ Enumerates(lists'[j].siblings, ModulesIn(c[j], c[j + 1] - 1)')
              /\ \A node \in Range(lists'[j].siblings) : NumberedBehind(node)'
          BY <1>9, <1>10, <1>14, <3>1, <4>1, SameText, Zenon DEF ModulesIn
        <4>3. i = 0 => globalRoot'.written \/ main' = "aborted"
          <5>1. i = 0 => globalRoot'.written = p.result.root
            BY <2>1 DEF Unwritten
          <5> QED
            BY <1>10, <2>1, <5>1, Zenon
        <4> QED
          BY <3>1, <4>2, <4>3, Zenon DEF Stored
      <3>2. CASE j # i
        <4>1. Queued(c, j) => Queued(c, j)'
          BY <1>9, Zenon DEF Queued
        <4>2. Held(c, j) => Held(c, j)'
          <5> SUFFICES ASSUME NEW u \in Thread, pc[u] = "parse", e[u] = TaskAt(c, j)
                       PROVE  Held(c, j)'
            BY DEF Held
          <5>1. u # t
            <6> SUFFICES ASSUME u = t PROVE FALSE
              OBVIOUS
            <6>1. TaskAt(c, j).id = j
              BY DEF TaskAt
            <6> QED
              BY <1>7, <3>2, <6>1
          <5> QED
            BY <1>9, <2>5, <5>1, Zenon DEF Held
        <4>3. Stored(c, j) => Stored(c, j)'
          <5> SUFFICES ASSUME Stored(c, j) PROVE Stored(c, j)'
            OBVIOUS
          <5>1. lists'[j] = lists[j]
            BY <2>4, <3>2
          <5>2. ModulesIn(c[j], c[j + 1] - 1)' = ModulesIn(c[j], c[j + 1] - 1)
            BY <1>9, Zenon DEF ModulesIn
          <5>3. j = 0 => globalRoot' = globalRoot
            BY <2>1, <3>2
          <5>4. main # "aborted"
            BY <1>12
          <5> QED
            BY <1>9, <5>1, <5>2, <5>3, <5>4, SameText, Zenon DEF Stored
        <4>4. Queued(c, j) \/ Held(c, j) \/ Stored(c, j)
          BY <1>2, <1>4, Zenon DEF TasksInv, Accounted
        <4> QED
          BY <4>1, <4>2, <4>3, <4>4, Zenon
      <3> QED
        BY <3>1, <3>2
    <2> QED
      BY <1>2, <1>9, <2>8, <2>10, <2>11, <2>12, <2>13, <2>14, <2>15, <2>16, Zenon
      DEF IInv, TasksInv
  <1> QED
    BY <1>10, <1>13, <1>14

----------------------------------------------------------------------------
(* The end, and the theorems.                                               *)

(* When all threads have ended the queue is empty.                          *)
LEMMA EndedQueue ==
  ASSUME TypeOK, Sorted, NEW c, FlagsFirst(c), \A t \in Thread : pc[t] = "done"
  PROVE  Left = {} /\ taskQueue = <<>>
  <1>1. Left = {}
    BY DEF Left
  <1>2. Cardinality(Left) = 0
    BY <1>1, FS_EmptySet, Zenon
  <1>3. 0 < NR_THREAD /\ Len(taskQueue) \in Nat /\ taskQueue \in Seq(Task)
    <2>1. taskQueue \in Seq(Task)
      BY Zenon DEF TypeOK
    <2>2. NR_THREAD > 0 /\ NR_THREAD \in Nat
      BY Basics, Zenon
    <2> QED
      BY <2>1, <2>2
  <1>4. Len(taskQueue) = 0
    BY <1>2, <1>3, Zenon DEF FlagsFirst
  <1>5. taskQueue = <<>>
    BY <1>3, <1>4
  <1> QED
    BY <1>1, <1>5

(* get() of a thread returns; behind the last one the queue is empty.       *)
LEMMA JoinKeeps == IInv /\ Join => IInv'
  <1> SUFFICES ASSUME IInv, Join PROVE IInv'
    OBVIOUS
  <1>1. TypeOK /\ ThreadsInv
    BY DEF IInv
  <1>2. PICK c \in [0 .. id -> 1 .. Len(strbuf) + 1] : TasksInv(c)
    BY Zenon DEF IInv
  <1>3. /\ main = "join" /\ pc[joined + 1] = "done" /\ joined' = joined + 1
        /\ main' = IF joined + 1 < NR_THREAD THEN "join"
                   ELSE IF taskQueue = <<>> THEN "merge" ELSE "aborted"
        /\ UNCHANGED <<strbuf, prev, next, next_lineno, id, taskQueue, started, pc, e, lists,
                       globalRoot>>
    BY DEF Join, split
  <1>4. /\ joined \in Nat /\ NR_THREAD \in Nat /\ Thread = 1 .. NR_THREAD
        /\ joined < NR_THREAD /\ joined + 1 \in Thread
    BY <1>1, <1>3, ThreadAssumption DEF ThreadsInv, TypeOK, Thread
  <1>5. Sorted
    BY <1>3 DEF Sorted
  <1>6. \A t \in Thread : t <= joined' => pc'[t] = "done"
    <2> SUFFICES ASSUME NEW t \in Thread, t <= joined + 1 PROVE pc[t] = "done"
      BY <1>3
    <2>1. t = joined + 1 \/ t <= joined
      BY <1>4
    <2> QED
      BY <1>1, <1>3, <2>1 DEF ThreadsInv
  <1>7. joined + 1 < NR_THREAD \/ (joined + 1 = NR_THREAD /\ taskQueue = <<>>)
    <2> SUFFICES ASSUME ~(joined + 1 < NR_THREAD) PROVE joined + 1 = NR_THREAD /\ taskQueue = <<>>
      OBVIOUS
    <2>1. joined + 1 = NR_THREAD
      BY <1>4
    <2>2. \A t \in Thread : t <= joined + 1
      BY <1>4, <2>1
    <2>3. \A t \in Thread : pc[t] = "done"
      BY <1>3, <1>6, <2>2
    <2>4. FlagsFirst(c)
      BY <1>2 DEF TasksInv
    <2>5. taskQueue = <<>>
      BY <1>1, <1>5, <2>3, <2>4, EndedQueue, Zenon
    <2> QED
      BY <2>1, <2>5
  <1>8. /\ main' \in {"join", "merge"}
        /\ main' = "join" => joined' < NR_THREAD
        /\ main' = "merge" => joined' = NR_THREAD
    BY <1>3, <1>7
  <1>9. TypeOK'
    <2>1. joined' \in 0 .. NR_THREAD
      BY <1>3, <1>4
    <2> QED
      BY <1>1, <1>3, <1>8, <2>1 DEF TypeOK
  <1>10. ThreadsInv'
    <2>1. \A t \in Thread : pc'[t] = "none" <=> t > started'
      BY <1>1, <1>3 DEF ThreadsInv
    <2>2. lists' \in [0 .. id' - 1 -> Lists]
      BY <1>1, <1>3, <1>5 DEF ThreadsInv
    <2> QED
      BY <1>6, <1>8, <2>1, <2>2 DEF ThreadsInv
  <1>11. Sorted' /\ TreeIsText' /\ AbortsOnlyHeadless'
    BY <1>8 DEF Sorted, TreeIsText, AbortsOnlyHeadless
  <1>12. Cuts(c)' /\ Listed(c)'
    <2>1. main \notin {"split", "crashed"} /\ main' \notin {"split", "crashed"}
      BY <1>3, <1>8
    <2> QED
      BY <1>2, <1>3, <1>11, <2>1, Zenon DEF TasksInv, Cuts, Listed
  <1>13. FlagsFirst(c)' /\ Holding(c)'
    BY <1>2, <1>3, <1>5, Zenon DEF TasksInv, FlagsFirst, Holding, Left
  <1>14. Accounted(c)'
    <2>1. main # "aborted"
      BY <1>3
    <2> QED
      BY <1>2, <1>3, <1>5, <2>1, SameText, Zenon
      DEF TasksInv, Accounted, Queued, Held, Stored, ModulesIn
  <1> QED
    BY <1>2, <1>3, <1>9, <1>10, <1>11, <1>12, <1>13, <1>14, Zenon DEF IInv, TasksInv

(* The lists of all tasks, one after the other, are the modules of the      *)
(* text.                                                                    *)
LEMMA MergeKeeps == IInv /\ Merge => IInv'
  <1> SUFFICES ASSUME IInv, Merge PROVE IInv'
    OBVIOUS
  <1>1. TypeOK /\ ThreadsInv
    BY DEF IInv
  <1>2. PICK c \in [0 .. id -> 1 .. Len(strbuf) + 1] : TasksInv(c)
    BY Zenon DEF IInv
  <1> DEFINE ss == [k \in 1 .. id |-> lists[k - 1].siblings]
  <1>3. /\ main = "merge" /\ main' = "done"
        /\ globalRoot' = [globalRoot EXCEPT !.siblings = FlattenSeq(ss)]
        /\ UNCHANGED <<strbuf, prev, next, next_lineno, id, taskQueue, started, joined, pc, e,
                       lists>>
    BY DEF Merge, split
  <1>4. /\ strbuf \in Seq(Line) /\ id \in Nat /\ id > 0 /\ Len(strbuf) \in Nat
        /\ Len(strbuf) + 1 \in Nat /\ c[0] = 1 /\ c[id] = Len(strbuf) + 1
        /\ Ascending(c, id, Len(strbuf) + 1)
    <2>1. Cuts(c)
      BY <1>2 DEF TasksInv
    <2>2. id > 0 /\ c[0] = 1 /\ c[id] = Len(strbuf) + 1
      BY <1>3, <2>1 DEF Cuts
    <2> QED
      BY <1>1, <2>1, <2>2, Basics, CutsAscend, Zenon
  <1>5. Sorted
    BY <1>3 DEF Sorted
  <1>6. \A t \in Thread : pc[t] = "done"
    <2>1. joined = NR_THREAD
      BY <1>1, <1>3 DEF ThreadsInv
    <2>2. \A t \in Thread : t <= joined
      BY <2>1, ThreadAssumption DEF Thread
    <2> QED
      BY <1>1, <2>2 DEF ThreadsInv
  <1>7. taskQueue = <<>>
    <2>1. FlagsFirst(c)
      BY <1>2 DEF TasksInv
    <2> QED
      BY <1>1, <1>5, <1>6, <2>1, EndedQueue, Zenon
  <1>8. \A i \in 0 .. id - 1 : Stored(c, i)
    <2> SUFFICES ASSUME NEW i \in 0 .. id - 1 PROVE Stored(c, i)
      OBVIOUS
    <2>1. Queued(c, i) \/ Held(c, i) \/ Stored(c, i)
      BY <1>2, <1>5, Zenon DEF TasksInv, Accounted
    <2>2. ~Queued(c, i)
      <3>1. DOMAIN taskQueue = {}
        BY <1>7
      <3> QED
        BY <3>1, Zenon DEF Queued
    <2>3. ~Held(c, i)
      <3>1. "parse" # "done"
        OBVIOUS
      <3> QED
        BY <1>6, <3>1, Zenon DEF Held
    <2> QED
      BY <2>1, <2>2, <2>3
  <1>9. /\ ss \in [1 .. id -> Seq(PNode)]
        /\ \A k \in 1 .. id : Enumerates(ss[k], ModulesIn(c[k - 1], c[k] - 1))
        /\ \A k \in 1 .. id : \A x \in Range(ss[k]) : NumberedBehind(x)
    <2>1. lists \in [0 .. id - 1 -> Lists]
      BY <1>1, <1>5 DEF ThreadsInv
    <2>2. \A k \in 1 .. id : k - 1 \in 0 .. id - 1 /\ (k - 1) + 1 = k
      BY <1>4
    <2>3. \A x \in Lists : x.siblings \in Seq(PNode)
      BY Zenon DEF Lists
    <2>4. \A k \in 1 .. id : lists[k - 1].siblings \in Seq(PNode)
      BY <2>1, <2>2, <2>3
    <2>5. \A k \in 1 .. id : ss[k] = lists[k - 1].siblings
      OBVIOUS
    <2>6. ASSUME NEW k \in 1 .. id
          PROVE  Enumerates(lists[k - 1].siblings, ModulesIn(c[k - 1], c[k] - 1))
      <3>1. Enumerates(lists[k - 1].siblings, ModulesIn(c[k - 1], c[(k - 1) + 1] - 1))
        BY <1>8, <2>2, Zenon DEF Stored
      <3> QED
        BY <2>2, <3>1
    <2>7. \A k \in 1 .. id : Enumerates(ss[k], ModulesIn(c[k - 1], c[k] - 1))
      BY <2>5, <2>6, Zenon
    <2>8. ASSUME NEW k \in 1 .. id PROVE \A x \in Range(ss[k]) : NumberedBehind(x)
      <3>1. \A x \in Range(lists[k - 1].siblings) : NumberedBehind(x)
        BY <1>8, <2>2, Zenon DEF Stored
      <3> QED
        BY <2>5, <3>1, Zenon
    <2> QED
      BY <2>4, <2>7, <2>8
  <1> HIDE DEF ss
  <1>10. /\ FlattenSeq(ss) \in Seq(PNode)
         /\ Enumerates(FlattenSeq(ss), ModulesIn(c[0], c[id] - 1))
         /\ \A x \in Range(FlattenSeq(ss)) : \E k \in 1 .. id : x \in Range(ss[k])
    BY <1>4, <1>9, FlattenEnumerates, Zenon
  <1>11. ModulesIn(c[0], c[id] - 1) = ModuleLines
    <2>1. c[id] - 1 = Len(strbuf)
      BY <1>4
    <2>2. DOMAIN strbuf = 1 .. Len(strbuf)
      BY <1>4
    <2> QED
      BY <1>4, <2>1, <2>2, Zenon DEF ModulesIn, ModuleLines
  <1>12. globalRoot.written /\ globalRoot \in Lists
    <2>1. 0 \in 0 .. id - 1 /\ main # "aborted"
      BY <1>3, <1>4
    <2>2. globalRoot \in Lists
      BY <1>1 DEF TypeOK
    <2> QED
      BY <1>8, <2>1, <2>2, Zenon DEF Stored
  <1> DEFINE flat == FlattenSeq(ss)
  <1> HIDE DEF flat
  <1>13. /\ globalRoot' \in Lists /\ globalRoot'.written = globalRoot.written
         /\ globalRoot'.siblings = flat
    <2>1. flat \in Seq(PNode)
      BY <1>10, Zenon DEF flat
    <2>2. globalRoot' = [globalRoot EXCEPT !.siblings = flat]
      BY <1>3, Zenon DEF flat
    <2> DEFINE S == Seq(PNode)
    <2>3. flat \in S /\ globalRoot \in [written : BOOLEAN, siblings : S]
      BY <1>12, <2>1 DEF Lists
    <2> HIDE DEF S
    <2>4. /\ globalRoot' \in [written : BOOLEAN, siblings : S]
          /\ globalRoot'.written = globalRoot.written /\ globalRoot'.siblings = flat
      BY <2>2, <2>3
    <2> QED
      BY <2>4, Zenon DEF Lists, S
  <1>14. TypeOK'
    BY <1>1, <1>3, <1>13 DEF TypeOK
  <1>15. ThreadsInv'
    <2>1. lists' \in [0 .. id' - 1 -> Lists]
      BY <1>1, <1>3, <1>5 DEF ThreadsInv
    <2> QED
      BY <1>1, <1>3, <2>1 DEF ThreadsInv
  <1>16. TreeIsText'
    <2>1. Enumerates(flat, ModuleLines)
      BY <1>10, <1>11, Zenon DEF flat
    <2>2. \A x \in Range(flat) : NumberedBehind(x)
      BY <1>9, <1>10, Zenon DEF flat
    <2> QED
      BY <1>3, <1>12, <1>13, <2>1, <2>2, SameText, Zenon DEF TreeIsText
  <1>17. Sorted' /\ AbortsOnlyHeadless'
    BY <1>3 DEF Sorted, AbortsOnlyHeadless
  <1>18. Cuts(c)' /\ Listed(c)'
    <2>1. main \notin {"split", "crashed"} /\ main' \notin {"split", "crashed"}
      BY <1>3
    <2> QED
      BY <1>2, <1>3, <1>17, <2>1, Zenon DEF TasksInv, Cuts, Listed
  <1>19. FlagsFirst(c)' /\ Holding(c)'
    BY <1>2, <1>3, <1>5, Zenon DEF TasksInv, FlagsFirst, Holding, Left
  <1>20. Accounted(c)'
    <2>1. globalRoot'.written
      BY <1>12, <1>13
    <2> QED
      BY <1>3, <1>8, <2>1, SameText, Zenon DEF Accounted, Stored, ModulesIn
  <1> QED
    BY <1>2, <1>3, <1>14, <1>15, <1>16, <1>17, <1>18, <1>19, <1>20, Zenon DEF IInv, TasksInv

(* Every step keeps the invariant.                                          *)
LEMMA NextKeeps == IInv /\ [Next]_vars => IInv'
  <1> SUFFICES ASSUME IInv, [Next]_vars PROVE IInv'
    OBVIOUS
  <1>1. CASE CreateTask
    BY <1>1, CreateTaskKeeps
  <1>2. CASE SearchFromNull
    BY <1>2, SearchFromNullKeeps
  <1>3. CASE SortQueue
    BY <1>3, SortQueueKeeps
  <1>4. CASE StartThread
    BY <1>4, StartThreadKeeps
  <1>5. CASE Join
    BY <1>5, JoinKeeps
  <1>6. CASE Merge
    BY <1>6, MergeKeeps
  <1>7. ASSUME NEW t \in Thread, Step(t) PROVE IInv'
    <2>1. CASE Take(t)
      BY <2>1, TakeKeeps
    <2>2. CASE ParseTask(t)
      BY <1>7, <2>2, ParseTaskKeeps DEF Step
    <2> QED
      BY <1>7, <2>1, <2>2 DEF Step
  <1>8. CASE UNCHANGED vars
    <2>1. UNCHANGED <<main, strbuf, prev, next, next_lineno, id, taskQueue, started, joined, pc,
                      e, lists, globalRoot>>
      BY <1>8 DEF vars, split
    <2>2. TypeOK' /\ ThreadsInv' /\ TreeIsText' /\ AbortsOnlyHeadless'
      <3>1. TreeIsText'
        BY <2>1, SameText, Zenon DEF IInv, TreeIsText
      <3> QED
        BY <2>1, <3>1, Zenon DEF IInv, TypeOK, ThreadsInv, AbortsOnlyHeadless, Sorted
    <2>3. PICK c \in [0 .. id -> 1 .. Len(strbuf) + 1] : TasksInv(c)
      BY Zenon DEF IInv
    <2>4. TasksInv(c)'
      BY <2>1, <2>3, SameText, Zenon
      DEF TasksInv, Cuts, Listed, FlagsFirst, Holding, Accounted, Queued, Held, Stored, Sorted,
          Left, ModulesIn
    <2> QED
      BY <2>1, <2>2, <2>3, <2>4, Zenon DEF IInv
  <1> QED
    BY <1>1, <1>2, <1>3, <1>4, <1>5, <1>6, <1>7, <1>8 DEF Next, Main

(* So it holds always.                                                      *)
LEMMA IInvHolds == Spec => []IInv
  BY InitHolds, NextKeeps, PTL DEF Spec

(* The parser's state has its types, whatever the text and the threads do.  *)
THEOREM ParserTypeOK == Spec => []TypeOK
  <1>1. IInv => TypeOK
    BY DEF IInv
  <1> QED
    BY <1>1, IInvHolds, PTL

(* Merge (parseFIR's last loop): whichever thread took which task and in    *)
(* whatever order they stored, the tree has every module of the text once,  *)
(* in its order, and the line number of each is that of what follows it in  *)
(* the text, as the grammar takes it when it reduces the module.            *)
THEOREM ParserTreeIsText == Spec => []TreeIsText
  <1>1. IInv => TreeIsText
    BY DEF IInv
  <1> QED
    BY <1>1, IInvHolds, PTL

(* parseFunc's cv.wait never blocks: a thread that has not ended finds an   *)
(* element of the queue, if only its own exit flag.                         *)
THEOREM ParserNobodyWaits == Spec => []NobodyWaits
  <1>1. IInv => NobodyWaits
    <2> SUFFICES ASSUME IInv, NEW t \in Thread, pc[t] = "wait" PROVE taskQueue # <<>>
      BY DEF NobodyWaits
    <2>1. TypeOK /\ ThreadsInv
      BY DEF IInv
    <2>2. PICK c \in [0 .. id -> 1 .. Len(strbuf) + 1] : TasksInv(c)
      BY Zenon DEF IInv
    <2>3. pc[t] # "none" /\ t \in Left
      BY DEF Left
    <2>4. Sorted
      BY <2>1, <2>3, RunsSorted, Zenon
    <2>5. Cardinality(Left) \in Nat /\ Cardinality(Left) > 0
      BY <2>1, <2>3, LeftType, Zenon
    <2>6. Cardinality(Left) <= Len(taskQueue)
      BY <2>2, <2>4, Zenon DEF TasksInv, FlagsFirst
    <2>7. Len(<<>>) = 0
      OBVIOUS
    <2> QED
      BY <2>5, <2>6, <2>7
  <1> QED
    BY <1>1, IInvHolds, PTL

(* The assertions of parseFIR and parseFunc, for texts that start with      *)
(* their version as the grammar has it: the queue is empty at the end and   *)
(* task 0 has set the root.                                                 *)
THEOREM ParserNeverAborts ==
  ASSUME \A t \in Texts : Headed(t)
  PROVE  Spec => []NeverAborts
  <1>1. IInv => NeverAborts
    BY Zenon DEF IInv, TypeOK, AbortsOnlyHeadless, NeverAborts
  <1> QED
    BY <1>1, IInvHolds, PTL
=============================================================================
