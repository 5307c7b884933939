----------------------------- MODULE FirParser ------------------------------
(***************************************************************************)
(* The FIRRTL parser's threads (firParser.cpp).  parseFIR cuts the text    *)
(* into tasks of MODULES_PER_TASK modules, sorts them by length, adds an   *)
(* exit flag per thread and starts NR_THREAD threads; each takes tasks     *)
(* from the back of taskQueue until it gets an exit flag; parseFIR waits   *)
(* for them and merges their lists.                                        *)
(*                                                                         *)
(* The text is a sequence of lines (see FirLexer); a task's length is      *)
(* counted in lines.  The newline in front of a task is overwritten with   *)
(* the end of the previous one.  A step of a thread is its critical        *)
(* section, or the parsing of its task with the store of the list, which   *)
(* nobody else reads or writes before the thread has ended.                *)
(***************************************************************************)
EXTENDS FirLexer, FiniteSets, TLC

CONSTANTS
  NR_THREAD,
  MODULES_PER_TASK,
  Texts            (* The FIRRTL files to parse.                            *)

ASSUME ThreadAssumption == NR_THREAD \in Nat \ {0} /\ MODULES_PER_TASK \in Nat \ {0}
ASSUME TextAssumption == \A t \in Texts : t \in Seq(Line) /\ t # <<>>

Thread == 1 .. NR_THREAD
Flag == [offset |-> 0, len |-> 0, lineno |-> -1, id |-> -1]
Unwritten == [written |-> FALSE, siblings |-> <<>>]  (* lists[] is not initialized. *)

VARIABLES
  strbuf,          (* The text.                                             *)
  main,            (* Where parseFIR is.                                    *)
  prev, next,      (* The line where the next task starts, and the module   *)
                   (* line the search has arrived at (0: NULL).             *)
  next_lineno, id,
  taskQueue,
  started, joined, (* Threads started, and get() of threads returned.       *)
  pc, e,           (* Per thread, where it is and the task it took.         *)
  lists, globalRoot

split == <<strbuf, prev, next, next_lineno, id>>
vars  == <<main, split, taskQueue, started, joined, pc, e, lists, globalRoot>>

----------------------------------------------------------------------------
(* The module lines strstr(.., "\n  module ") can find, behind line k.      *)
Boundary(k) ==
  {n \in k + 1 .. Len(strbuf) : n > 1 /\ strbuf[n].kind = "module" /\ strbuf[n].indent = 2}
NextBoundary(k) ==
  IF Boundary(k) = {} THEN 0 ELSE CHOOSE n \in Boundary(k) : \A m \in Boundary(k) : n <= m

(* The module line MODULES_PER_TASK modules on, or 0.                       *)
Skip(k) ==
  LET at[i \in 0 .. MODULES_PER_TASK] ==
        IF i = 0 THEN k ELSE IF at[i - 1] = 0 THEN 0 ELSE NextBoundary(at[i - 1])
  IN at[MODULES_PER_TASK]

Init ==
  /\ strbuf \in Texts
  /\ main = "split" /\ prev = 1 /\ next = NextBoundary(0)
  /\ next_lineno = 1 /\ id = 0
  /\ taskQueue = <<>> /\ started = 0 /\ joined = 0
  /\ pc = [t \in Thread |-> "none"] /\ e = [t \in Thread |-> Flag]
  /\ lists = <<>> /\ globalRoot = Unwritten

(* The search goes on from the pointer it has: NULL, if no module line was  *)
(* found at all.                                                            *)
SearchFromNull ==
  /\ main = "split" /\ next = 0
  /\ main' = "crashed"
  /\ UNCHANGED <<split, taskQueue, started, joined, pc, e, lists, globalRoot>>

(* Mutant: the overwritten newline is not counted.                          *)
LinenoUncounted(stop) == next_lineno + (stop - 1 - prev)
(* The newlines in front of the end of the task, and the overwritten one.   *)
LinenoBehind(stop) == next_lineno + (stop - 1 - prev) + 1

CreateTask ==
  /\ main = "split" /\ next # 0
  /\ LET stop == Skip(next)
         last == IF stop = 0 THEN Len(strbuf) ELSE stop - 1
     IN /\ taskQueue' = Append(taskQueue, [offset |-> prev, len |-> last - prev + 1,
                                           lineno |-> next_lineno, id |-> id])
        /\ id' = id + 1
        /\ next' = stop
        /\ IF stop = 0
           THEN main' = "sort" /\ UNCHANGED <<prev, next_lineno>>
           ELSE /\ next_lineno' = LinenoBehind(stop)
                /\ prev' = stop
                /\ UNCHANGED main
  /\ UNCHANGED <<strbuf, started, joined, pc, e, lists, globalRoot>>

FlagsTooFew == [i \in 1 .. NR_THREAD - 1 |-> Flag]   (* Mutant: one flag short. *)
ExitFlags == [i \in 1 .. NR_THREAD |-> Flag]

Longest(q) == \A i, j \in DOMAIN q : i < j => q[i].len >= q[j].len  (* Mutant. *)
InOrder(q) == \A i, j \in DOMAIN q : i < j => q[i].len <= q[j].len

(* The exit flags, and std::sort, which may leave equals in any order.      *)
SortQueue ==
  /\ main = "sort" /\ main' = "start"
  /\ LET q == taskQueue \o ExitFlags
     IN \E p \in Injection(DOMAIN q, DOMAIN q) :
          LET sorted == [k \in DOMAIN q |-> q[p[k]]]
          IN InOrder(sorted) /\ taskQueue' = sorted
  /\ lists' = [i \in 0 .. id - 1 |-> Unwritten]
  /\ UNCHANGED <<split, started, joined, pc, e, globalRoot>>

StartThread ==
  /\ main = "start"
  /\ started' = started + 1
  /\ pc' = [pc EXCEPT ![started'] = "wait"]
  /\ main' = IF started' = NR_THREAD THEN "join" ELSE "start"
  /\ UNCHANGED <<split, taskQueue, joined, e, lists, globalRoot>>

----------------------------------------------------------------------------
(* parseFunc: cv.wait, which lets a thread pass when there is a task, and   *)
(* taking the one at the back.  Nobody is ever asleep in cv.wait when       *)
(* cv.notify_one is called (NobodyWaits), so that call has no effect.       *)
Take(t) ==
  /\ pc[t] = "wait" /\ taskQueue # <<>>
  /\ e' = [e EXCEPT ![t] = Last(taskQueue)]
  /\ taskQueue' = Front(taskQueue)
  /\ pc' = [pc EXCEPT ![t] = IF e'[t].id = -1 THEN "done" ELSE "parse"]
  /\ UNCHANGED <<main, split, started, joined, lists, globalRoot>>

TaskText(task) == SubSeq(strbuf, task.offset, task.offset + task.len - 1)

(* Every part of every text, with Parse of it: TLC computes this once.      *)
Parts == UNION {{SubSeq(t, i, j) : i \in {k \in DOMAIN t : k = 1 \/ t[k].kind = "module"},
                                   j \in DOMAIN t} : t \in Texts} \ {<<>>}
Parsed == {[part |-> lines, result |-> Parse(lines)] : lines \in Parts}

(* The lexer's line numbers start from the task's, its text where the task  *)
(* starts.                                                                  *)
Numbered(list, task) ==
  [k \in DOMAIN list |-> Node(task.offset + list[k].module - 1,
                              task.lineno + list[k].lineno - 1)]

(* Mutant: a thread stores behind the lists that are there.                 *)
StoreInTurn(task, list) ==
  LET free == {i \in DOMAIN lists : ~lists[i].written}
  IN [lists EXCEPT ![CHOOSE i \in free : \A j \in free : i <= j] = list]
StoreBehind(task, list) == (task.id + 1 :> list) @@ lists  (* Mutant: one too far. *)
Store(task, list) == [lists EXCEPT ![task.id] = list]

(* A syntax error ends the process.                                         *)
ParseTask(t) ==
  /\ pc[t] = "parse"
  /\ \E p \in Parsed :
       /\ p.part = TaskText(e[t])
       /\ IF ~p.result.ok
          THEN main' = "exited" /\ UNCHANGED <<lists, globalRoot, pc>>
          ELSE
             /\ lists' = Store(e[t], [written |-> TRUE,
                                     siblings |-> Numbered(p.result.list, e[t])])
             /\ IF e[t].id = 0 /\ ~p.result.root THEN main' = "aborted" ELSE UNCHANGED main
             /\ globalRoot' = IF e[t].id = 0 THEN [Unwritten EXCEPT !.written = p.result.root]
                              ELSE globalRoot
             /\ pc' = [pc EXCEPT ![t] = "wait"]
  /\ UNCHANGED <<split, taskQueue, started, joined, e>>

(* Nothing runs any more after exit or a failed assertion.                  *)
Running == main \in {"split", "sort", "start", "join", "merge", "done"}
Step(t) == Running /\ (Take(t) \/ ParseTask(t))

----------------------------------------------------------------------------
(* get() of one thread after the other.                                     *)
Join ==
  /\ main = "join"
  /\ pc[joined + 1] = "done"
  /\ joined' = joined + 1
  /\ main' = IF joined' < NR_THREAD THEN "join"
             ELSE IF taskQueue = <<>> THEN "merge" ELSE "aborted"
  /\ UNCHANGED <<split, taskQueue, started, pc, e, lists, globalRoot>>

Merge ==
  /\ main = "merge" /\ main' = "done"
  /\ globalRoot' = [globalRoot EXCEPT !.siblings =
       FlattenSeq([k \in 1 .. id |-> lists[k - 1].siblings])]
  /\ UNCHANGED <<split, taskQueue, started, joined, pc, e, lists>>

Main == CreateTask \/ SearchFromNull \/ SortQueue \/ StartThread \/ Join \/ Merge

Next == Main \/ \E t \in Thread : Step(t)

(* The threads and main are scheduled by the operating system.              *)
Fairness == WF_vars(Main) /\ \A t \in Thread : WF_vars(Step(t))
Spec == Init /\ [][Next]_vars /\ Fairness
----------------------------------------------------------------------------
Task == [offset : Nat, len : Nat, lineno : Int, id : Int]
PNode == [module : Nat, lineno : Nat]
Lists == [written : BOOLEAN, siblings : Seq(PNode)]

(* The types of the parser's state.                                         *)
TypeOK ==
  /\ main \in {"split", "sort", "start", "join", "merge", "done",
               "exited", "aborted", "crashed"}
  /\ strbuf \in Texts /\ prev \in Nat /\ next \in Nat
  /\ next_lineno \in Nat /\ id \in Nat
  /\ taskQueue \in Seq(Task)
  /\ started \in 0 .. NR_THREAD /\ joined \in 0 .. NR_THREAD
  /\ pc \in [Thread -> {"none", "wait", "parse", "done"}]
  /\ e \in [Thread -> Task]
  /\ lists = <<>> \/ lists \in [0 .. id - 1 -> Lists]
  /\ globalRoot \in Lists

ModuleLines == {k \in DOMAIN strbuf : strbuf[k].kind \in ModuleKind}

(* The modules of s are those of M, each once, in ascending order.          *)
Enumerates(s, M) ==
  /\ {s[k].module : k \in DOMAIN s} = M
  /\ \A i, j \in DOMAIN s : i < j => s[i].module < s[j].module

(* The line number of a node is that of the next module line behind its     *)
(* module; or, where its task ends in between, of the blank line the task   *)
(* ends with, which is in front of that module or at the end of the text.   *)
NumberedBehind(node) ==
  /\ node.lineno \in node.module + 1 .. Len(strbuf)
  /\ \A k \in node.module + 1 .. node.lineno - 1 : k \notin ModuleLines
  /\ \/ node.lineno \in ModuleLines
     \/ /\ strbuf[node.lineno].kind = "blank"
        /\ node.lineno + 1 \in ModuleLines \cup {Len(strbuf) + 1}

(* Whichever thread parses which task, and whenever it stores its list, the *)
(* syntax tree has every module of the text once, in the order of the text. *)
(* Its number, taken when the grammar reduces it, is that of what follows   *)
(* the module in the whole text, although each lexer saw its task alone.    *)
TreeIsText ==
  main = "done" =>
    /\ globalRoot.written
    /\ Enumerates(globalRoot.siblings, ModuleLines)
    /\ \A node \in Range(globalRoot.siblings) : NumberedBehind(node)

(* There is an exit flag for each thread and no thread takes two, so none   *)
(* arrives at cv.wait with the queue empty, and falls asleep waiting for a  *)
(* task that does not come.                                                 *)
NobodyWaits == \A t \in Thread : pc[t] = "wait" => taskQueue # <<>>

(* The two assertions: the queue is empty when all threads have ended, and  *)
(* task 0 has given the root.                                               *)
NeverAborts == main # "aborted"

(* A text that has a module to look for, and a blank line wherever it may   *)
(* be cut.                                                                  *)
Cuttable ==
  LET cuts == {k \in DOMAIN strbuf : strbuf[k].kind = "module" /\ strbuf[k].indent = 2}
  IN cuts # {} /\ \A k \in cuts : Cardinality({c \in cuts : c <= k}) > 1 =>
                                     strbuf[k - 1].kind = "blank"

(* The parser comes to its end, with a tree: no thread is left waiting,     *)
(* get() returns for each of them, and each task is a text in itself.       *)
Terminates == Cuttable => <>(main = "done")
=============================================================================
