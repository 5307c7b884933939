---------------------------- MODULE MCFstReader ----------------------------
(* FstReader on files of two sections and two handles.  Every change has a  *)
(* value of its own.  The times are those of a simulator that asks for a    *)
(* flush at time 3: the second section's table repeats it.                  *)
EXTENDS FstReaderProofs

vx == 0
Values == 0 .. 50

(* The chain with records at the given indices of the time table.           *)
Chain(indices, name) ==
  [k \in DOMAIN indices |->
     [delta |-> indices[k] - (IF k = 1 THEN 0 ELSE indices[k - 1]), val |-> name + k]]

Latest(chain, frame) == [h \in Handle |-> IF chain[h] = <<>> THEN frame[h] ELSE Last(chain[h]).val]

(* known: the handles declared when the first section's header was written; *)
(* late: the second is declared in the second section only.  early: the     *)
(* values emitted before the first time.                                    *)
File(c) ==
  LET chain1 == <<Chain(c.first, 10), IF c.late THEN <<>> ELSE Chain(c.second, 30)>>
      chain2 == <<Chain(c.next, 20), Chain(c.next2, 40)>>
      frame1 == [h \in Handle |-> IF c.early THEN h ELSE vx]
      one    == [begin |-> c.begin, end |-> 3, frame |-> frame1,
                 frame_maxhandle |-> IF c.known THEN 2 ELSE 1,
                 maxhandle |-> IF c.late THEN 1 ELSE 2,
                 chain |-> chain1, tchn |-> c.times]
      two    == [begin |-> 3, end |-> 5,
                 frame |-> [h \in Handle |-> IF h \in c.varlen THEN frame1[h]
                                             ELSE Latest(chain1, frame1)[h]],
                 frame_maxhandle |-> IF c.late THEN 1 ELSE 2,
                 maxhandle |-> 2, chain |-> chain2, tchn |-> <<3, 1, 1>>]
  IN [blocks |-> <<one, two>>, end |-> c.end, maxhandle |-> 2, varlen |-> c.varlen]

Chosen == [first : {<<>>, <<1>>, <<0, 2>>, <<1, 1, 2>>}, second : {<<>>, <<0, 1>>},
           next : {<<>>, <<1, 2>>}, next2 : {<<1, 1>>}, varlen : {{}},
           known : {TRUE}, late : {FALSE}, early : {FALSE},
           begin : {0}, end : {5}, times : {<<0, 1, 2>>}]
Base == [first |-> <<1, 2>>, second |-> <<0, 1>>, next |-> <<1, 2>>, next2 |-> <<1, 2>>,
         varlen |-> {}, known |-> TRUE, late |-> FALSE, early |-> FALSE,
         begin |-> 0, end |-> 5, times |-> <<0, 1, 2>>]
Odd == {[Base EXCEPT !.varlen = {2}],
        [Base EXCEPT !.known = FALSE], [Base EXCEPT !.end = 6],
        [Base EXCEPT !.known = FALSE, !.late = TRUE],
        [Base EXCEPT !.known = FALSE, !.late = TRUE, !.next2 = <<>>],
        [Base EXCEPT !.early = TRUE, !.times = <<2, 1>>, !.first = <<1>>],
        [Base EXCEPT !.begin = 1, !.times = <<1, 1, 1>>],
        [Base EXCEPT !.early = TRUE, !.first = <<>>]}

SmallFiles == {File(c) : c \in Chosen \cup Odd}
OneFile == {File(Base)}
Ranges == {[start |-> 1, end |-> 2], [start |-> 1, end |-> 4], [start |-> 4, end |-> 5]}
=============================================================================
