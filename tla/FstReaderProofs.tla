-------------------------- MODULE FstReaderProofs --------------------------
(***************************************************************************)
(* Proofs about FstReader, for every file that is WellFormed, every number *)
(* of handles and times, and every sequence of calls.                      *)
(*                                                                         *)
(* Three invariants.  CursorInv: a valid cursor is at a record of the      *)
(* chain loaded, with the index in front of it.  LoopInv: inside an        *)
(* iteration each masked chain with records left is linked at the time of  *)
(* its next record, once, and what was called back is what was read.       *)
(* ReplayInv: the frame of the first section read was called back if it    *)
(* had to be, and then changes only.                                       *)
(***************************************************************************)
EXTENDS FstReader, Induction, SequenceTheorems

----------------------------------------------------------------------------
(* Sums and selections.                                                     *)

(* What RunningSum computes: every element adds its own to the one before.  *)
Before(s, k) == IF k = 1 THEN 0 ELSE s[k - 1]
Sums(s, deltas) ==
  s \in Seq(Nat) /\ Len(s) = Len(deltas) /\ \A k \in 1 .. Len(deltas) : s[k] = Before(s, k) + deltas[k]

(* RunningSum is the sum of the differences up to each place.               *)
LEMMA SumIs ==
  ASSUME NEW deltas \in Seq(Nat)
  PROVE  Sums(RunningSum(deltas), deltas)
  <1> DEFINE n == Len(deltas)
             Body(g) == [k \in 0 .. n |-> IF k = 0 THEN 0 ELSE g[k - 1] + deltas[k]]
             sum == CHOOSE g : g = Body(g)
             step == [k \in 1 .. n |-> [x \in Nat |-> x + deltas[k]]]
  <1>1. n \in Nat /\ \A k \in 1 .. n : deltas[k] \in Nat
    OBVIOUS
  <1>2. step \in [1 .. n -> [Nat -> Nat]] /\ \A k \in 1 .. n : \A x \in Nat : step[k][x] = x + deltas[k]
    <2> HIDE DEF n
    <2> QED
      BY <1>1
  <1> HIDE DEF step
  <1>3. PICK R : Recurs(R, Nat, 0, step, n)
    <2> HIDE DEF n
    <2> QED
      BY <1>1, <1>2, RecursionExists
  <1>4. R \in [0 .. n -> Nat] /\ R[0] = 0
    BY <1>3 DEF Recurs
  <1>5. ASSUME NEW k \in 1 .. n PROVE R[k] = R[k - 1] + deltas[k]
    <2>1. k - 1 \in 0 .. n
      BY <1>1
    <2>2. R[k] = step[k][R[k - 1]] /\ R[k - 1] \in Nat
      BY <1>3, <2>1 DEF Recurs
    <2> QED
      BY <1>2, <2>2
  <1>6. R = Body(R)
    <2>1. ASSUME NEW k \in 0 .. n PROVE R[k] = Body(R)[k]
      <3>1. k = 0 \/ k \in 1 .. n
        BY <1>1
      <3> QED
        BY <1>4, <1>5, <3>1
    <2>2. R = [k \in 0 .. n |-> R[k]]
      BY <1>4
    <2> QED
      BY <2>1, <2>2, Zenon
  <1>7. sum = Body(sum)
    BY <1>6, Zenon
  <1>8. RunningSum(deltas) = [k \in 1 .. n |-> sum[k]]
    BY Zenon DEF RunningSum
  <1> HIDE DEF sum
  <1>9. \A k \in 0 .. n : sum[k] = R[k]
    <2>1. sum[0] = 0
      BY <1>1, <1>7
    <2>2. ASSUME NEW k \in 1 .. n PROVE sum[k] = sum[k - 1] + deltas[k]
      <3>1. k \in 0 .. n /\ k # 0
        BY <1>1
      <3> QED
        BY <1>7, <3>1
    <2>3. Alike(sum, R, n)
      BY <1>4, <1>5, <2>1, <2>2 DEF Alike
    <2> HIDE DEF n
    <2> QED
      BY <1>1, <2>3, SameRecursion
  <1>10. \A k \in 1 .. n : k \in 0 .. n /\ k - 1 \in 0 .. n /\ (k # 1 => k - 1 \in 1 .. n)
    BY <1>1
  <1>11. RunningSum(deltas) = [k \in 1 .. n |-> R[k]]
    BY <1>8, <1>9, <1>10
  <1> DEFINE s == [k \in 1 .. n |-> R[k]]
  <1>12. s \in Seq(Nat) /\ Len(s) = n /\ \A k \in 1 .. n : s[k] = R[k]
    BY <1>1, <1>4, <1>10
  <1> HIDE DEF s, n
  <1>13. ASSUME NEW k \in 1 .. n PROVE s[k] = Before(s, k) + deltas[k]
    <2>1. R[k] = R[k - 1] + deltas[k]
      BY <1>5
    <2>2. CASE k = 1
      BY <1>4, <1>12, <2>1, <2>2 DEF Before
    <2>3. CASE k # 1
      BY <1>10, <1>12, <2>1, <2>3 DEF Before
    <2> QED
      BY <2>2, <2>3
  <1>14. Sums(s, deltas)
    BY <1>12, <1>13 DEF Sums, n
  <1> QED
    BY <1>11, <1>14 DEF s

(* Sums of natural numbers never fall.                                      *)
LEMMA SumGrows ==
  ASSUME NEW deltas \in Seq(Nat), NEW s, Sums(s, deltas),
         NEW i \in 1 .. Len(deltas), NEW j \in i .. Len(deltas)
  PROVE  s[i] <= s[j]
  <1> DEFINE n == Len(deltas)
             T == {k \in Nat : i + k <= n => s[i] <= s[i + k]}
  <1>1. /\ s \in [1 .. n -> Nat] /\ deltas \in [1 .. n -> Nat] /\ n \in Nat
        /\ \A k \in 1 .. n : s[k] = Before(s, k) + deltas[k]
    <2>1. s \in Seq(Nat) /\ Len(s) = n /\ \A k \in 1 .. n : s[k] = Before(s, k) + deltas[k]
      BY Zenon DEF Sums
    <2>2. n \in Nat /\ deltas \in [1 .. n -> Nat]
      BY LenProperties
    <2>3. s \in [1 .. n -> Nat]
      BY <2>1, LenProperties, Zenon
    <2> QED
      BY <2>1, <2>2, <2>3, Zenon
  <1>2. i \in 1 .. n /\ j \in i .. n
    OBVIOUS
  <1> HIDE DEF n
  <1>3. 0 \in T
    BY <1>1, <1>2
  <1>4. ASSUME NEW k \in T PROVE k + 1 \in T
    <2> SUFFICES ASSUME i + (k + 1) <= n PROVE s[i] <= s[i + (k + 1)]
      OBVIOUS
    <2>1. k \in Nat /\ s[i] <= s[i + k]
      BY <1>1, <1>2
    <2>2. i + (k + 1) \in 1 .. n /\ i + (k + 1) # 1 /\ i + (k + 1) - 1 = i + k /\ i + k \in 1 .. n
      BY <1>1, <1>2
    <2>3. s[i + (k + 1)] = s[i + k] + deltas[i + (k + 1)]
      BY <1>1, <2>2 DEF Before
    <2>4. s[i] \in Nat /\ s[i + k] \in Nat /\ deltas[i + (k + 1)] \in Nat /\ s[i + (k + 1)] \in Nat
      BY <1>1, <1>2, <2>2
    <2>5. \A a, b, c, d \in Nat : a <= b /\ d = b + c => a <= d
      OBVIOUS
    <2> QED
      BY <2>1, <2>3, <2>4, <2>5, Zenon
  <1> HIDE DEF T
  <1>5. T = Nat
    <2>1. T \in SUBSET Nat
      BY DEF T
    <2> QED
      BY <1>3, <1>4, <2>1, SetInduction
  <1>6. j - i \in T /\ i + (j - i) = j /\ j <= n
    BY <1>1, <1>2, <1>5
  <1> QED
    BY <1>6 DEF T

----------------------------------------------------------------------------
(* Among: the elements at some places, and the handles of a set in order.   *)

(* Selecting the elements at some places, place after place.                *)
Selected(x, e, chosen) == IF chosen THEN Append(x, e) ELSE x
Selects(f, s, places, A) ==
  /\ f \in [0 .. Len(s) -> Seq(A)] /\ f[0] = <<>>
  /\ \A i \in 1 .. Len(s) : f[i] = Selected(f[i - 1], s[i], i \in places)

(* A sequence with one more element, or without.                            *)
LEMMA SelectedType ==
  ASSUME NEW A, NEW x \in Seq(A), NEW e \in A, NEW chosen
  PROVE  Selected(x, e, chosen) \in Seq(A)
  <1> Append(x, e) \in Seq(A)
    OBVIOUS
  <1> QED
    BY DEF Selected

(* Among is the function its definition recurses on.                        *)
LEMMA AmongSelects ==
  ASSUME NEW A, NEW s \in Seq(A), NEW places
  PROVE  \E f : Selects(f, s, places, A) /\ Among(s, places) = f[Len(s)]
  <1> DEFINE n == Len(s)
             B == Seq(A)
             Body(g) == [i \in 0 .. Len(s) |->
                           IF i = 0 THEN <<>>
                           ELSE IF i \in places THEN Append(g[i - 1], s[i]) ELSE g[i - 1]]
             upto == CHOOSE g : g = Body(g)
             step == [i \in 1 .. n |-> [x \in B |-> Selected(x, s[i], i \in places)]]
  <1>1. n \in Nat /\ <<>> \in B /\ \A i \in 1 .. n : s[i] \in A
    OBVIOUS
  <1>2. \A i \in 1 .. n : \A x \in B : Selected(x, s[i], i \in places) \in B
    BY <1>1, SelectedType
  <1>3. step \in [1 .. n -> [B -> B]]
        /\ \A i \in 1 .. n : \A x \in B : step[i][x] = Selected(x, s[i], i \in places)
    <2> HIDE DEF B, n
    <2> QED
      BY <1>2
  <1> HIDE DEF step
  <1>4. PICK R : Recurs(R, B, <<>>, step, n)
    <2> HIDE DEF B, n
    <2> QED
      BY <1>1, <1>3, RecursionExists
  <1>5. R \in [0 .. n -> B] /\ R[0] = <<>>
    BY <1>4 DEF Recurs
  <1>6. ASSUME NEW i \in 1 .. n PROVE R[i] = Selected(R[i - 1], s[i], i \in places)
    <2>1. i - 1 \in 0 .. n
      BY <1>1
    <2>2. R[i] = step[i][R[i - 1]] /\ R[i - 1] \in B
      BY <1>4, <2>1 DEF Recurs
    <2> HIDE DEF B, n
    <2> QED
      BY <1>3, <2>2
  <1>7. R = Body(R)
    <2>1. ASSUME NEW i \in 0 .. n PROVE R[i] = Body(R)[i]
      <3>1. CASE i = 0
        BY <1>5, <3>1
      <3>2. CASE i # 0
        <4>1. i \in 1 .. n
          BY <1>1, <3>2
        <4> QED
          BY <1>6, <3>2, <4>1 DEF Selected
      <3> QED
        BY <3>1, <3>2
    <2>2. R = [i \in 0 .. n |-> R[i]]
      BY <1>5
    <2> QED
      BY <2>1, <2>2, Zenon
  <1>8. upto = Body(upto)
    BY <1>7, Zenon
  <1>9. Among(s, places) = upto[n]
    BY Zenon DEF Among
  <1> HIDE DEF upto
  <1>10. \A i \in 0 .. n : upto[i] = R[i]
    <2>1. upto[0] = <<>>
      BY <1>1, <1>8
    <2>2. ASSUME NEW i \in 1 .. n PROVE upto[i] = Selected(upto[i - 1], s[i], i \in places)
      <3>1. i \in 0 .. n /\ i # 0
        BY <1>1
      <3>2. upto[i] = Body(upto)[i]
        BY <1>8
      <3>3. Body(upto)[i] = Selected(upto[i - 1], s[i], i \in places)
        BY <3>1 DEF Selected
      <3> QED
        BY <3>2, <3>3
    <2>3. Alike(upto, R, n)
      <3> HIDE DEF n
      <3> QED
        BY <1>5, <1>6, <2>1, <2>2, Zenon DEF Alike
    <2> HIDE DEF n
    <2> QED
      BY <1>1, <2>3, SameRecursion
  <1>11. Among(s, places) = R[n]
    BY <1>1, <1>9, <1>10
  <1>12. Selects(R, s, places, A)
    BY <1>5, <1>6, Zenon DEF Selects
  <1> QED
    BY <1>11, <1>12, Zenon

(* What is selected is selected from s.                                     *)
LEMMA AmongType ==
  ASSUME NEW A, NEW s \in Seq(A), NEW places
  PROVE  Among(s, places) \in Seq(A)
  <1>1. PICK f : Selects(f, s, places, A) /\ Among(s, places) = f[Len(s)]
    BY AmongSelects
  <1>2. Len(s) \in 0 .. Len(s)
    OBVIOUS
  <1> QED
    BY <1>1, <1>2 DEF Selects

(* One element more is selected or not.                                     *)
LEMMA AmongMore ==
  ASSUME NEW A, NEW s \in Seq(A), NEW e \in A, NEW P, NEW Q,
         \A i \in 1 .. Len(s) : i \in P <=> i \in Q
  PROVE  Among(Append(s, e), Q) = Selected(Among(s, P), e, Len(s) + 1 \in Q)
  <1> DEFINE t == Append(s, e)
             n == Len(s)
  <1>1. t \in Seq(A) /\ Len(t) = n + 1 /\ n \in Nat /\ t[n + 1] = e /\ \A i \in 1 .. n : t[i] = s[i]
    OBVIOUS
  <1> HIDE DEF t
  <1>2. PICK f : Selects(f, s, P, A) /\ Among(s, P) = f[n]
    BY AmongSelects
  <1>3. PICK g : Selects(g, t, Q, A) /\ Among(t, Q) = g[n + 1]
    <2>1. \E g : Selects(g, t, Q, A) /\ Among(t, Q) = g[Len(t)]
      BY <1>1, AmongSelects
    <2> QED
      BY <1>1, <2>1
  <1>4. Alike(g, f, n)
    <2>1. g[0] = f[0]
      BY <1>2, <1>3 DEF Selects
    <2>2. ASSUME NEW i \in 1 .. n, g[i - 1] = f[i - 1] PROVE g[i] = f[i]
      <3>1. i \in 1 .. n + 1 /\ t[i] = s[i] /\ (i \in P <=> i \in Q)
        BY <1>1
      <3>2. g[i] = Selected(g[i - 1], t[i], i \in Q) /\ f[i] = Selected(f[i - 1], s[i], i \in P)
        BY <1>1, <1>2, <1>3, <3>1 DEF Selects
      <3> QED
        BY <2>2, <3>1, <3>2 DEF Selected
    <2> QED
      BY <2>1, <2>2 DEF Alike
  <1>5. g[n] = f[n]
    <2> HIDE DEF n
    <2>1. \A k \in 0 .. n : g[k] = f[k]
      BY <1>1, <1>4, SameRecursion
    <2> QED
      BY <1>1, <2>1
  <1>6. g[n + 1] = Selected(g[n], e, n + 1 \in Q)
    <2>1. n + 1 \in 1 .. n + 1 /\ (n + 1) - 1 = n
      BY <1>1
    <2> QED
      BY <1>1, <1>3, <2>1 DEF Selects
  <1> QED
    BY <1>2, <1>3, <1>5, <1>6 DEF t

(* The selection from nothing is nothing.                                   *)
LEMMA AmongNone == \A P : Among(<<>>, P) = <<>>
  <1> TAKE P
  <1>1. <<>> \in Seq(Nat) /\ Len(<<>>) = 0
    OBVIOUS
  <1>2. PICK f : Selects(f, <<>>, P, Nat) /\ Among(<<>>, P) = f[Len(<<>>)]
    BY <1>1, AmongSelects
  <1> QED
    BY <1>1, <1>2 DEF Selects

(* The handles of a set, in ascending order.                                *)
InOrder(s) == \A i, j \in 1 .. Len(s) : i < j => s[i] < s[j]
Lists(s, S) == s \in Seq(Handle) /\ InOrder(s) /\ {s[i] : i \in 1 .. Len(s)} = S

(* A larger handle is appended to an ascending list.                        *)
LEMMA ListsMore ==
  ASSUME NEW s, NEW S \in SUBSET Handle, Lists(s, S), NEW h \in Handle, \A g \in S : g < h
  PROVE  Lists(Append(s, h), S \cup {h})
  <1> DEFINE t == Append(s, h)
  <1>1. s \in Seq(Handle) /\ Len(s) \in Nat /\ {s[i] : i \in 1 .. Len(s)} = S /\ InOrder(s)
    BY DEF Lists
  <1>2. t \in Seq(Handle) /\ Len(t) = Len(s) + 1 /\ t[Len(s) + 1] = h /\ \A i \in 1 .. Len(s) : t[i] = s[i]
    BY <1>1
  <1> HIDE DEF t
  <1>3. \A i \in 1 .. Len(t) : i = Len(s) + 1 \/ i \in 1 .. Len(s)
    BY <1>1, <1>2
  <1>4. \A i \in 1 .. Len(s) : i \in 1 .. Len(t) /\ i < Len(s) + 1
    BY <1>1, <1>2
  <1>5. Len(s) + 1 \in 1 .. Len(t)
    BY <1>1, <1>2
  <1>6. {t[i] : i \in 1 .. Len(t)} = S \cup {h}
    BY <1>1, <1>2, <1>3, <1>4, <1>5
  <1>7. ASSUME NEW i \in 1 .. Len(t), NEW j \in 1 .. Len(t), i < j PROVE t[i] < t[j]
    <2>1. i \in 1 .. Len(s)
      BY <1>1, <1>2, <1>7
    <2>2. CASE j = Len(s) + 1
      BY <1>1, <1>2, <2>1, <2>2
    <2>3. CASE j \in 1 .. Len(s)
      BY <1>1, <1>2, <1>7, <2>1, <2>3 DEF InOrder
    <2> QED
      BY <1>3, <2>2, <2>3
  <1> QED
    BY <1>2, <1>6, <1>7 DEF Lists, InOrder, t

(* Ascending lists the handles of a set in order, each once.                *)
LEMMA AscendingLists ==
  ASSUME NEW S \in SUBSET Handle
  PROVE  Lists(Ascending(S), S)
  <1> DEFINE all == [h \in Handle |-> h]
             n == MaxHandle
  <1>1. n \in Nat /\ Handle = 1 .. n
    BY FilesAssumption DEF Handle
  <1>2. all \in Seq(Handle) /\ Len(all) = n /\ \A i \in 1 .. n : all[i] = i
    BY <1>1
  <1> HIDE DEF all, n
  <1>3. PICK f : Selects(f, all, S, Handle) /\ Among(all, S) = f[Len(all)]
    BY <1>2, AmongSelects
  <1>4. f[0] = <<>> /\ \A i \in 1 .. n : f[i] = Selected(f[i - 1], i, i \in S)
    BY <1>2, <1>3 DEF Selects
  <1> DEFINE T == {i \in 0 .. n : Lists(f[i], S \cap (1 .. i))}
  <1>5. 0 \in T
    <2>1. Lists(<<>>, {})
      BY DEF Lists, InOrder
    <2>2. S \cap (1 .. 0) = {}
      OBVIOUS
    <2> QED
      BY <1>1, <1>4, <2>1, <2>2
  <1>6. ASSUME NEW i \in 1 .. n, i - 1 \in T PROVE i \in T
    <2>1. Lists(f[i - 1], S \cap (1 .. i - 1)) /\ i \in 0 .. n
      BY <1>1, <1>6
    <2>2. CASE i \in S
      <3>1. S \cap (1 .. i) = (S \cap (1 .. i - 1)) \cup {i}
        BY <1>1, <2>2
      <3>2. \A g \in S \cap (1 .. i - 1) : g < i
        BY <1>1
      <3>3. i \in Handle /\ S \cap (1 .. i - 1) \in SUBSET Handle
        BY <1>1
      <3>4. Lists(Append(f[i - 1], i), (S \cap (1 .. i - 1)) \cup {i})
        BY <2>1, <3>2, <3>3, ListsMore
      <3> QED
        BY <1>4, <2>1, <2>2, <3>1, <3>4 DEF Selected
    <2>3. CASE i \notin S
      <3>1. S \cap (1 .. i) = S \cap (1 .. i - 1)
        BY <1>1, <2>3
      <3> QED
        BY <1>4, <2>1, <2>3, <3>1 DEF Selected
    <2> QED
      BY <2>2, <2>3
  <1> HIDE DEF T
  <1>7. n \in T
    <2>1. 0 .. n \subseteq T
      BY <1>1, <1>5, <1>6, BoundedInduction
    <2> QED
      BY <1>1, <2>1
  <1>8. S \cap (1 .. n) = S
    BY <1>1
  <1> QED
    BY <1>2, <1>3, <1>7, <1>8 DEF T, Ascending, all

----------------------------------------------------------------------------
(* A section of a well-formed file.                                         *)
Records(k, h) == Block(k).chain[h]
Deltas(chain) == [j \in 1 .. Len(chain) |-> chain[j].delta]
Place(k, h, j) == Indices(Records(k, h))[j] + 1
TimeOf(k, h, j) == Table(k)[Place(k, h, j)]

(* A section of the file.                                                   *)
LEMMA BlockType ==
  ASSUME WellFormed(file), NEW k \in DOMAIN file.blocks
  PROVE  /\ k \in 1 .. Len(file.blocks) /\ Len(file.blocks) \in Nat /\ Block(k) \in Section
         /\ Block(k).begin \in Nat /\ Block(k).end \in Nat
         /\ Block(k).begin <= Block(k).end
         /\ Block(k).frame_maxhandle <= Block(k).maxhandle
  <1>1. file.blocks \in Seq(Section)
    BY DEF WellFormed
  <1>2. /\ Block(k).begin <= Block(k).end
        /\ Block(k).frame_maxhandle <= Block(k).maxhandle
    BY Zenon DEF WellFormed, Block
  <1>3. k \in 1 .. Len(file.blocks) /\ Len(file.blocks) \in Nat /\ Block(k) \in Section
    BY <1>1 DEF Block
  <1> QED
    BY <1>2, <1>3 DEF Section

(* The time table of a section: its times ascend, from its begin to its     *)
(* end.                                                                     *)
LEMMA TableFacts ==
  ASSUME WellFormed(file), NEW k \in DOMAIN file.blocks
  PROVE  /\ Table(k) \in Seq(Nat) /\ Len(Table(k)) = Len(Block(k).tchn) /\ Len(Table(k)) \in Nat \ {0}
         /\ \A i \in 1 .. Len(Table(k)) : Table(k)[i] \in Block(k).begin .. Block(k).end
         /\ \A i, j \in 1 .. Len(Table(k)) : i <= j => Table(k)[i] <= Table(k)[j]
  <1> DEFINE T == Table(k)
             d == Block(k).tchn
  <1>1. d \in Seq(Nat) /\ d # <<>>
    BY BlockType DEF Section
  <1>2. Sums(T, d)
    BY <1>1, SumIs DEF Table, TimeTable
  <1>3. \A i \in DOMAIN T : T[i] \in Block(k).begin .. Block(k).end
    BY Zenon DEF WellFormed, Block, Table
  <1> HIDE DEF T, d
  <1>4. T \in Seq(Nat) /\ Len(T) = Len(d) /\ Len(d) \in Nat /\ Len(d) # 0
    BY <1>1, <1>2 DEF Sums
  <1>5. DOMAIN T = 1 .. Len(T)
    BY <1>4
  <1>6. ASSUME NEW i \in 1 .. Len(T), NEW j \in 1 .. Len(T), i <= j PROVE T[i] <= T[j]
    <2>1. i \in 1 .. Len(d) /\ j \in i .. Len(d)
      BY <1>4, <1>6
    <2> QED
      BY <1>1, <1>2, <2>1, SumGrows
  <1> QED
    BY <1>3, <1>4, <1>5, <1>6 DEF T, d

(* The records of a chain have places in the time table, in order.          *)
LEMMA RecordFacts ==
  ASSUME WellFormed(file), NEW k \in DOMAIN file.blocks, NEW h \in Handle
  PROVE  /\ Records(k, h) \in Seq(Change)
         /\ Sums(Indices(Records(k, h)), Deltas(Records(k, h))) /\ Deltas(Records(k, h)) \in Seq(Nat)
         /\ Len(Deltas(Records(k, h))) = Len(Records(k, h))
         /\ \A j \in 1 .. Len(Records(k, h)) :
              Place(k, h, j) \in 1 .. Len(Table(k)) /\ Place(k, h, j) \in Nat
         /\ \A i, j \in 1 .. Len(Records(k, h)) : i <= j => Place(k, h, i) <= Place(k, h, j)
         /\ h > Block(k).maxhandle => Records(k, h) = <<>>
  <1> DEFINE c == Records(k, h)
             d == Deltas(c)
             s == Indices(c)
             n == Len(c)
  <1>1. c \in Seq(Change)
    BY BlockType DEF Section, Records
  <1>2. /\ h > Block(k).maxhandle => c = <<>>
        /\ c # <<>> => Last(s) < Len(Table(k))
    BY DEF WellFormed, Block, Records, Table
  <1> HIDE DEF c
  <1>3. d \in Seq(Nat) /\ Len(d) = n /\ n \in Nat
    <2>1. n \in Nat /\ \A j \in 1 .. n : c[j] \in Change
      BY <1>1
    <2>2. \A j \in 1 .. n : c[j].delta \in Nat
      BY <2>1 DEF Change
    <2>3. d = [j \in 1 .. n |-> c[j].delta]
      BY DEF Deltas
    <2> HIDE DEF d, n
    <2> QED
      BY <2>1, <2>2, <2>3
  <1>4. Sums(s, d)
    BY <1>3, SumIs DEF Indices, Deltas
  <1> HIDE DEF d, s
  <1>5. s \in Seq(Nat) /\ Len(s) = n
    BY <1>3, <1>4 DEF Sums
  <1>6. ASSUME NEW i \in 1 .. n, NEW j \in 1 .. n, i <= j PROVE s[i] <= s[j] /\ s[i] \in Nat
    <2>1. i \in 1 .. Len(d) /\ j \in i .. Len(d)
      BY <1>3, <1>6
    <2> QED
      BY <1>3, <1>4, <1>5, <2>1, SumGrows
  <1>7. ASSUME NEW j \in 1 .. n PROVE s[j] + 1 \in 1 .. Len(Table(k)) /\ s[j] \in Nat
    <2>1. n \in 1 .. n /\ j <= n /\ Len(Table(k)) \in Nat
      BY <1>3, TableFacts
    <2>2. s[j] <= s[n] /\ s[j] \in Nat /\ s[n] \in Nat
      BY <1>6, <2>1
    <2>3. c # <<>>
      BY <1>1, <2>1
    <2>4. Last(s) = s[n]
      BY <1>5 DEF Last
    <2> QED
      BY <1>2, <2>1, <2>2, <2>3, <2>4
  <1>8. \A j \in 1 .. n : Place(k, h, j) = s[j] + 1
    BY DEF Place, s, c
  <1> HIDE DEF n
  <1>9. \A j \in 1 .. n : Place(k, h, j) \in 1 .. Len(Table(k)) /\ Place(k, h, j) \in Nat
    BY <1>7, <1>8
  <1>10. \A i, j \in 1 .. n : i <= j => Place(k, h, i) <= Place(k, h, j)
    BY <1>6, <1>7, <1>8
  <1> QED
    BY <1>1, <1>2, <1>3, <1>4, <1>9, <1>10 DEF c, d, s, n

(* The times of a chain never fall.                                         *)
LEMMA TimesFacts ==
  ASSUME WellFormed(file), NEW k \in DOMAIN file.blocks, NEW h \in Handle
  PROVE  /\ \A j \in 1 .. Len(Records(k, h)) :
              TimeOf(k, h, j) \in Nat /\ TimeOf(k, h, j) \in Block(k).begin .. Block(k).end
         /\ \A i, j \in 1 .. Len(Records(k, h)) : i <= j => TimeOf(k, h, i) <= TimeOf(k, h, j)
  <1>1. /\ Table(k) \in Seq(Nat)
        /\ \A i \in 1 .. Len(Table(k)) : Table(k)[i] \in Block(k).begin .. Block(k).end
        /\ \A i, j \in 1 .. Len(Table(k)) : i <= j => Table(k)[i] <= Table(k)[j]
    BY TableFacts
  <1>2. /\ \A j \in 1 .. Len(Records(k, h)) : Place(k, h, j) \in 1 .. Len(Table(k))
        /\ \A i, j \in 1 .. Len(Records(k, h)) : i <= j => Place(k, h, i) <= Place(k, h, j)
    BY RecordFacts
  <1> QED
    BY <1>1, <1>2 DEF TimeOf

(* What a reader decodes of a chain.                                        *)
LEMMA DecodedChain ==
  ASSUME WellFormed(file), NEW k \in DOMAIN file.blocks, NEW h \in Handle
  PROVE  DecodeChain(Records(k, h), Table(k))
           = [j \in 1 .. Len(Records(k, h)) |->
                [time |-> TimeOf(k, h, j), val |-> Records(k, h)[j].val]]
  BY Zenon DEF DecodeChain, TimeOf, Place, Indices

(* The value of a chain at a time: that of record j, if it is due by then   *)
(* and the next one is not; that of the frame if none is.                   *)
Due(k, h, tim) == {j \in 1 .. Len(Records(k, h)) : TimeOf(k, h, j) <= tim}

(* The value at a time is that of the last record due.                      *)
LEMMA ValueOfRecord ==
  ASSUME WellFormed(file), NEW k \in DOMAIN file.blocks, NEW h \in Handle, NEW tim \in Nat,
         NEW j \in Due(k, h, tim), j + 1 \notin Due(k, h, tim)
  PROVE  ValueIn(k, h, tim) = Records(k, h)[j].val
  <1> DEFINE n == Len(Records(k, h))
             cs == DecodeChain(Records(k, h), Table(k))
             until == {i \in DOMAIN cs : cs[i].time <= tim}
  <1>1. n \in Nat /\ \A i \in 1 .. n : TimeOf(k, h, i) \in Nat
    BY RecordFacts, TimesFacts
  <1>2. /\ DOMAIN cs = 1 .. n
        /\ \A i \in 1 .. n : cs[i].time = TimeOf(k, h, i) /\ cs[i].val = Records(k, h)[i].val
    BY DecodedChain
  <1>3. until = Due(k, h, tim)
    <2> HIDE DEF cs, n
    <2> QED
      BY <1>2 DEF Due, n
  <1>4. j \in 1 .. n /\ j \in until /\ \A i \in until : i <= j
    <2>1. j \in 1 .. n
      BY DEF Due
    <2>2. ASSUME NEW i \in until, i > j PROVE FALSE
      <3>1. i \in 1 .. n /\ TimeOf(k, h, i) <= tim
        BY <1>3 DEF Due
      <3>2. j + 1 \in 1 .. n /\ j + 1 <= i
        BY <1>1, <2>1, <2>2, <3>1
      <3>3. TimeOf(k, h, j + 1) <= TimeOf(k, h, i)
        BY <3>1, <3>2, TimesFacts
      <3>4. TimeOf(k, h, j + 1) <= tim
        BY <1>1, <3>1, <3>2, <3>3
      <3> QED
        BY <3>2, <3>4 DEF Due
    <2>3. \A i \in until : i \in Nat
      BY <1>2
    <2> QED
      BY <1>3, <2>1, <2>2, <2>3
  <1> HIDE DEF cs
  <1>5. until \in SUBSET (1 .. n) /\ until # {}
    BY <1>2, <1>4
  <1>6. Max(until) \in until /\ \A y \in until : Max(until) >= y
    <2> HIDE DEF until, n
    <2> QED
      BY <1>1, <1>5, MaxIsIn
  <1>7. Max(until) = j
    <2> HIDE DEF until
    <2>1. Max(until) \in 1 .. n
      BY <1>5, <1>6
    <2> QED
      BY <1>1, <1>4, <1>6, <2>1
  <1>8. ValueIn(k, h, tim) = IF until = {} THEN FrameValue(Block(k), h) ELSE cs[Max(until)].val
    BY Zenon DEF ValueIn, cs, until, Records
  <1> HIDE DEF until
  <1> QED
    BY <1>2, <1>4, <1>5, <1>7, <1>8

(* With no record due it is that of the frame.                              *)
LEMMA ValueOfFrame ==
  ASSUME WellFormed(file), NEW k \in DOMAIN file.blocks, NEW h \in Handle, NEW tim \in Nat,
         Due(k, h, tim) = {}
  PROVE  ValueIn(k, h, tim) = FrameValue(Block(k), h)
  <1> DEFINE n == Len(Records(k, h))
             cs == DecodeChain(Records(k, h), Table(k))
             until == {i \in DOMAIN cs : cs[i].time <= tim}
  <1>2. /\ DOMAIN cs = 1 .. n
        /\ \A i \in 1 .. n : cs[i].time = TimeOf(k, h, i)
    BY DecodedChain
  <1>3. until = {}
    <2> HIDE DEF cs, n
    <2> QED
      BY <1>2 DEF Due, n
  <1> HIDE DEF cs
  <1>8. ValueIn(k, h, tim) = IF until = {} THEN FrameValue(Block(k), h) ELSE cs[Max(until)].val
    BY Zenon DEF ValueIn, cs, until, Records
  <1> QED
    BY <1>3, <1>8

----------------------------------------------------------------------------
(* The search in a chain, from the cursor or from the first record.         *)

(* The sums of a search that starts at record first, with what is before it.*)
SumsFrom(f, first, before, deltas, n) ==
  f = [j \in first - 1 .. n |-> IF j < first THEN before ELSE f[j - 1] + deltas[j]]
Continues(s, first, before, deltas, n) ==
  /\ s \in [first .. n -> Nat] /\ before \in Nat
  /\ \A j \in first .. n : s[j] = (IF j = first THEN before ELSE s[j - 1]) + deltas[j]

(* The sums a search continues with are the sums from the first record.     *)
LEMMA SumsFromFirst ==
  ASSUME NEW n \in Nat, NEW first \in 1 .. n, NEW before, NEW deltas, NEW s,
         Continues(s, first, before, deltas, n)
  PROVE  \A j \in first .. n : (CHOOSE f : SumsFrom(f, first, before, deltas, n))[j] = s[j]
  <1> DEFINE sum == CHOOSE f : SumsFrom(f, first, before, deltas, n)
             g == [j \in first - 1 .. n |-> IF j < first THEN before ELSE s[j]]
             T == {m \in Nat : first + m <= n => sum[first + m] = s[first + m]}
  <1>1. \A j \in first .. n : s[j] = (IF j = first THEN before ELSE s[j - 1]) + deltas[j]
    BY DEF Continues
  <1>2. SumsFrom(g, first, before, deltas, n)
    <2>1. ASSUME NEW j \in first - 1 .. n
          PROVE  g[j] = IF j < first THEN before ELSE g[j - 1] + deltas[j]
      <3>1. CASE j < first
        BY <3>1
      <3>2. CASE ~(j < first)
        <4>1. j \in first .. n /\ j - 1 \in first - 1 .. n /\ (j = first <=> j - 1 < first)
          BY <3>2
        <4>2. s[j] = (IF j = first THEN before ELSE s[j - 1]) + deltas[j]
          BY <1>1, <4>1
        <4>3. g[j] = s[j] /\ g[j - 1] = IF j = first THEN before ELSE s[j - 1]
          BY <3>2, <4>1
        <4> QED
          BY <3>2, <4>2, <4>3
      <3> QED
        BY <3>1, <3>2
    <2>2. g = [j \in first - 1 .. n |-> g[j]]
      OBVIOUS
    <2> HIDE DEF g
    <2> QED
      BY <2>1, <2>2, Zenon DEF SumsFrom
  <1>3. SumsFrom(sum, first, before, deltas, n)
    BY <1>2, Zenon
  <1> HIDE DEF sum, g
  <1>4. \A j \in first - 1 .. n : sum[j] = IF j < first THEN before ELSE sum[j - 1] + deltas[j]
    <2> DEFINE h == [j \in first - 1 .. n |-> IF j < first THEN before ELSE sum[j - 1] + deltas[j]]
    <2>1. sum = h
      BY <1>3, Zenon DEF SumsFrom
    <2>2. \A j \in first - 1 .. n : h[j] = IF j < first THEN before ELSE sum[j - 1] + deltas[j]
      OBVIOUS
    <2> HIDE DEF h
    <2> QED
      BY <2>1, <2>2, Zenon
  <1>5. 0 \in T
    <2>1. first \in first - 1 .. n /\ first - 1 \in first - 1 .. n /\ first - 1 < first /\ ~(first < first)
          /\ first \in first .. n
      OBVIOUS
    <2>2. sum[first - 1] = before
      BY <1>4, <2>1
    <2>3. sum[first] = sum[first - 1] + deltas[first]
      BY <1>4, <2>1
    <2>4. s[first] = before + deltas[first]
      BY <1>1, <2>1
    <2> QED
      BY <2>2, <2>3, <2>4
  <1>6. ASSUME NEW m \in T PROVE m + 1 \in T
    <2> SUFFICES ASSUME first + (m + 1) <= n PROVE sum[first + (m + 1)] = s[first + (m + 1)]
      OBVIOUS
    <2>1. m \in Nat /\ sum[first + m] = s[first + m]
      OBVIOUS
    <2> DEFINE i == first + (m + 1)
    <2>2. i \in first - 1 .. n /\ ~(i < first) /\ i \in first .. n /\ i # first /\ i - 1 = first + m
      BY <2>1
    <2> HIDE DEF i
    <2>3. sum[i] = sum[i - 1] + deltas[i]
      BY <1>4, <2>2
    <2>4. s[i] = s[i - 1] + deltas[i]
      BY <1>1, <2>2
    <2>5. sum[i] = s[i]
      BY <2>1, <2>2, <2>3, <2>4
    <2> QED
      BY <2>5 DEF i
  <1>7. T \in SUBSET Nat
    OBVIOUS
  <1> HIDE DEF T
  <1>8. T = Nat
    BY <1>5, <1>6, <1>7, SetInduction
  <1>9. ASSUME NEW j \in first .. n PROVE sum[j] = s[j]
    <2>1. j - first \in T /\ first + (j - first) = j /\ j <= n
      BY <1>8
    <2> QED
      BY <2>1 DEF T
  <1> QED
    BY <1>9 DEF sum

(* The cursor stands in front of a record of the chain.                     *)
CursorAt(k, h, idx, tidx) ==
  idx \in 1 .. Len(Records(k, h)) /\ tidx = Before(Indices(Records(k, h)), idx)
FoundRecord(k, h, tim) ==
  \E j \in Due(k, h, tim) :
    /\ j + 1 \notin Due(k, h, tim)
    /\ pos_valid' = TRUE /\ pos_time' = tim
    /\ pos_idx' = j /\ CursorAt(k, h, pos_idx', pos_tidx')
    /\ Return(h, tim, Records(k, h)[j].val)
FoundFrame(k, h, tim, mine) ==
  /\ pos_valid' = mine /\ (mine => "rewind" \in Usage)
  /\ ~mine => Due(k, h, tim) = {}
  /\ pos_time' \in {pos_time, Block(k).begin} /\ UNCHANGED <<pos_idx, pos_tidx>>
  /\ Return(h, tim, FrameValue(Block(k), h))

(* Where the cursor is allowed to start, the sums go on.                    *)
LEMMA CursorSums ==
  ASSUME WellFormed(file), NEW k \in DOMAIN file.blocks, NEW h \in Handle,
         NEW first, NEW before, CursorAt(k, h, first, before)
  PROVE  /\ first \in 1 .. Len(Records(k, h)) /\ before \in Nat
         /\ Continues([j \in first .. Len(Records(k, h)) |-> Indices(Records(k, h))[j]], first, before,
                  [j \in first .. Len(Records(k, h)) |-> Records(k, h)[j].delta], Len(Records(k, h)))
  <1> DEFINE c == Records(k, h)
             n == Len(c)
             s == Indices(c)
             t == [j \in first .. n |-> s[j]]
             d == [j \in first .. n |-> c[j].delta]
  <1>1. first \in 1 .. n /\ before = Before(s, first)
    BY DEF CursorAt
  <1>2. c \in Seq(Change) /\ n \in Nat /\ Deltas(c) \in Seq(Nat) /\ Len(Deltas(c)) = n
        /\ s \in Seq(Nat) /\ Len(s) = n /\ \A j \in 1 .. n : s[j] = Before(s, j) + Deltas(c)[j]
    BY RecordFacts DEF Sums
  <1>3. \A j \in 1 .. n : Deltas(c)[j] = c[j].delta
    BY DEF Deltas
  <1> HIDE DEF s, c, n
  <1>4. before \in Nat
    <2>1. CASE first = 1
      BY <1>1, <2>1 DEF Before
    <2>2. CASE first # 1
      <3>1. first - 1 \in 1 .. n
        BY <1>1, <1>2, <2>2
      <3>2. s[first - 1] \in Nat
        BY <1>2, <3>1
      <3> QED
        BY <1>1, <2>2, <3>2 DEF Before
    <2> QED
      BY <2>1, <2>2
  <1>5. ASSUME NEW j \in first .. n PROVE t[j] = (IF j = first THEN before ELSE t[j - 1]) + d[j]
    <2>1. j \in 1 .. n /\ (j # first => j - 1 \in first .. n /\ j # 1)
      BY <1>1, <1>2
    <2>2. s[j] = Before(s, j) + c[j].delta
      BY <1>2, <1>3, <2>1
    <2>3. CASE j = first
      BY <1>1, <2>2, <2>3
    <2>4. CASE j # first
      BY <2>1, <2>2, <2>4 DEF Before
    <2> QED
      BY <2>3, <2>4
  <1>6. t \in [first .. n -> Nat]
    <2>1. \A j \in first .. n : j \in 1 .. n
      BY <1>1, <1>2
    <2>2. \A j \in first .. n : s[j] \in Nat
      BY <1>2, <2>1
    <2> QED
      BY <2>2
  <1> HIDE DEF t, d
  <1>7. Continues(t, first, before, d, n)
    BY <1>4, <1>5, <1>6, Zenon DEF Continues
  <1> QED
    BY <1>1, <1>4, <1>7 DEF c, n, s, t, d

(* The search finds the latest record that is due, or that none is.         *)
LEMMA Search ==
  ASSUME WellFormed(file), NEW k \in DOMAIN file.blocks, NEW h \in Handle, NEW tim \in Nat,
         NEW loaded, NEW valid \in BOOLEAN, pos_time \in Nat, Records(k, h) # <<>>,
         valid /\ loaded = h => CursorAt(k, h, pos_idx, pos_tidx)
                                 /\ ("rewind" \notin Usage => TimeOf(k, h, pos_idx) <= pos_time),
         SearchChain(k, h, tim, loaded, valid)
  PROVE  chain_facidx' = h
         /\ (FoundRecord(k, h, tim) \/ FoundFrame(k, h, tim, valid /\ loaded = h))
  <1> DEFINE records == Block(k).chain[h]
             mine    == valid /\ loaded = h
             resumed == mine /\ tim >= pos_time
             first   == IF resumed THEN pos_idx ELSE 1
             before  == IF resumed THEN pos_tidx ELSE 0
             deltas  == [j \in first .. Len(records) |-> records[j].delta]
             sum     == CHOOSE f : f = [j \in first - 1 .. Len(records) |->
                           IF j < first THEN before ELSE f[j - 1] + deltas[j]]
             due(j)  == \A m \in first .. j : Table(k)[sum[m] + 1] <= tim
             found   == {j \in first .. Len(records) : due(j)}
             n       == Len(Records(k, h))
  <1>1. /\ chain_facidx' = h
        /\ IF found = {} THEN StopAtFrame(k, h, tim, mine, resumed)
           ELSE \E j \in found : j + 1 \notin found /\ StopAt(k, h, tim, sum, j)
    BY Zenon DEF SearchChain
  <1>2. n \in Nat /\ n # 0 /\ records = Records(k, h)
    BY RecordFacts DEF Records
  <1>3. CursorAt(k, h, first, before)
    <2>1. CASE resumed
      BY <2>1
    <2>2. CASE ~resumed
      BY <1>2, <2>2 DEF CursorAt, Before
    <2> QED
      BY <2>1, <2>2
  <1> DEFINE s == [j \in first .. n |-> Indices(Records(k, h))[j]]
  <1>4. first \in 1 .. n /\ before \in Nat /\ Continues(s, first, before, deltas, n)
    <2> HIDE DEF first, before
    <2> QED
      BY <1>2, <1>3, CursorSums
  <1>5. \A j \in first .. n : sum[j] = Indices(Records(k, h))[j]
    <2>1. sum = CHOOSE f : SumsFrom(f, first, before, deltas, n)
      BY <1>2, Zenon DEF SumsFrom, Records
    <2>2. \A j \in first .. n : s[j] = Indices(Records(k, h))[j]
      OBVIOUS
    <2> HIDE DEF first, before, deltas, sum, s, n
    <2> QED
      BY <1>2, <1>4, <2>1, <2>2, SumsFromFirst
  <1> HIDE DEF sum, s, deltas
  <1>6. \A m \in first .. n : Table(k)[sum[m] + 1] = TimeOf(k, h, m)
    <2> HIDE DEF first, n
    <2> QED
      BY <1>5, Zenon DEF TimeOf, Place
  <1>7. \A j \in first .. n : j \in found <=> j \in Due(k, h, tim)
    <2> HIDE DEF first
    <2> TAKE j \in first .. n
    <2>1. j \in 1 .. n /\ \A m \in first .. j : m \in first .. n /\ m \in 1 .. n /\ m <= j
      BY <1>2, <1>4
    <2>2. j \in found <=> \A m \in first .. j : TimeOf(k, h, m) <= tim
      BY <1>2, <1>6, <2>1
    <2>3. j \in first .. j
      BY <1>4
    <2>4. ASSUME TimeOf(k, h, j) <= tim, NEW m \in first .. j PROVE TimeOf(k, h, m) <= tim
      <3>1. TimeOf(k, h, m) <= TimeOf(k, h, j)
        BY <2>1, TimesFacts
      <3>2. TimeOf(k, h, m) \in Nat /\ TimeOf(k, h, j) \in Nat
        BY <2>1, TimesFacts
      <3> QED
        BY <2>4, <3>1, <3>2
    <2>5. j \in Due(k, h, tim) <=> TimeOf(k, h, j) <= tim
      BY <2>1 DEF Due
    <2> QED
      BY <2>2, <2>3, <2>4, <2>5
  <1>8. found \subseteq first .. n
    BY <1>2
  <1>9. CASE found # {}
    <2>1. PICK j \in found : j + 1 \notin found /\ StopAt(k, h, tim, sum, j)
      BY <1>1, <1>9
    <2>2. j \in first .. n /\ j \in 1 .. n
      BY <1>4, <1>8
    <2>3. j \in Due(k, h, tim)
      BY <1>7, <2>2
    <2>4. j + 1 \notin Due(k, h, tim)
      <3> SUFFICES ASSUME j + 1 \in Due(k, h, tim) PROVE FALSE
        OBVIOUS
      <3>1. j + 1 \in 1 .. n
        BY DEF Due
      <3>2. j + 1 \in first .. n
        BY <1>4, <2>2, <3>1
      <3> QED
        BY <1>7, <2>1, <3>2
    <2>5. sum[j] - Block(k).chain[h][j].delta = Before(Indices(Records(k, h)), j)
      <3>1. Sums(Indices(Records(k, h)), Deltas(Records(k, h))) /\ Len(Deltas(Records(k, h))) = n
        BY RecordFacts
      <3>2. Indices(Records(k, h))[j] = Before(Indices(Records(k, h)), j) + Deltas(Records(k, h))[j]
        BY <2>2, <3>1 DEF Sums
      <3>3. Deltas(Records(k, h))[j] = Block(k).chain[h][j].delta
        BY <2>2 DEF Deltas, Records
      <3>4. sum[j] = Indices(Records(k, h))[j]
        BY <1>5, <2>2
      <3>5. Before(Indices(Records(k, h)), j) \in Nat /\ Deltas(Records(k, h))[j] \in Nat
        <4>1. Indices(Records(k, h)) \in Seq(Nat) /\ Len(Indices(Records(k, h))) = n
          BY <3>1 DEF Sums
        <4>2. Deltas(Records(k, h)) \in Seq(Nat)
          BY RecordFacts
        <4>3. j = 1 \/ j - 1 \in 1 .. n
          BY <2>2
        <4>4. Deltas(Records(k, h))[j] \in Nat /\ \A i \in 1 .. n : Indices(Records(k, h))[i] \in Nat
          BY <2>2, <3>1, <4>1, <4>2
        <4> QED
          BY <4>3, <4>4, Zenon DEF Before
      <3> QED
        BY <3>2, <3>3, <3>4, <3>5
    <2>6. /\ pos_valid' = TRUE /\ pos_time' = tim /\ pos_idx' = j
          /\ pos_tidx' = sum[j] - Block(k).chain[h][j].delta
          /\ Return(h, tim, Records(k, h)[j].val)
      BY <2>1, Zenon DEF StopAt, Records
    <2>7. CursorAt(k, h, pos_idx', pos_tidx')
      BY <2>2, <2>5, <2>6, Zenon DEF CursorAt, n
    <2>8. FoundRecord(k, h, tim)
      BY <2>3, <2>4, <2>6, <2>7, Zenon DEF FoundRecord
    <2> QED
      BY <1>1, <2>8
  <1>10. CASE found = {}
    <2>1. StopAtFrame(k, h, tim, mine, resumed)
      BY <1>1, <1>10
    <2>2. /\ mine /\ ~resumed => "rewind" \in Usage
          /\ pos_valid' = mine
          /\ pos_time' \in {pos_time, Block(k).begin}
          /\ UNCHANGED <<pos_idx, pos_tidx>>
          /\ Return(h, tim, FrameValue(Block(k), h))
      BY <2>1 DEF StopAtFrame
    <2>3. ASSUME ~mine PROVE Due(k, h, tim) = {}
      <3>1. first = 1
        BY <2>3
      <3>2. \A j \in 1 .. n : j \notin Due(k, h, tim)
        BY <1>7, <1>10, <3>1
      <3> QED
        BY <3>2 DEF Due
    <2>4. ASSUME resumed, "rewind" \notin Usage PROVE FALSE
      <3>1. first = pos_idx /\ tim >= pos_time
        BY <2>4
      <3>2. first \in first .. n
        BY <1>4
      <3>3. first \notin Due(k, h, tim)
        BY <1>7, <1>10, <3>2
      <3>4. TimeOf(k, h, pos_idx) <= pos_time /\ pos_time \in Nat /\ TimeOf(k, h, pos_idx) \in Nat
        <4>1. TimeOf(k, h, first) \in Nat
          BY <1>4, TimesFacts
        <4> QED
          BY <2>4, <3>1, <4>1
      <3>5. TimeOf(k, h, first) <= tim
        BY <3>1, <3>4
      <3> QED
        BY <1>4, <3>3, <3>5 DEF Due
    <2>5. mine => "rewind" \in Usage
      BY <2>2, <2>4
    <2>6. FoundFrame(k, h, tim, mine)
      BY <2>2, <2>3, <2>5, Zenon DEF FoundFrame
    <2> QED
      BY <1>1, <2>6
  <1> QED
    BY <1>9, <1>10

----------------------------------------------------------------------------
(* The value of a handle at a time.                                         *)

(* The cursor: the index kept is that in front of its record, which was due *)
(* at the time kept, unless the viewer went back in the section.            *)
CursorInv ==
  /\ WellFormed(file) /\ CursorType
  /\ pos_valid => /\ CursorAt(section, chain_facidx, pos_idx, pos_tidx)
                  /\ "rewind" \notin Usage =>
                       TimeOf(section, chain_facidx, pos_idx) <= pos_time

(* The cursor depends on the file and the rvat data only.                   *)
LEMMA CursorStays ==
  ASSUME CursorInv, UNCHANGED <<file, rvat>>
  PROVE  CursorInv'
  <1>1. /\ file' = file /\ section' = section /\ chain_facidx' = chain_facidx
        /\ pos_valid' = pos_valid /\ pos_idx' = pos_idx /\ pos_tidx' = pos_tidx /\ pos_time' = pos_time
    BY DEF rvat
  <1>2. WellFormed(file)' /\ CursorType'
    BY <1>1, Zenon DEF CursorInv, CursorType, Block
  <1>3. ASSUME pos_valid'
        PROVE  /\ CursorAt(section, chain_facidx, pos_idx, pos_tidx)'
               /\ "rewind" \notin Usage => (TimeOf(section, chain_facidx, pos_idx) <= pos_time)'
    BY <1>1, <1>3, Zenon DEF CursorInv, CursorAt, TimeOf, Place, Records, Table, Block
  <1> QED
    BY <1>2, <1>3, Zenon DEF CursorInv

(* What process_value may be called with: a section that covers the time,   *)
(* and a chain and a cursor of that section.                                *)
Asked(k, h, tim, loaded, valid) ==
  /\ WellFormed(file) /\ k \in DOMAIN file.blocks /\ h \in Handle /\ tim \in 0 .. MaxTime
  /\ Covers(k, tim) /\ loaded \in 0 .. MaxHandle /\ valid \in BOOLEAN
  /\ pos_idx \in Nat /\ pos_tidx \in Nat /\ pos_time \in 0 .. MaxTime
  /\ valid => /\ loaded \in Handle /\ CursorAt(k, loaded, pos_idx, pos_tidx)
              /\ "rewind" \notin Usage => TimeOf(k, loaded, pos_idx) <= pos_time

(* A search leaves the cursor at a record of the chain loaded.              *)
LEMMA ProcessKeepsCursor ==
  ASSUME NEW k, NEW h, NEW tim, NEW loaded, NEW valid,
         Asked(k, h, tim, loaded, valid), ProcessValue(k, h, tim, loaded, valid), section' = k
  PROVE  CursorInv'
  <1>1. /\ WellFormed(file) /\ k \in DOMAIN file.blocks /\ h \in Handle /\ tim \in 0 .. MaxTime
        /\ Covers(k, tim) /\ loaded \in 0 .. MaxHandle /\ valid \in BOOLEAN
        /\ pos_idx \in Nat /\ pos_tidx \in Nat /\ pos_time \in 0 .. MaxTime
        /\ valid => /\ loaded \in Handle /\ CursorAt(k, loaded, pos_idx, pos_tidx)
                    /\ "rewind" \notin Usage => TimeOf(k, loaded, pos_idx) <= pos_time
    BY DEF Asked
  <1>2. /\ k \in 1 .. Len(file.blocks) /\ Len(file.blocks) \in Nat /\ Block(k).begin \in Nat
        /\ MaxHandle \in Nat /\ MaxTime \in Nat
    BY <1>1, BlockType, FilesAssumption
  <1>3. Block(k).begin \in 0 .. MaxTime
    BY <1>1, <1>2 DEF Covers
  <1>4. file' = file
    BY DEF ProcessValue, SearchChain, StopAt, StopAtFrame, Return, settings
  <1>5. ASSUME chain_facidx' \in 0 .. MaxHandle, pos_valid' \in BOOLEAN,
               pos_idx' \in Nat, pos_tidx' \in Nat, pos_time' \in 0 .. MaxTime,
               pos_valid' => /\ chain_facidx' \in Handle /\ CursorAt(k, chain_facidx', pos_idx', pos_tidx')
                             /\ "rewind" \notin Usage => TimeOf(k, chain_facidx', pos_idx') <= pos_time'
        PROVE  CursorInv'
    <2>1. section' \in 0 .. Len(file'.blocks) /\ section' # 0
      BY <1>2, <1>4
    <2>2. ASSUME pos_valid'
          PROVE  /\ chain_facidx' # 0 /\ pos_idx' \in DOMAIN Block(section)'.chain[chain_facidx']
                 /\ CursorAt(section, chain_facidx, pos_idx, pos_tidx)'
                 /\ "rewind" \notin Usage => (TimeOf(section, chain_facidx, pos_idx) <= pos_time)'
      <3>1. /\ chain_facidx' \in Handle /\ CursorAt(k, chain_facidx', pos_idx', pos_tidx')
            /\ "rewind" \notin Usage => TimeOf(k, chain_facidx', pos_idx') <= pos_time'
        BY <1>5, <2>2
      <3>2. chain_facidx' # 0
        BY <3>1, <1>2 DEF Handle
      <3>3. pos_idx' \in DOMAIN Records(k, chain_facidx')
        <4>1. pos_idx' \in 1 .. Len(Records(k, chain_facidx'))
          BY <3>1 DEF CursorAt
        <4>2. Records(k, chain_facidx') \in Seq(Change)
          BY <1>1, <3>1, RecordFacts
        <4> QED
          BY <4>1, <4>2
      <3>4. Block(section)' = Block(k)
        BY <1>4 DEF Block
      <3>5. pos_idx' \in DOMAIN Block(section)'.chain[chain_facidx']
        BY <3>3, <3>4 DEF Records
      <3>6. /\ CursorAt(section, chain_facidx, pos_idx, pos_tidx)'
            /\ "rewind" \notin Usage => (TimeOf(section, chain_facidx, pos_idx) <= pos_time)'
        BY <1>4, <3>1, Zenon DEF CursorAt, TimeOf, Place, Records, Table, Block
      <3> QED
        BY <3>2, <3>5, <3>6
    <2>3. CursorType'
      BY <1>5, <2>1, <2>2 DEF CursorType
    <2>4. WellFormed(file)'
      BY <1>1, <1>4
    <2> QED
      BY <2>2, <2>3, <2>4 DEF CursorInv
  <1>6. CASE h <= Block(k).maxhandle /\ Block(k).chain[h] # <<>>
    <2>1. SearchChain(k, h, tim, loaded, valid)
      BY <1>6 DEF ProcessValue
    <2>2. Records(k, h) # <<>> /\ tim \in Nat /\ pos_time \in Nat
      BY <1>1, <1>2, <1>6 DEF Records
    <2>3. chain_facidx' = h
          /\ (FoundRecord(k, h, tim) \/ FoundFrame(k, h, tim, valid /\ loaded = h))
      BY <1>1, <2>1, <2>2, Search
    <2>4. CASE FoundRecord(k, h, tim)
      <3>1. PICK j \in Due(k, h, tim) :
              /\ pos_valid' = TRUE /\ pos_time' = tim
              /\ pos_idx' = j /\ CursorAt(k, h, pos_idx', pos_tidx')
        BY <2>4 DEF FoundRecord
      <3>2. j \in 1 .. Len(Records(k, h)) /\ TimeOf(k, h, j) <= tim
        BY DEF Due
      <3>3. pos_tidx' \in Nat
        BY <1>1, <3>1, CursorSums
      <3>4. h \in 0 .. MaxHandle
        BY <1>1, <1>2 DEF Handle
      <3> QED
        BY <1>1, <1>5, <2>3, <3>1, <3>2, <3>3, <3>4
    <2>5. CASE FoundFrame(k, h, tim, valid /\ loaded = h)
      <3>1. /\ pos_valid' = (valid /\ loaded = h)
            /\ pos_valid' => "rewind" \in Usage
            /\ pos_time' \in {pos_time, Block(k).begin} /\ pos_idx' = pos_idx /\ pos_tidx' = pos_tidx
        BY <2>5 DEF FoundFrame
      <3>2. h \in 0 .. MaxHandle
        BY <1>1, <1>2 DEF Handle
      <3> QED
        BY <1>1, <1>3, <1>5, <2>3, <3>1, <3>2
    <2> QED
      BY <2>3, <2>4, <2>5
  <1>7. CASE ~(h <= Block(k).maxhandle /\ Block(k).chain[h] # <<>>)
    <2>1. /\ chain_facidx' = loaded /\ pos_valid' = valid
          /\ pos_idx' = pos_idx /\ pos_tidx' = pos_tidx /\ pos_time' = pos_time
      BY <1>7 DEF ProcessValue
    <2> QED
      BY <1>1, <1>5, <2>1
  <1> QED
    BY <1>6, <1>7

(* process_value returns the value of the section.                          *)
LEMMA ProcessAnswers ==
  ASSUME NEW k, NEW h, NEW tim, NEW loaded, NEW valid, "rewind" \notin Usage,
         Asked(k, h, tim, loaded, valid), ProcessValue(k, h, tim, loaded, valid)
  PROVE  Return(h, tim, ValueIn(k, h, tim))
  <1>1. /\ WellFormed(file) /\ k \in DOMAIN file.blocks /\ h \in Handle /\ tim \in 0 .. MaxTime
        /\ loaded \in 0 .. MaxHandle /\ valid \in BOOLEAN
        /\ pos_idx \in Nat /\ pos_tidx \in Nat /\ pos_time \in 0 .. MaxTime
        /\ valid => /\ loaded \in Handle /\ CursorAt(k, loaded, pos_idx, pos_tidx)
                    /\ "rewind" \notin Usage => TimeOf(k, loaded, pos_idx) <= pos_time
    BY DEF Asked
  <1>2. MaxTime \in Nat /\ tim \in Nat /\ pos_time \in Nat
    BY <1>1, FilesAssumption
  <1>6. CASE h <= Block(k).maxhandle /\ Block(k).chain[h] # <<>>
    <2>1. SearchChain(k, h, tim, loaded, valid) /\ Records(k, h) # <<>>
      BY <1>6 DEF ProcessValue, Records
    <2>3. FoundRecord(k, h, tim) \/ FoundFrame(k, h, tim, valid /\ loaded = h)
      BY <1>1, <1>2, <2>1, Search
    <2>4. CASE FoundRecord(k, h, tim)
      <3>1. PICK j \in Due(k, h, tim) :
              j + 1 \notin Due(k, h, tim) /\ Return(h, tim, Records(k, h)[j].val)
        BY <2>4 DEF FoundRecord
      <3>2. ValueIn(k, h, tim) = Records(k, h)[j].val
        BY <1>1, <1>2, <3>1, ValueOfRecord
      <3> QED
        BY <3>1, <3>2, Zenon
    <2>5. CASE FoundFrame(k, h, tim, valid /\ loaded = h)
      <3>1. Due(k, h, tim) = {} /\ Return(h, tim, FrameValue(Block(k), h))
        BY <2>5, Zenon DEF FoundFrame
      <3>2. ValueIn(k, h, tim) = FrameValue(Block(k), h)
        BY <1>1, <1>2, <3>1, ValueOfFrame
      <3> QED
        BY <3>1, <3>2, Zenon
    <2> QED
      BY <2>3, <2>4, <2>5
  <1>7. CASE ~(h <= Block(k).maxhandle /\ Block(k).chain[h] # <<>>)
    <2>1. Return(h, tim, IF h <= Block(k).maxhandle THEN FrameValue(Block(k), h) ELSE NoValue)
      BY <1>7, Zenon DEF ProcessValue
    <2>2. /\ Block(k) \in Section /\ Block(k).frame_maxhandle <= Block(k).maxhandle
          /\ h \in Nat /\ (h > Block(k).maxhandle => Records(k, h) = <<>>)
      BY <1>1, BlockType, RecordFacts, FilesAssumption DEF Handle
    <2>3. Block(k).maxhandle \in Nat /\ Block(k).frame_maxhandle \in Nat
      BY <2>2 DEF Section
    <2>4. Records(k, h) = <<>>
      BY <1>7, <2>2, <2>3 DEF Records
    <2>5. Due(k, h, tim) = {}
      BY <2>4 DEF Due
    <2>6. ValueIn(k, h, tim) = FrameValue(Block(k), h)
      BY <1>1, <1>2, <2>5, ValueOfFrame
    <2>7. h > Block(k).maxhandle => FrameValue(Block(k), h) = NoValue
      BY <2>2, <2>3 DEF FrameValue
    <2>8. (IF h <= Block(k).maxhandle THEN FrameValue(Block(k), h) ELSE NoValue) = FrameValue(Block(k), h)
      BY <2>2, <2>3, <2>7
    <2> QED
      BY <2>1, <2>6, <2>8, Zenon
  <1> QED
    BY <1>6, <1>7

(* From the cached section, and from one the scan finds.                    *)
LEMMA CachedAsked ==
  ASSUME CursorInv, NEW h \in Handle, NEW tim \in 0 .. MaxTime, GetFromCached(h, tim)
  PROVE  /\ Asked(section, h, tim, chain_facidx, pos_valid)
         /\ ProcessValue(section, h, tim, chain_facidx, pos_valid) /\ section' = section
  <1>1. /\ section # 0 /\ Covers(section, tim) /\ section' = section
        /\ ProcessValue(section, h, tim, chain_facidx, pos_valid)
    BY DEF GetFromCached, Cached
  <1>2. /\ section \in 0 .. Len(file.blocks) /\ chain_facidx \in 0 .. MaxHandle
        /\ pos_valid \in BOOLEAN /\ pos_idx \in Nat /\ pos_tidx \in Nat /\ pos_time \in 0 .. MaxTime
        /\ pos_valid => chain_facidx # 0
        /\ WellFormed(file)
    BY DEF CursorInv, CursorType
  <1>3. file.blocks \in Seq(Section)
    BY <1>2 DEF WellFormed
  <1>4. section \in DOMAIN file.blocks
    BY <1>1, <1>2, <1>3
  <1>5. pos_valid => chain_facidx \in Handle
    BY <1>2, FilesAssumption DEF Handle
  <1>6. pos_valid => /\ CursorAt(section, chain_facidx, pos_idx, pos_tidx)
                     /\ "rewind" \notin Usage => TimeOf(section, chain_facidx, pos_idx) <= pos_time
    BY DEF CursorInv
  <1> QED
    BY <1>1, <1>2, <1>4, <1>5, <1>6, Zenon DEF Asked

(* A scan goes on with the section it found, no chain loaded and no cursor. *)
LEMMA ScanAsked ==
  ASSUME CursorInv, NEW h \in Handle, NEW tim \in 0 .. MaxTime, ScanToSection(h, tim)
  PROVE  \E k \in Covering(tim) :
            Asked(k, h, tim, 0, FALSE) /\ ProcessValue(k, h, tim, 0, FALSE) /\ section' = k
  <1>1. PICK k \in Covering(tim) : section' = k /\ ProcessValue(k, h, tim, 0, FALSE)
    BY DEF ScanToSection
  <1>2. k \in DOMAIN file.blocks /\ Covers(k, tim)
    BY DEF Covering
  <1>3. 0 \in 0 .. MaxHandle
    BY FilesAssumption
  <1>4. Asked(k, h, tim, 0, FALSE)
    BY <1>2, <1>3 DEF Asked, CursorInv, CursorType
  <1> QED
    BY <1>1, <1>4

(* Every outcome of fstReaderGetValueFromHandleAtTime keeps the cursor in   *)
(* order.                                                                   *)
LEMMA GetKeepsCursor ==
  ASSUME CursorInv, NEW h \in Handle, NEW tim \in 0 .. MaxTime, GetValueFromHandleAtTime(h, tim)
  PROVE  CursorInv'
  <1>1. CASE RefuseHandle(h, tim)
    <2>1. UNCHANGED <<file, rvat>>
      BY <1>1 DEF RefuseHandle, Return, settings
    <2> QED
      BY <2>1, CursorStays
  <1>2. CASE GetFromCached(h, tim)
    <2>1. /\ Asked(section, h, tim, chain_facidx, pos_valid)
          /\ ProcessValue(section, h, tim, chain_facidx, pos_valid) /\ section' = section
      BY <1>2, CachedAsked
    <2> QED
      BY <2>1, ProcessKeepsCursor
  <1>3. CASE ScanToEnd(h, tim)
    <2>1. /\ file' = file /\ section' = 0 /\ chain_facidx' = 0 /\ pos_valid' = FALSE
          /\ pos_idx' = pos_idx /\ pos_tidx' = pos_tidx /\ pos_time' = pos_time
      BY <1>3 DEF ScanToEnd, Return, settings
    <2>2. /\ WellFormed(file) /\ pos_idx \in Nat /\ pos_tidx \in Nat /\ pos_time \in 0 .. MaxTime
      BY DEF CursorInv, CursorType
    <2>3. 0 \in 0 .. MaxHandle /\ 0 \in 0 .. Len(file.blocks)
      BY <2>2, FilesAssumption DEF WellFormed
    <2> QED
      BY <2>1, <2>2, <2>3 DEF CursorInv, CursorType
  <1>4. CASE ScanToSection(h, tim)
    <2>1. PICK k \in Covering(tim) :
            Asked(k, h, tim, 0, FALSE) /\ ProcessValue(k, h, tim, 0, FALSE) /\ section' = k
      BY <1>4, ScanAsked
    <2> QED
      BY <2>1, ProcessKeepsCursor
  <1>5. CASE ScanMisreads(h, tim)
    <2>1. UNCHANGED <<file, rvat>>
      BY <1>5 DEF ScanMisreads, settings
    <2> QED
      BY <2>1, CursorStays
  <1> QED
    BY <1>1, <1>2, <1>3, <1>4, <1>5 DEF GetValueFromHandleAtTime

(* The answer is stated of the state after the call.                        *)
LEMMA AnswerKept ==
  ASSUME file' = file, result' = result, AnswerIsTheValue
  PROVE  AnswerIsTheValue'
  <1>1. ASSUME NEW k, NEW h, NEW tim PROVE ValueIn(k, h, tim)' = ValueIn(k, h, tim)
    BY Zenon DEF ValueIn, Block, Table, FrameValue
  <1>2. \A h, tim : Covering(tim)' = Covering(tim) /\ (HasValues(h)' <=> HasValues(h))
    BY Zenon DEF Covering, Covers, Block, HasValues
  <1> QED
    BY <1>1, <1>2 DEF AnswerIsTheValue

(* Nothing is promised unless a value was asked for.                        *)
LEMMA NoAnswerNeeded ==
  ASSUME result'.call # "value"
  PROVE  AnswerIsTheValue'
  BY DEF AnswerIsTheValue

(* The answer is the one returned.                                          *)
LEMMA AnswerOf ==
  ASSUME NEW h, NEW tim, NEW val, Return(h, tim, val),
         IF HasValues(h) /\ Covering(tim) # {} THEN \E k \in Covering(tim) : val = ValueIn(k, h, tim)
         ELSE val = NoValue
  PROVE  AnswerIsTheValue'
  <1>1. file' = file /\ result' = Returned(h, tim, val)
    BY DEF Return, settings
  <1>2. result'.handle = h /\ result'.time = tim /\ result'.val = val
    BY <1>1 DEF Returned
  <1>3. \A k : ValueIn(k, h, tim)' = ValueIn(k, h, tim)
    BY <1>1, Zenon DEF ValueIn, Block, Table, FrameValue
  <1>4. Covering(tim)' = Covering(tim) /\ (HasValues(h)' <=> HasValues(h))
    BY <1>1, Zenon DEF Covering, Covers, Block, HasValues
  <1>5. IF HasValues(h)' /\ Covering(tim)' # {}
        THEN \E k \in Covering(tim)' : result'.val = ValueIn(k, h, tim)'
        ELSE result'.val = NoValue
    BY <1>2, <1>3, <1>4
  <1> QED
    BY <1>2, <1>5, Zenon DEF AnswerIsTheValue

(* Every outcome of fstReaderGetValueFromHandleAtTime answers with the      *)
(* value.                                                                   *)
LEMMA GetAnswers ==
  ASSUME CursorInv, "rewind" \notin Usage, NEW h \in Handle, NEW tim \in 0 .. MaxTime,
         GetValueFromHandleAtTime(h, tim)
  PROVE  AnswerIsTheValue'
  <1>1. CASE RefuseHandle(h, tim)
    <2>1. ~HasValues(h) /\ Return(h, tim, NoValue)
      BY <1>1 DEF RefuseHandle
    <2> QED
      BY <2>1, AnswerOf
  <1>2. CASE GetFromCached(h, tim)
    <2>1. /\ Asked(section, h, tim, chain_facidx, pos_valid)
          /\ ProcessValue(section, h, tim, chain_facidx, pos_valid)
      BY <1>2, CachedAsked
    <2>2. Return(h, tim, ValueIn(section, h, tim))
      BY <2>1, ProcessAnswers
    <2>3. section \in Covering(tim) /\ HasValues(h)
      BY <1>2, <2>1 DEF Asked, Covering, GetFromCached
    <2> QED
      BY <2>2, <2>3, AnswerOf
  <1>3. CASE ScanToEnd(h, tim)
    <2>1. Covering(tim) = {} /\ Return(h, tim, NoValue)
      BY <1>3 DEF ScanToEnd
    <2> QED
      BY <2>1, AnswerOf
  <1>4. CASE ScanToSection(h, tim)
    <2>1. PICK k \in Covering(tim) : Asked(k, h, tim, 0, FALSE) /\ ProcessValue(k, h, tim, 0, FALSE)
      BY <1>4, ScanAsked
    <2>2. Return(h, tim, ValueIn(k, h, tim))
      BY <2>1, ProcessAnswers
    <2>3. HasValues(h)
      BY <1>4 DEF ScanToSection
    <2> QED
      BY <2>2, <2>3, AnswerOf
  <1>5. CASE ScanMisreads(h, tim)
    <2>1. result'.call = "other"
      BY <1>5 DEF ScanMisreads, NoResult
    <2> QED
      BY <2>1, NoAnswerNeeded
  <1> QED
    BY <1>1, <1>2, <1>3, <1>4, <1>5 DEF GetValueFromHandleAtTime

----------------------------------------------------------------------------
(* An iteration.                                                            *)

Call == [time : Nat, handle : Handle, val : Value, frame : BOOLEAN]
Heads == Seq(Seq(Handle))

LoopType ==
  /\ WellFormed(file) /\ phase \in {"idle", "sections", "times", "misread"} /\ mode \in Mode
  /\ limit \in Limits \cup {Unlimited}
  /\ process_mask \subseteq 1 .. file.maxhandle
  /\ blkpos \in 1 .. Len(file.blocks) + 1 /\ secnum \in 0 .. blkpos - 1
  /\ tc_head \in Heads /\ ti \in 0 .. Len(tc_head) /\ headptr \in [Handle -> Nat \ {0}]
  /\ called \in Seq(Call)
  /\ phase \notin {"idle", "misread"} => result = NoResult
  /\ IF phase = "times"
     THEN blkpos \in DOMAIN file.blocks /\ Len(tc_head) = Len(Table(blkpos))
     ELSE tc_head = <<>> /\ ti = 0

(* Inside a section: a masked chain with records left is linked at the time *)
(* of its next record, once, and nowhere else.                              *)
Left(h) == headptr[h] <= Len(Records(blkpos, h))
PlaceOf(h) == Place(blkpos, h, headptr[h])
LinkedOnce(list) == \A i, j \in 1 .. Len(list) : list[i] = list[j] => i = j
Links ==
  /\ \A h \in process_mask :
       /\ headptr[h] <= Len(Records(blkpos, h)) + 1
       /\ Left(h) => ti <= PlaceOf(h) /\ h \in ToSet(tc_head[PlaceOf(h)])
       /\ headptr[h] > 1 => Place(blkpos, h, headptr[h] - 1) <= ti
  /\ \A i \in 1 .. Len(tc_head) :
       /\ LinkedOnce(tc_head[i])
       /\ \A h \in ToSet(tc_head[i]) : h \in process_mask /\ Left(h) /\ i = PlaceOf(h)

Until(cs, tim) == Among(cs, {j \in DOMAIN cs : cs[j].time <= tim})
Kept(m, cs) == IF m = "fv" /\ Limited THEN Until(cs, limit.end) ELSE cs
SectionsUpTo(k) == Among(SubSeq(file.blocks, 1, k), {j \in 1 .. k : InRange(Block(j))})
ReadUpTo(m, k, h) == Kept(m, DecodeSections(SectionsUpTo(k), h))
Changes(k, h) == DecodeChain(Records(k, h), Table(k))

(* What was called back so far of a handle.                                 *)
Shown(m, h) == h \in process_mask /\ Reported(m, h)
CallsSoFar(h) ==
  ReadUpTo(mode, blkpos - 1, h)
    \o (IF phase = "times" THEN SubSeq(Changes(blkpos, h), 1, headptr[h] - 1) ELSE <<>>)

LoopInv ==
  /\ LoopType
  /\ phase = "times" =>
       /\ Links /\ InRange(Block(blkpos))
       /\ mode = "fv" /\ Limited /\ ti > 0 => Table(blkpos)[ti] <= limit.end
  /\ phase \in {"sections", "times"} =>
       \A h \in Handle : CallsOf(h) = IF Shown(mode, h) THEN CallsSoFar(h) ELSE <<>>

----------------------------------------------------------------------------
(* Selections of prefixes and of concatenations.                            *)
LEMMA PrefixMore ==
  ASSUME NEW A, NEW s \in Seq(A), NEW i \in 1 .. Len(s)
  PROVE  /\ SubSeq(s, 1, i) = Append(SubSeq(s, 1, i - 1), s[i]) /\ s[i] \in A
         /\ SubSeq(s, 1, i - 1) \in Seq(A) /\ Len(SubSeq(s, 1, i - 1)) = i - 1
         /\ SubSeq(s, 1, i) \in Seq(A)
  <1>1. Len(s) \in Nat /\ \A j \in 1 .. Len(s) : s[j] \in A
    OBVIOUS
  <1>2. /\ SubSeq(s, 1, i) \in Seq(A) /\ Len(SubSeq(s, 1, i)) = i
        /\ \A j \in 1 .. i : SubSeq(s, 1, i)[j] = s[j]
    <2>1. \A j \in 1 .. i : s[j] \in A
      BY <1>1
    <2>2. /\ SubSeq(s, 1, i) \in Seq(A) /\ Len(SubSeq(s, 1, i)) = IF 1 <= i THEN i - 1 + 1 ELSE 0
          /\ \A j \in 1 .. i - 1 + 1 : SubSeq(s, 1, i)[j] = s[1 + j - 1]
      BY <2>1, SubSeqProperties
    <2> QED
      BY <2>2
  <1>3. /\ SubSeq(s, 1, i - 1) \in Seq(A) /\ Len(SubSeq(s, 1, i - 1)) = i - 1
        /\ \A j \in 1 .. i - 1 : SubSeq(s, 1, i - 1)[j] = s[j]
    <2>1. \A j \in 1 .. i - 1 : s[j] \in A
      BY <1>1
    <2> DEFINE m == i - 1
    <2>2. m \in Nat
      OBVIOUS
    <2>3. \A j \in 1 .. m : s[j] \in A
      BY <2>1
    <2> HIDE DEF m
    <2>4. /\ SubSeq(s, 1, m) \in Seq(A) /\ Len(SubSeq(s, 1, m)) = IF 1 <= m THEN m - 1 + 1 ELSE 0
          /\ \A j \in 1 .. m - 1 + 1 : SubSeq(s, 1, m)[j] = s[1 + j - 1]
      BY <2>2, <2>3, SubSeqProperties
    <2>5. /\ SubSeq(s, 1, m) \in Seq(A) /\ Len(SubSeq(s, 1, m)) = m
          /\ \A j \in 1 .. m : SubSeq(s, 1, m)[j] = s[j]
      BY <2>2, <2>4
    <2> QED
      BY <2>5 DEF m
  <1> DEFINE p == SubSeq(s, 1, i - 1)
             q == SubSeq(s, 1, i)
             t == Append(p, s[i])
  <1>4. s[i] \in A
    BY <1>1
  <1> HIDE DEF p, q
  <1>5. t \in Seq(A) /\ Len(t) = i /\ t[i] = s[i] /\ \A j \in 1 .. i - 1 : t[j] = s[j]
    BY <1>3, <1>4 DEF p
  <1> HIDE DEF t
  <1>6. \A j \in 1 .. Len(q) : q[j] = t[j]
    BY <1>2, <1>5 DEF q
  <1>7. q = t
    BY <1>2, <1>5, <1>6, SeqEqual DEF q
  <1> QED
    BY <1>2, <1>3, <1>4, <1>7 DEF p, q, t

(* The empty prefix.                                                        *)
LEMMA PrefixNone == \A s : SubSeq(s, 1, 0) = <<>>
  BY SubSeqEmpty

(* An element appended to a concatenation.                                  *)
LEMMA AppendLast ==
  ASSUME NEW A, NEW s \in Seq(A), NEW u \in Seq(A), NEW e \in A
  PROVE  s \o Append(u, e) = Append(s \o u, e) /\ s \o u \in Seq(A) /\ Len(s \o u) = Len(s) + Len(u)
  <1>1. s \o u \in Seq(A) /\ Len(s \o u) = Len(s) + Len(u) /\ <<e>> \in Seq(A)
    BY ConcatProperties
  <1>2. Append(u, e) = u \o <<e>>
    BY AppendIsConcat
  <1>3. Append(s \o u, e) = (s \o u) \o <<e>>
    BY <1>1, AppendIsConcat
  <1>4. (s \o u) \o <<e>> = s \o (u \o <<e>>)
    BY <1>1, ConcatAssociative
  <1> QED
    BY <1>1, <1>2, <1>3, <1>4

(* The prefix is selected by the places up to its length.                   *)
LEMMA AmongPrefix ==
  ASSUME NEW A, NEW s \in Seq(A), NEW q \in 0 .. Len(s), NEW P,
         \A i \in 1 .. Len(s) : i \in P <=> i <= q
  PROVE  Among(s, P) = SubSeq(s, 1, q)
  <1>1. PICK f : Selects(f, s, P, A) /\ Among(s, P) = f[Len(s)]
    BY AmongSelects
  <1> DEFINE n == Len(s)
             S == {i \in 0 .. n : f[i] = SubSeq(s, 1, IF i <= q THEN i ELSE q)}
  <1>2. n \in Nat /\ f[0] = <<>> /\ \A i \in 1 .. n : f[i] = Selected(f[i - 1], s[i], i \in P)
    BY <1>1 DEF Selects
  <1>3. 0 \in S
    <2>1. (IF 0 <= q THEN 0 ELSE q) = 0 /\ 0 \in 0 .. n
      BY <1>2
    <2>2. f[0] = SubSeq(s, 1, 0)
      BY <1>2, PrefixNone, Zenon
    <2>3. f[0] = SubSeq(s, 1, IF 0 <= q THEN 0 ELSE q)
      BY <2>1, <2>2, Zenon
    <2> QED
      BY <2>1, <2>3, Zenon
  <1>4. ASSUME NEW i \in 1 .. n, i - 1 \in S PROVE i \in S
    <2>1. f[i] = Selected(f[i - 1], s[i], i \in P) /\ i \in 0 .. n
      BY <1>2
    <2>2. f[i - 1] = SubSeq(s, 1, IF i - 1 <= q THEN i - 1 ELSE q)
      BY <1>4
    <2>3. CASE i <= q
      <3>1. f[i - 1] = SubSeq(s, 1, i - 1) /\ i \in P
        BY <2>2, <2>3
      <3>2. SubSeq(s, 1, i) = Append(SubSeq(s, 1, i - 1), s[i])
        BY PrefixMore
      <3>3. f[i] = SubSeq(s, 1, i)
        BY <2>1, <3>1, <3>2 DEF Selected
      <3> QED
        BY <2>1, <2>3, <3>3
    <2>4. CASE ~(i <= q)
      <3>1. f[i - 1] = SubSeq(s, 1, q) /\ i \notin P
        <4>1. CASE i - 1 = q
          BY <2>2, <2>4, <4>1
        <4>2. CASE i - 1 # q
          BY <2>2, <2>4, <4>2
        <4> QED
          BY <4>1, <4>2
      <3>2. f[i] = SubSeq(s, 1, q)
        BY <2>1, <3>1 DEF Selected
      <3> QED
        BY <2>1, <2>4, <3>2
    <2> QED
      BY <2>3, <2>4
  <1> HIDE DEF S
  <1>5. n \in S
    <2> HIDE DEF n
    <2>1. 0 .. n \subseteq S
      BY <1>2, <1>3, <1>4, BoundedInduction
    <2> QED
      BY <1>2, <2>1
  <1>6. f[n] = SubSeq(s, 1, q)
    BY <1>5 DEF S
  <1> QED
    BY <1>1, <1>6

(* Places that are the same within the sequence.                            *)
LEMMA AmongSame ==
  ASSUME NEW A, NEW s \in Seq(A), NEW P, NEW Q, \A i \in 1 .. Len(s) : i \in P <=> i \in Q
  PROVE  Among(s, P) = Among(s, Q)
  <1> DEFINE n == Len(s)
  <1>1. PICK f : Selects(f, s, P, A) /\ Among(s, P) = f[n]
    BY AmongSelects
  <1>2. PICK g : Selects(g, s, Q, A) /\ Among(s, Q) = g[n]
    BY AmongSelects
  <1>3. n \in Nat
    OBVIOUS
  <1>4. Alike(g, f, n)
    <2>1. g[0] = f[0]
      BY <1>1, <1>2 DEF Selects
    <2>2. ASSUME NEW i \in 1 .. n, g[i - 1] = f[i - 1] PROVE g[i] = f[i]
      <3>1. g[i] = Selected(g[i - 1], s[i], i \in Q) /\ f[i] = Selected(f[i - 1], s[i], i \in P)
        BY <1>1, <1>2 DEF Selects
      <3> QED
        BY <2>2, <3>1 DEF Selected
    <2> QED
      BY <2>1, <2>2 DEF Alike
  <1> HIDE DEF n
  <1>5. \A k \in 0 .. n : g[k] = f[k]
    BY <1>3, <1>4, SameRecursion
  <1> QED
    BY <1>1, <1>2, <1>3, <1>5

(* A selection from a concatenation is one from each part.                  *)
Splits(s, t, P, Q, R) ==
  /\ \A i \in 1 .. Len(s) : i \in P <=> i \in R
  /\ \A i \in 1 .. Len(t) : i \in Q <=> Len(s) + i \in R

(* Among, of two sequences.                                                 *)
LEMMA AmongConcat ==
  ASSUME NEW A, NEW s \in Seq(A), NEW t \in Seq(A), NEW P, NEW Q, NEW R, Splits(s, t, P, Q, R)
  PROVE  Among(s \o t, R) = Among(s, P) \o Among(t, Q)
  <1> DEFINE n == Len(t)
             T(i) == SubSeq(t, 1, i)
             S == {i \in 0 .. n : Among(s \o T(i), R) = Among(s, P) \o Among(T(i), Q)}
  <1>1. n \in Nat /\ Len(s) \in Nat /\ Among(s, P) \in Seq(A)
    BY AmongType
  <1>2. 0 \in S
    <2>1. T(0) = <<>> /\ s \o <<>> = s
      BY PrefixNone, ConcatEmptySeq
    <2>2. Among(s, R) = Among(s, P) /\ Among(<<>>, Q) = <<>>
      BY AmongSame, AmongNone DEF Splits
    <2>3. Among(s, P) \o <<>> = Among(s, P)
      BY <1>1, ConcatEmptySeq
    <2> HIDE DEF T
    <2>4. Among(s \o T(0), R) = Among(s, P) \o Among(T(0), Q)
      BY <2>1, <2>2, <2>3
    <2> QED
      BY <1>1, <2>4
  <1>3. ASSUME NEW i \in 1 .. n, i - 1 \in S PROVE i \in S
    <2> DEFINE u == T(i - 1)
               e == t[i]
    <2>1. T(i) = Append(u, e) /\ e \in A /\ u \in Seq(A) /\ Len(u) = i - 1 /\ i \in 0 .. n
      BY PrefixMore
    <2>2. Among(s \o u, R) = Among(s, P) \o Among(u, Q)
      BY <1>3
    <2> HIDE DEF u, e, T
    <2>3. s \o Append(u, e) = Append(s \o u, e) /\ s \o u \in Seq(A) /\ Len(s \o u) = Len(s) + (i - 1)
      BY <2>1, AppendLast
    <2>4. Among(Append(s \o u, e), R) = Selected(Among(s \o u, R), e, Len(s \o u) + 1 \in R)
      <3> DEFINE v == s \o u
      <3>1. v \in Seq(A)
        BY <2>3
      <3> HIDE DEF v
      <3>2. Among(Append(v, e), R) = Selected(Among(v, R), e, Len(v) + 1 \in R)
        BY <2>1, <3>1, AmongMore
      <3> QED
        BY <3>2 DEF v
    <2>5. Among(Append(u, e), Q) = Selected(Among(u, Q), e, Len(u) + 1 \in Q)
      BY <2>1, AmongMore
    <2>6. Len(s \o u) + 1 = Len(s) + i /\ Len(u) + 1 = i
      BY <1>1, <2>1, <2>3
    <2>7. Len(s) + i \in R <=> i \in Q
      BY DEF Splits
    <2>8. Among(u, Q) \in Seq(A)
      BY <2>1, AmongType
    <2>9. Among(s, P) \o Append(Among(u, Q), e) = Append(Among(s, P) \o Among(u, Q), e)
      BY <1>1, <2>1, <2>8, AppendLast
    <2>10. Among(s \o T(i), R) = Among(s, P) \o Among(T(i), Q)
      BY <2>1, <2>2, <2>3, <2>4, <2>5, <2>6, <2>7, <2>9 DEF Selected
    <2> QED
      BY <2>1, <2>10
  <1> HIDE DEF S
  <1>4. n \in S
    <2> HIDE DEF n, T
    <2>1. 0 .. n \subseteq S
      BY <1>1, <1>2, <1>3, BoundedInduction
    <2> QED
      BY <1>1, <2>1
  <1>5. T(n) = t
    BY SubSeqFull
  <1> HIDE DEF T
  <1> QED
    BY <1>4, <1>5 DEF S

----------------------------------------------------------------------------
(* The changes of a handle in some sections.                                *)
Sample == [time : Nat, val : Value]
OfSection(b, h) == DecodeChain(b.chain[h], TimeTable(b.tchn))
Decodes(f, blocks, h) ==
  /\ f \in [0 .. Len(blocks) -> Seq(Sample)] /\ f[0] = <<>>
  /\ \A i \in 1 .. Len(blocks) : f[i] = f[i - 1] \o OfSection(blocks[i], h)
Decodable(B, h) == \A b \in B : OfSection(b, h) \in Seq(Sample)

(* DecodeSections is the function its definition recurses on.               *)
LEMMA SectionsDecode ==
  ASSUME NEW B, NEW h, Decodable(B, h), NEW blocks \in Seq(B)
  PROVE  \E f : Decodes(f, blocks, h) /\ DecodeSections(blocks, h) = f[Len(blocks)]
  <1> DEFINE n == Len(blocks)
             X == Seq(Sample)
             Body(g) == [i \in 0 .. Len(blocks) |->
                           IF i = 0 THEN <<>>
                           ELSE g[i - 1] \o DecodeChain(blocks[i].chain[h], TimeTable(blocks[i].tchn))]
             upto == CHOOSE g : g = Body(g)
             step == [i \in 1 .. n |-> [x \in X |-> x \o OfSection(blocks[i], h)]]
  <1>1. n \in Nat /\ <<>> \in X /\ \A i \in 1 .. n : blocks[i] \in B
    OBVIOUS
  <1>2. \A i \in 1 .. n : OfSection(blocks[i], h) \in Seq(Sample)
    BY <1>1 DEF Decodable
  <1>3. \A x, y \in X : x \o y \in X
    OBVIOUS
  <1>4. step \in [1 .. n -> [X -> X]]
        /\ \A i \in 1 .. n : \A x \in X : step[i][x] = x \o OfSection(blocks[i], h)
    <2> HIDE DEF n
    <2> USE DEF X
    <2>1. \A i \in 1 .. n : \A x \in X : x \o OfSection(blocks[i], h) \in X
      BY <1>2, <1>3
    <2> HIDE DEF X
    <2> QED
      BY <2>1
  <1> HIDE DEF step
  <1>5. PICK R : Recurs(R, X, <<>>, step, n)
    <2> HIDE DEF X, n
    <2> QED
      BY <1>1, <1>4, RecursionExists
  <1>6. R \in [0 .. n -> X] /\ R[0] = <<>>
    BY <1>5 DEF Recurs
  <1>7. ASSUME NEW i \in 1 .. n PROVE R[i] = R[i - 1] \o OfSection(blocks[i], h)
    <2>1. i - 1 \in 0 .. n
      BY <1>1
    <2>2. R[i] = step[i][R[i - 1]] /\ R[i - 1] \in X
      BY <1>5, <2>1 DEF Recurs
    <2> HIDE DEF X, n
    <2> QED
      BY <1>4, <2>2
  <1>8. R = Body(R)
    <2>1. ASSUME NEW i \in 0 .. n PROVE R[i] = Body(R)[i]
      <3>1. CASE i = 0
        BY <1>6, <3>1
      <3>2. CASE i # 0
        <4>1. i \in 1 .. n
          BY <1>1, <3>2
        <4> QED
          BY <1>7, <3>2, <4>1 DEF OfSection
      <3> QED
        BY <3>1, <3>2
    <2>2. R = [i \in 0 .. n |-> R[i]]
      BY <1>6
    <2> QED
      BY <2>1, <2>2, Zenon
  <1>9. upto = Body(upto)
    BY <1>8, Zenon
  <1>10. DecodeSections(blocks, h) = upto[n]
    BY Zenon DEF DecodeSections
  <1> HIDE DEF upto
  <1>11. \A i \in 0 .. n : upto[i] = R[i]
    <2>1. upto[0] = <<>>
      BY <1>1, <1>9
    <2>2. ASSUME NEW i \in 1 .. n PROVE upto[i] = upto[i - 1] \o OfSection(blocks[i], h)
      <3>1. i \in 0 .. n /\ i # 0
        BY <1>1
      <3>2. upto[i] = Body(upto)[i]
        BY <1>9
      <3>3. Body(upto)[i] = upto[i - 1] \o OfSection(blocks[i], h)
        BY <3>1 DEF OfSection
      <3> QED
        BY <3>2, <3>3
    <2>3. Alike(upto, R, n)
      <3> HIDE DEF n
      <3> QED
        BY <1>6, <1>7, <2>1, <2>2, Zenon DEF Alike
    <2> HIDE DEF n
    <2> QED
      BY <1>1, <2>3, SameRecursion
  <1>12. DecodeSections(blocks, h) = R[n]
    BY <1>1, <1>10, <1>11
  <1>13. Decodes(R, blocks, h)
    BY <1>6, <1>7, Zenon DEF Decodes
  <1> QED
    BY <1>12, <1>13, Zenon

(* Decoded sections are samples.                                            *)
LEMMA DecodeType ==
  ASSUME NEW B, NEW h, Decodable(B, h), NEW blocks \in Seq(B)
  PROVE  DecodeSections(blocks, h) \in Seq(Sample)
  <1>1. PICK f : Decodes(f, blocks, h) /\ DecodeSections(blocks, h) = f[Len(blocks)]
    BY SectionsDecode
  <1>2. Len(blocks) \in 0 .. Len(blocks)
    OBVIOUS
  <1> QED
    BY <1>1, <1>2 DEF Decodes

(* No section has no change.                                                *)
LEMMA DecodeNone == \A h : DecodeSections(<<>>, h) = <<>>
  <1> TAKE h
  <1>1. Decodable({}, h) /\ <<>> \in Seq({}) /\ Len(<<>>) = 0
    BY DEF Decodable
  <1>2. PICK f : Decodes(f, <<>>, h) /\ DecodeSections(<<>>, h) = f[Len(<<>>)]
    BY <1>1, SectionsDecode
  <1> QED
    BY <1>1, <1>2 DEF Decodes

(* One more section adds its own changes, behind the others.                *)
LEMMA DecodeMore ==
  ASSUME NEW B, NEW h, Decodable(B, h), NEW blocks \in Seq(B), NEW b \in B
  PROVE  DecodeSections(Append(blocks, b), h) = DecodeSections(blocks, h) \o OfSection(b, h)
  <1> DEFINE t == Append(blocks, b)
             n == Len(blocks)
  <1>1. t \in Seq(B) /\ Len(t) = n + 1 /\ n \in Nat /\ t[n + 1] = b /\ \A i \in 1 .. n : t[i] = blocks[i]
    OBVIOUS
  <1> HIDE DEF t
  <1>2. PICK f : Decodes(f, blocks, h) /\ DecodeSections(blocks, h) = f[n]
    BY SectionsDecode
  <1>3. PICK g : Decodes(g, t, h) /\ DecodeSections(t, h) = g[n + 1]
    <2>1. \E g : Decodes(g, t, h) /\ DecodeSections(t, h) = g[Len(t)]
      BY <1>1, SectionsDecode
    <2> QED
      BY <1>1, <2>1
  <1>4. Alike(g, f, n)
    <2>1. g[0] = f[0]
      BY <1>2, <1>3 DEF Decodes
    <2>2. ASSUME NEW i \in 1 .. n, g[i - 1] = f[i - 1] PROVE g[i] = f[i]
      <3>1. i \in 1 .. n + 1 /\ t[i] = blocks[i]
        BY <1>1
      <3>2. g[i] = g[i - 1] \o OfSection(t[i], h) /\ f[i] = f[i - 1] \o OfSection(blocks[i], h)
        BY <1>1, <1>2, <1>3, <3>1 DEF Decodes
      <3> QED
        BY <2>2, <3>1, <3>2
    <2> QED
      BY <2>1, <2>2 DEF Alike
  <1>5. g[n] = f[n]
    <2> HIDE DEF n
    <2>1. \A k \in 0 .. n : g[k] = f[k]
      BY <1>1, <1>4, SameRecursion
    <2> QED
      BY <1>1, <2>1
  <1>6. g[n + 1] = g[n] \o OfSection(b, h)
    <2>1. n + 1 \in 1 .. n + 1 /\ (n + 1) - 1 = n
      BY <1>1
    <2> QED
      BY <1>1, <1>3, <2>1 DEF Decodes
  <1> QED
    BY <1>2, <1>3, <1>5, <1>6 DEF t

(* The sections of a well-formed file.                                      *)
OwnSections == {file.blocks[k] : k \in DOMAIN file.blocks}

(* The changes of a chain, record by record.                                *)
LEMMA ChangesFacts ==
  ASSUME WellFormed(file), NEW k \in DOMAIN file.blocks, NEW h \in Handle
  PROVE  /\ Changes(k, h) \in Seq(Sample) /\ Len(Changes(k, h)) = Len(Records(k, h))
         /\ OfSection(file.blocks[k], h) = Changes(k, h)
         /\ \A j \in 1 .. Len(Records(k, h)) :
              Changes(k, h)[j] = [time |-> TimeOf(k, h, j), val |-> Records(k, h)[j].val]
  <1> DEFINE n == Len(Records(k, h))
  <1>1. Changes(k, h) = [j \in 1 .. n |-> [time |-> TimeOf(k, h, j), val |-> Records(k, h)[j].val]]
    BY DecodedChain DEF Changes
  <1>2. Records(k, h) \in Seq(Change) /\ n \in Nat /\ \A j \in 1 .. n : TimeOf(k, h, j) \in Nat
    BY RecordFacts, TimesFacts
  <1>3. \A j \in 1 .. n : Records(k, h)[j].val \in Value
    <2>1. \A j \in 1 .. n : Records(k, h)[j] \in Change
      BY <1>2
    <2> QED
      BY <2>1 DEF Change
  <1>4. \A j \in 1 .. n : [time |-> TimeOf(k, h, j), val |-> Records(k, h)[j].val] \in Sample
    BY <1>2, <1>3 DEF Sample
  <1>5. OfSection(file.blocks[k], h) = Changes(k, h)
    BY Zenon DEF OfSection, Changes, Records, Table, Block
  <1> HIDE DEF n
  <1>6. Changes(k, h) \in Seq(Sample) /\ Len(Changes(k, h)) = n
    BY <1>1, <1>2, <1>4
  <1>7. \A j \in 1 .. n : Changes(k, h)[j] = [time |-> TimeOf(k, h, j), val |-> Records(k, h)[j].val]
    BY <1>1
  <1> QED
    BY <1>5, <1>6, <1>7 DEF n

(* The sections of the file can be decoded.                                 *)
LEMMA OwnDecodable ==
  ASSUME WellFormed(file), NEW h \in Handle
  PROVE  /\ Decodable(OwnSections, h) /\ file.blocks \in Seq(OwnSections)
         /\ DOMAIN file.blocks = 1 .. Len(file.blocks) /\ Len(file.blocks) \in Nat \ {0}
  <1>1. file.blocks \in Seq(Section) /\ file.blocks # <<>>
    BY DEF WellFormed
  <1>2. file.blocks \in Seq(OwnSections)
    BY <1>1 DEF OwnSections
  <1>3. ASSUME NEW b \in OwnSections PROVE OfSection(b, h) \in Seq(Sample)
    <2>1. PICK k \in DOMAIN file.blocks : b = file.blocks[k]
      BY DEF OwnSections
    <2> QED
      BY <2>1, ChangesFacts
  <1> QED
    BY <1>1, <1>2, <1>3 DEF Decodable

----------------------------------------------------------------------------
(* What an iteration reads.                                                 *)

(* The samples until a time, of two lists.                                  *)
LEMMA UntilConcat ==
  ASSUME NEW cs \in Seq(Sample), NEW ds \in Seq(Sample), NEW tim
  PROVE  Until(cs \o ds, tim) = Until(cs, tim) \o Until(ds, tim)
  <1> DEFINE es == cs \o ds
             P == {j \in DOMAIN cs : cs[j].time <= tim}
             Q == {j \in DOMAIN ds : ds[j].time <= tim}
             R == {j \in DOMAIN es : es[j].time <= tim}
  <1>1. /\ DOMAIN cs = 1 .. Len(cs) /\ DOMAIN ds = 1 .. Len(ds)
        /\ DOMAIN es = 1 .. Len(cs) + Len(ds) /\ Len(cs) \in Nat /\ Len(ds) \in Nat
        /\ \A i \in 1 .. Len(cs) : es[i] = cs[i]
        /\ \A i \in 1 .. Len(ds) : es[Len(cs) + i] = ds[i]
    OBVIOUS
  <1> HIDE DEF es
  <1>2. \A i \in 1 .. Len(cs) : i \in P <=> i \in R
    BY <1>1
  <1>3. \A i \in 1 .. Len(ds) : i \in Q <=> Len(cs) + i \in R
    BY <1>1
  <1> HIDE DEF P, Q, R
  <1>4. Splits(cs, ds, P, Q, R)
    BY <1>2, <1>3 DEF Splits
  <1>5. Among(cs \o ds, R) = Among(cs, P) \o Among(ds, Q)
    BY <1>4, AmongConcat
  <1> QED
    BY <1>5, Zenon DEF Until, P, Q, R, es

(* What an iteration keeps, of two lists.                                   *)
LEMMA KeptConcat ==
  ASSUME NEW cs \in Seq(Sample), NEW ds \in Seq(Sample), NEW m
  PROVE  Kept(m, cs \o ds) = Kept(m, cs) \o Kept(m, ds)
  BY UntilConcat, Zenon DEF Kept

(* What an iteration keeps are samples.                                     *)
LEMMA KeptType ==
  ASSUME NEW cs \in Seq(Sample), NEW m
  PROVE  Kept(m, cs) \in Seq(Sample)
  BY AmongType, Zenon DEF Kept, Until

(* Of nothing it keeps nothing.                                             *)
LEMMA KeptNone == \A m : Kept(m, <<>>) = <<>>
  BY AmongNone, Zenon DEF Kept, Until

(* The sections of the range up to one more section.                        *)
LEMMA SectionsMore ==
  ASSUME WellFormed(file), NEW k \in 1 .. Len(file.blocks)
  PROVE  /\ SectionsUpTo(k) = Selected(SectionsUpTo(k - 1), file.blocks[k], InRange(Block(k)))
         /\ SectionsUpTo(k - 1) \in Seq(OwnSections) /\ file.blocks[k] \in OwnSections
  <1> DEFINE s == SubSeq(file.blocks, 1, k - 1)
             e == file.blocks[k]
             P == {j \in 1 .. k - 1 : InRange(Block(j))}
             Q == {j \in 1 .. k : InRange(Block(j))}
  <1>1. file.blocks \in Seq(OwnSections)
    <2>1. file.blocks \in Seq(Section)
      BY DEF WellFormed
    <2> QED
      BY <2>1 DEF OwnSections
  <1>2. /\ SubSeq(file.blocks, 1, k) = Append(s, e) /\ e \in OwnSections
        /\ s \in Seq(OwnSections) /\ Len(s) = k - 1
    BY <1>1, PrefixMore
  <1>3. \A i \in 1 .. Len(s) : i \in P <=> i \in Q
    BY <1>2
  <1>4. k \in Q <=> InRange(Block(k))
    OBVIOUS
  <1>5. SectionsUpTo(k) = Among(SubSeq(file.blocks, 1, k), Q) /\ SectionsUpTo(k - 1) = Among(s, P)
    BY Zenon DEF SectionsUpTo
  <1>6. Len(s) + 1 = k
    BY <1>2
  <1> HIDE DEF s, e, P, Q
  <1>7. Among(Append(s, e), Q) = Selected(Among(s, P), e, Len(s) + 1 \in Q)
    BY <1>2, <1>3, AmongMore
  <1>8. Among(s, P) \in Seq(OwnSections)
    BY <1>2, AmongType
  <1>9. SectionsUpTo(k) = Selected(SectionsUpTo(k - 1), e, InRange(Block(k)))
    BY <1>2, <1>4, <1>5, <1>6, <1>7 DEF Selected
  <1> QED
    BY <1>2, <1>5, <1>8, <1>9 DEF e

(* Before the first section nothing is read.                                *)
LEMMA ReadNone ==
  ASSUME NEW m, NEW h
  PROVE  ReadUpTo(m, 0, h) = <<>>
  <1>1. SectionsUpTo(0) = <<>>
    BY PrefixNone, AmongNone, Zenon DEF SectionsUpTo
  <1>2. DecodeSections(<<>>, h) = <<>>
    BY DecodeNone
  <1> QED
    BY <1>1, <1>2, KeptNone, Zenon DEF ReadUpTo

(* One more section is read if it is in the range.                          *)
LEMMA ReadMore ==
  ASSUME WellFormed(file), NEW k \in 1 .. Len(file.blocks), NEW h \in Handle, NEW m
  PROVE  /\ ReadUpTo(m, k, h) = ReadUpTo(m, k - 1, h)
                                  \o (IF InRange(Block(k)) THEN Kept(m, Changes(k, h)) ELSE <<>>)
         /\ ReadUpTo(m, k - 1, h) \in Seq(Sample) /\ ReadUpTo(m, k, h) \in Seq(Sample)
  <1> DEFINE s == SectionsUpTo(k - 1)
             e == file.blocks[k]
             ds == DecodeSections(s, h)
             cs == Changes(k, h)
  <1>1. /\ SectionsUpTo(k) = Selected(s, e, InRange(Block(k)))
        /\ s \in Seq(OwnSections) /\ e \in OwnSections
    BY SectionsMore
  <1>2. Decodable(OwnSections, h) /\ k \in DOMAIN file.blocks
    BY OwnDecodable
  <1>3. cs \in Seq(Sample) /\ OfSection(e, h) = cs
    BY <1>2, ChangesFacts
  <1>4. ds \in Seq(Sample)
    BY <1>1, <1>2, DecodeType
  <1>5. ReadUpTo(m, k - 1, h) = Kept(m, ds) /\ Kept(m, ds) \in Seq(Sample)
    BY <1>4, KeptType, Zenon DEF ReadUpTo
  <1>6. CASE InRange(Block(k))
    <2>1. SectionsUpTo(k) = Append(s, e)
      BY <1>1, <1>6, Zenon DEF Selected
    <2>2. DecodeSections(Append(s, e), h) = ds \o cs
      BY <1>1, <1>2, <1>3, DecodeMore
    <2>3. Kept(m, ds \o cs) = Kept(m, ds) \o Kept(m, cs) /\ Kept(m, cs) \in Seq(Sample)
      BY <1>3, <1>4, KeptConcat, KeptType
    <2>4. ReadUpTo(m, k, h) = Kept(m, ds) \o Kept(m, cs)
      BY <2>1, <2>2, <2>3, Zenon DEF ReadUpTo
    <2>5. Kept(m, ds) \o Kept(m, cs) \in Seq(Sample)
      BY <1>5, <2>3
    <2> QED
      BY <1>5, <1>6, <2>4, <2>5, Zenon
  <1>7. CASE ~InRange(Block(k))
    <2>1. SectionsUpTo(k) = s
      BY <1>1, <1>7, Zenon DEF Selected
    <2>2. ReadUpTo(m, k, h) = Kept(m, ds)
      BY <2>1, Zenon DEF ReadUpTo
    <2>3. Kept(m, ds) \o <<>> = Kept(m, ds)
      BY <1>5, ConcatEmptySeq
    <2> QED
      BY <1>5, <1>7, <2>2, <2>3, Zenon
  <1> QED
    BY <1>6, <1>7

(* What is read are samples.                                                *)
LEMMA ReadType ==
  ASSUME WellFormed(file), NEW k \in 0 .. Len(file.blocks), NEW h \in Handle, NEW m
  PROVE  ReadUpTo(m, k, h) \in Seq(Sample)
  <1>1. CASE k = 0
    <2>1. <<>> \in Seq(Sample)
      OBVIOUS
    <2> QED
      BY <1>1, <2>1, ReadNone
  <1>2. CASE k # 0
    <2>1. k \in 1 .. Len(file.blocks)
      BY <1>2
    <2> QED
      BY <2>1, ReadMore
  <1> QED
    BY <1>1, <1>2

(* Sections begin where the ones before end: behind one that begins after   *)
(* the range, all do.                                                       *)
LEMMA BeginsGrow ==
  ASSUME WellFormed(file), NEW i \in 1 .. Len(file.blocks), NEW j \in i .. Len(file.blocks)
  PROVE  Block(i).begin <= Block(j).begin
  <1> DEFINE n == Len(file.blocks)
             S == {d \in Nat : i + d <= n => Block(i).begin <= Block(i + d).begin}
  <1>1. n \in Nat /\ \A k \in 1 .. n : /\ Block(k).begin \in Nat /\ Block(k).end \in Nat
                                       /\ Block(k).begin <= Block(k).end
    <2>1. DOMAIN file.blocks = 1 .. n /\ n \in Nat
      <3>1. file.blocks \in Seq(Section)
        BY DEF WellFormed
      <3> QED
        BY <3>1
    <2> QED
      BY <2>1, BlockType
  <1>2. \A k \in 1 .. n : k > 1 => Block(k).begin = Block(k - 1).end
    <2>1. DOMAIN file.blocks = 1 .. n
      <3>1. file.blocks \in Seq(Section)
        BY DEF WellFormed
      <3> QED
        BY <3>1
    <2>2. \A k \in DOMAIN file.blocks : k > 1 => Block(k).begin = Block(k - 1).end
      BY Zenon DEF WellFormed, Block
    <2> QED
      BY <2>1, <2>2
  <1>3. 0 \in S
    BY <1>1
  <1>4. ASSUME NEW d \in S PROVE d + 1 \in S
    <2> SUFFICES ASSUME i + (d + 1) <= n PROVE Block(i).begin <= Block(i + (d + 1)).begin
      OBVIOUS
    <2>1. /\ i + (d + 1) \in 1 .. n /\ i + (d + 1) > 1 /\ (i + (d + 1)) - 1 = i + d /\ i + d \in 1 .. n
          /\ Block(i).begin <= Block(i + d).begin
      BY <1>1
    <2>2. Block(i + (d + 1)).begin = Block(i + d).end
      BY <1>2, <2>1
    <2> QED
      BY <1>1, <2>1, <2>2
  <1>5. S \in SUBSET Nat
    OBVIOUS
  <1> HIDE DEF S
  <1>6. S = Nat
    BY <1>3, <1>4, <1>5, SetInduction
  <1>7. j - i \in S /\ i + (j - i) = j
    BY <1>1, <1>6
  <1> QED
    BY <1>7 DEF S

(* Behind a section that begins after the range nothing is read.            *)
LEMMA NothingLater ==
  ASSUME WellFormed(file), NEW k \in 1 .. Len(file.blocks) + 1, NEW h \in Handle, NEW m,
         limit \in Limits \cup {Unlimited},
         k <= Len(file.blocks) => Limited /\ Block(k).begin > limit.end
  PROVE  ReadUpTo(m, Len(file.blocks), h) = ReadUpTo(m, k - 1, h)
  <1> DEFINE n == Len(file.blocks)
             S == {d \in Nat : k - 1 + d <= n => ReadUpTo(m, k - 1 + d, h) = ReadUpTo(m, k - 1, h)}
  <1>1. n \in Nat /\ \A i \in 1 .. n : Block(i).begin \in Nat
    <2>1. DOMAIN file.blocks = 1 .. n /\ n \in Nat
      <3>1. file.blocks \in Seq(Section)
        BY DEF WellFormed
      <3> QED
        BY <3>1
    <2> QED
      BY <2>1, BlockType
  <1>2. 0 \in S
    <2>1. k - 1 + 0 = k - 1
      BY <1>1
    <2> QED
      BY <2>1
  <1>3. ASSUME NEW d \in S PROVE d + 1 \in S
    <2> SUFFICES ASSUME k - 1 + (d + 1) <= n PROVE ReadUpTo(m, k - 1 + (d + 1), h) = ReadUpTo(m, k - 1, h)
      OBVIOUS
    <2> DEFINE j == k - 1 + (d + 1)
    <2>1. /\ j \in 1 .. n /\ j - 1 = k - 1 + d /\ j - 1 <= n /\ k \in 1 .. n /\ j \in k .. n
          /\ ReadUpTo(m, k - 1 + d, h) = ReadUpTo(m, k - 1, h)
      BY <1>1
    <2> HIDE DEF j
    <2>2. Block(k).begin <= Block(j).begin
      BY <2>1, BeginsGrow
    <2>3. limit.end \in Nat
      <3>1. limit \in Limits
        BY <2>1 DEF Limited
      <3> QED
        BY <3>1, FilesAssumption
    <2>4. ~InRange(Block(j))
      BY <1>1, <2>1, <2>2, <2>3 DEF InRange
    <2>5. ReadUpTo(m, j, h) = ReadUpTo(m, j - 1, h) \o <<>> /\ ReadUpTo(m, j - 1, h) \in Seq(Sample)
      BY <2>1, <2>4, ReadMore
    <2>6. ReadUpTo(m, j, h) = ReadUpTo(m, j - 1, h)
      BY <2>5, ConcatEmptySeq
    <2> QED
      BY <2>1, <2>6 DEF j
  <1>4. S \in SUBSET Nat
    OBVIOUS
  <1> HIDE DEF S
  <1>5. S = Nat
    BY <1>2, <1>3, <1>4, SetInduction
  <1>6. n - (k - 1) \in S /\ k - 1 + (n - (k - 1)) = n
    BY <1>1, <1>5
  <1> QED
    BY <1>6 DEF S

----------------------------------------------------------------------------
(* The callbacks of a handle, but for those of a frame.                     *)
CallPlaces(calls, h) == {i \in DOMAIN calls : calls[i].handle = h /\ ~calls[i].frame}
SampleOf(e) == [time |-> e.time, val |-> e.val]
SamplesOf(cs) == [k \in DOMAIN cs |-> [time |-> cs[k].time, val |-> cs[k].val]]
CallsIn(calls, h) == SamplesOf(Among(calls, CallPlaces(calls, h)))

(* CallsOf, of the callbacks so far.                                        *)
LEMMA CallsOfCalled == \A h : CallsOf(h) = CallsIn(called, h)
  BY Zenon DEF CallsOf, CallsIn, SamplesOf, CallPlaces

(* No callback, no change.                                                  *)
LEMMA CallsNone == \A h : CallsIn(<<>>, h) = <<>>
  <1> TAKE h
  <1>1. Among(<<>>, CallPlaces(<<>>, h)) = <<>>
    BY AmongNone
  <1>2. SamplesOf(<<>>) = <<>>
    BY DEF SamplesOf
  <1> QED
    BY <1>1, <1>2 DEF CallsIn

(* One more callback is one more sample.                                    *)
LEMMA SamplesMore ==
  ASSUME NEW cs \in Seq(Call), NEW e \in Call
  PROVE  SamplesOf(Append(cs, e)) = Append(SamplesOf(cs), SampleOf(e)) /\ SamplesOf(cs) \in Seq(Sample)
  <1> DEFINE s == SamplesOf(cs)
             t == Append(cs, e)
             n == Len(cs)
  <1>1. /\ t \in Seq(Call) /\ DOMAIN t = 1 .. n + 1 /\ t[n + 1] = e /\ \A i \in 1 .. n : t[i] = cs[i]
        /\ n \in Nat /\ DOMAIN cs = 1 .. n
    BY AppendProperties
  <1>2. \A c \in Call : SampleOf(c) \in Sample
    BY DEF Call, Sample, SampleOf
  <1>3. s = [k \in 1 .. n |-> SampleOf(cs[k])]
    BY <1>1, Zenon DEF SamplesOf, SampleOf
  <1>4. \A k \in 1 .. n : SampleOf(cs[k]) \in Sample
    BY <1>2
  <1> HIDE DEF n
  <1>5. s \in Seq(Sample) /\ Len(s) = n /\ \A k \in 1 .. n : s[k] = SampleOf(cs[k])
    BY <1>1, <1>3, <1>4
  <1> DEFINE u == Append(s, SampleOf(e))
             v == SamplesOf(t)
  <1>6. u \in Seq(Sample) /\ Len(u) = n + 1 /\ u[n + 1] = SampleOf(e) /\ \A k \in 1 .. n : u[k] = s[k]
    BY <1>2, <1>5, AppendProperties
  <1>7. v = [k \in 1 .. n + 1 |-> SampleOf(t[k])]
    BY <1>1, Zenon DEF SamplesOf, SampleOf
  <1> HIDE DEF s, t, u
  <1>8. \A k \in 1 .. n + 1 : t[k] \in Call
    BY <1>1
  <1>9. \A k \in 1 .. n + 1 : SampleOf(t[k]) \in Sample
    BY <1>2, <1>8
  <1> HIDE DEF v
  <1>10. v \in Seq(Sample) /\ Len(v) = n + 1 /\ \A k \in 1 .. n + 1 : v[k] = SampleOf(t[k])
    BY <1>1, <1>7, <1>9
  <1>11. \A k \in 1 .. n + 1 : v[k] = u[k]
    <2> TAKE k \in 1 .. n + 1
    <2>1. k = n + 1 \/ k \in 1 .. n
      BY <1>1
    <2> QED
      BY <1>1, <1>5, <1>6, <1>10, <2>1
  <1>12. v = u
    BY <1>6, <1>10, <1>11, SeqEqual
  <1> QED
    BY <1>5, <1>12 DEF s, t, u, v

(* One more callback counts for its handle, unless it is of a frame.        *)
LEMMA CallsMore ==
  ASSUME NEW calls \in Seq(Call), NEW e \in Call, NEW h
  PROVE  /\ CallsIn(calls, h) \in Seq(Sample)
         /\ CallsIn(Append(calls, e), h) =
              IF e.handle = h /\ ~e.frame THEN Append(CallsIn(calls, h), SampleOf(e)) ELSE CallsIn(calls, h)
  <1> DEFINE t == Append(calls, e)
             n == Len(calls)
             P == CallPlaces(calls, h)
             Q == CallPlaces(t, h)
  <1>1. /\ t \in Seq(Call) /\ DOMAIN t = 1 .. n + 1 /\ t[n + 1] = e /\ \A i \in 1 .. n : t[i] = calls[i]
        /\ n \in Nat /\ DOMAIN calls = 1 .. n
    BY AppendProperties
  <1> HIDE DEF t
  <1>2. \A i \in 1 .. n : i \in P <=> i \in Q
    BY <1>1 DEF CallPlaces
  <1>3. n + 1 \in Q <=> e.handle = h /\ ~e.frame
    BY <1>1 DEF CallPlaces
  <1> HIDE DEF P, Q
  <1>4. Among(t, Q) = Selected(Among(calls, P), e, n + 1 \in Q)
    BY <1>2, AmongMore DEF t
  <1>5. Among(calls, P) \in Seq(Call)
    BY AmongType
  <1>6. /\ SamplesOf(Append(Among(calls, P), e)) = Append(SamplesOf(Among(calls, P)), SampleOf(e))
        /\ SamplesOf(Among(calls, P)) \in Seq(Sample)
    BY <1>5, SamplesMore
  <1>7. CallsIn(calls, h) = SamplesOf(Among(calls, P)) /\ CallsIn(t, h) = SamplesOf(Among(t, Q))
    BY DEF CallsIn, P, Q
  <1> QED
    BY <1>3, <1>4, <1>6, <1>7 DEF Selected, t

(* Callbacks of a frame do not count.                                       *)
LEMMA CallsBeforeFrames ==
  ASSUME NEW calls \in Seq(Call), NEW fs \in Seq(Call), NEW h, \A i \in 1 .. Len(fs) : fs[i].frame
  PROVE  CallsIn(calls \o fs, h) = CallsIn(calls, h)
  <1> DEFINE t == calls \o fs
             n == Len(calls)
             P == CallPlaces(calls, h)
             Q == CallPlaces(t, h)
  <1>1. /\ t \in Seq(Call) /\ DOMAIN t = 1 .. n + Len(fs) /\ n \in Nat /\ Len(fs) \in Nat
        /\ DOMAIN calls = 1 .. n
        /\ \A i \in 1 .. n : t[i] = calls[i]
        /\ \A i \in 1 .. Len(fs) : t[n + i] = fs[i]
    OBVIOUS
  <1> HIDE DEF t
  <1>2. \A i \in 1 .. n : i \in P <=> i \in Q
    BY <1>1 DEF CallPlaces
  <1>3. \A i \in 1 .. Len(fs) : n + i \notin Q
    BY <1>1 DEF CallPlaces
  <1>4. Splits(calls, fs, P, {}, Q)
    BY <1>2, <1>3 DEF Splits
  <1> HIDE DEF P, Q
  <1>5. Among(t, Q) = Among(calls, P) \o Among(fs, {})
    BY <1>4, AmongConcat DEF t
  <1>6. Among(fs, {}) = <<>>
    <2>1. 0 \in 0 .. Len(fs) /\ \A i \in 1 .. Len(fs) : i \in {} <=> i <= 0
      OBVIOUS
    <2>2. Among(fs, {}) = SubSeq(fs, 1, 0)
      BY <2>1, AmongPrefix
    <2> QED
      BY <2>2, PrefixNone
  <1>7. Among(calls, P) \in Seq(Call)
    BY AmongType
  <1>8. Among(t, Q) = Among(calls, P)
    BY <1>5, <1>6, <1>7, ConcatEmptySeq
  <1> QED
    BY <1>8, Zenon DEF CallsIn, P, Q, t

(* The calls of a frame.                                                    *)
LEMMA FrameFacts ==
  ASSUME WellFormed(file), NEW k \in DOMAIN file.blocks, process_mask \subseteq Handle
  PROVE  /\ FrameCalls(Block(k)) \in Seq(Call)
         /\ \A i \in 1 .. Len(FrameCalls(Block(k))) : FrameCalls(Block(k))[i].frame
  <1> DEFINE b == Block(k)
             S == (process_mask \ file.varlen) \cap (1 .. b.frame_maxhandle)
             hs == Ascending(S)
  <1>1. b \in Section
    BY BlockType
  <1>2. b.begin \in Nat /\ b.frame \in [Handle -> Value]
    BY <1>1 DEF Section
  <1>3. S \in SUBSET Handle
    OBVIOUS
  <1> HIDE DEF S
  <1>4. hs \in Seq(Handle)
    BY <1>3, AscendingLists DEF Lists
  <1>5. FrameCalls(b) = [j \in DOMAIN hs |-> [time |-> b.begin, handle |-> hs[j],
                                              val |-> b.frame[hs[j]], frame |-> TRUE]]
    BY Zenon DEF FrameCalls, S
  <1> HIDE DEF hs, b
  <1>6. Len(hs) \in Nat /\ DOMAIN hs = 1 .. Len(hs) /\ \A j \in 1 .. Len(hs) : hs[j] \in Handle
    BY <1>4
  <1> DEFINE n == Len(hs)
             c(j) == [time |-> b.begin, handle |-> hs[j], val |-> b.frame[hs[j]], frame |-> TRUE]
  <1>7. \A j \in 1 .. n : c(j) \in Call /\ c(j).frame
    BY <1>2, <1>6 DEF Call
  <1>8. FrameCalls(b) = [j \in 1 .. n |-> c(j)]
    BY <1>5, <1>6, Zenon
  <1> HIDE DEF n, c
  <1>9. FrameCalls(b) \in Seq(Call) /\ Len(FrameCalls(b)) = n /\ \A j \in 1 .. n : FrameCalls(b)[j].frame
    BY <1>6, <1>7, <1>8 DEF n
  <1> QED
    BY <1>9 DEF b

----------------------------------------------------------------------------
(* The lists of handles, one per time.                                      *)
LEMMA TailOnce ==
  ASSUME NEW list \in Seq(Handle), list # <<>>, LinkedOnce(list)
  PROVE  /\ Tail(list) \in Seq(Handle) /\ LinkedOnce(Tail(list))
         /\ ToSet(Tail(list)) = ToSet(list) \ {Head(list)} /\ Head(list) \in ToSet(list)
  <1> DEFINE t == Tail(list)
             n == Len(list)
  <1>1. /\ t \in Seq(Handle) /\ Len(t) = n - 1 /\ n \in Nat \ {0} /\ Head(list) = list[1]
        /\ \A i \in 1 .. n - 1 : t[i] = list[i + 1]
    BY HeadTailProperties
  <1>2. \A i, j \in 1 .. n : list[i] = list[j] => i = j
    BY DEF LinkedOnce
  <1> HIDE DEF t, n
  <1>3. ASSUME NEW i \in 1 .. n - 1, NEW j \in 1 .. n - 1, t[i] = t[j] PROVE i = j
    <2>1. list[i + 1] = list[j + 1] /\ i + 1 \in 1 .. n /\ j + 1 \in 1 .. n
      BY <1>1, <1>3
    <2>2. i + 1 = j + 1
      BY <1>2, <2>1
    <2> QED
      BY <2>2
  <1>4. DOMAIN t = 1 .. n - 1 /\ DOMAIN list = 1 .. n
    BY <1>1 DEF n
  <1>5. ToSet(t) = {t[i] : i \in 1 .. n - 1} /\ ToSet(list) = {list[i] : i \in 1 .. n}
    BY <1>4 DEF ToSet
  <1>6. \A x \in ToSet(t) : x \in ToSet(list) /\ x # Head(list)
    <2> TAKE x \in ToSet(t)
    <2>1. PICK i \in 1 .. n - 1 : x = t[i]
      BY <1>5
    <2>2. x = list[i + 1] /\ i + 1 \in 1 .. n /\ 1 \in 1 .. n /\ i + 1 # 1
      BY <1>1, <2>1
    <2>3. x # list[1]
      BY <1>2, <2>2
    <2> QED
      BY <1>1, <1>5, <2>2, <2>3
  <1>7. \A x \in ToSet(list) : x # Head(list) => x \in ToSet(t)
    <2> TAKE x \in ToSet(list)
    <2>1. PICK i \in 1 .. n : x = list[i]
      BY <1>5
    <2>2. i # 1 => i - 1 \in 1 .. n - 1 /\ t[i - 1] = list[(i - 1) + 1] /\ (i - 1) + 1 = i
      BY <1>1
    <2> QED
      BY <1>1, <1>5, <2>1, <2>2
  <1>8. Head(list) \in ToSet(list)
    <2>1. 1 \in 1 .. n
      BY <1>1
    <2> QED
      BY <1>1, <1>5, <2>1
  <1>9. LinkedOnce(t)
    BY <1>1, <1>3 DEF LinkedOnce
  <1> QED
    BY <1>1, <1>6, <1>7, <1>8, <1>9 DEF t

(* A handle linked in front of a list that has it not.                      *)
LEMMA ConsOnce ==
  ASSUME NEW list \in Seq(Handle), NEW h \in Handle, h \notin ToSet(list), LinkedOnce(list)
  PROVE  /\ <<h>> \o list \in Seq(Handle) /\ LinkedOnce(<<h>> \o list)
         /\ ToSet(<<h>> \o list) = ToSet(list) \cup {h}
  <1> DEFINE t == <<h>> \o list
             n == Len(list)
  <1>1. /\ t \in Seq(Handle) /\ Len(t) = n + 1 /\ n \in Nat /\ t[1] = h
        /\ \A i \in 2 .. n + 1 : t[i] = list[i - 1]
    <2>1. <<h>> \in Seq(Handle) /\ Len(<<h>>) = 1 /\ <<h>>[1] = h /\ n \in Nat
      OBVIOUS
    <2>2. /\ t \in Seq(Handle) /\ Len(t) = 1 + n
          /\ \A i \in 1 .. 1 + n : t[i] = IF i <= 1 THEN <<h>>[i] ELSE list[i - 1]
      BY <2>1, ConcatProperties
    <2> HIDE DEF t, n
    <2> QED
      BY <2>1, <2>2
  <1>2. \A i, j \in 1 .. n : list[i] = list[j] => i = j
    BY DEF LinkedOnce
  <1>3. ToSet(list) = {list[i] : i \in 1 .. n}
    BY DEF ToSet
  <1> HIDE DEF t, n
  <1>4. ToSet(t) = {t[i] : i \in 1 .. n + 1}
    <2>1. DOMAIN t = 1 .. n + 1
      BY <1>1
    <2> QED
      BY <2>1, Zenon DEF ToSet
  <1>5. \A i \in 2 .. n + 1 : i - 1 \in 1 .. n /\ t[i] \in ToSet(list) /\ t[i] # h
    BY <1>1, <1>3
  <1>6. ASSUME NEW i \in 1 .. n + 1, NEW j \in 1 .. n + 1, t[i] = t[j] PROVE i = j
    <2>1. CASE i = 1 /\ j = 1
      BY <2>1
    <2>2. CASE i # 1 /\ j = 1
      <3>1. i \in 2 .. n + 1
        BY <2>2
      <3> QED
        BY <1>1, <1>5, <1>6, <2>2, <3>1
    <2>3. CASE i = 1 /\ j # 1
      <3>1. j \in 2 .. n + 1
        BY <2>3
      <3> QED
        BY <1>1, <1>5, <1>6, <2>3, <3>1
    <2>4. CASE i # 1 /\ j # 1
      <3>1. i \in 2 .. n + 1 /\ j \in 2 .. n + 1
        BY <2>4
      <3>2. list[i - 1] = list[j - 1] /\ i - 1 \in 1 .. n /\ j - 1 \in 1 .. n
        BY <1>1, <1>5, <1>6, <3>1
      <3>3. i - 1 = j - 1
        BY <1>2, <3>2
      <3> QED
        BY <3>3
    <2> QED
      BY <2>1, <2>2, <2>3, <2>4
  <1>7. \A x \in ToSet(t) : x = h \/ x \in ToSet(list)
    <2> TAKE x \in ToSet(t)
    <2>1. PICK i \in 1 .. n + 1 : x = t[i]
      BY <1>4
    <2>2. i = 1 \/ i \in 2 .. n + 1
      OBVIOUS
    <2> QED
      BY <1>1, <1>5, <2>1, <2>2
  <1>8. h \in ToSet(t)
    <2>1. 1 \in 1 .. n + 1
      BY <1>1
    <2> QED
      BY <1>1, <1>4, <2>1
  <1>9. \A x \in ToSet(list) : x \in ToSet(t)
    <2> TAKE x \in ToSet(list)
    <2>1. PICK i \in 1 .. n : x = list[i]
      BY <1>3
    <2>2. i + 1 \in 2 .. n + 1 /\ i + 1 \in 1 .. n + 1 /\ (i + 1) - 1 = i
      BY <1>1
    <2>3. t[i + 1] = x
      BY <1>1, <2>1, <2>2
    <2> QED
      BY <1>4, <2>2, <2>3
  <1>10. LinkedOnce(t)
    BY <1>1, <1>6 DEF LinkedOnce
  <1> QED
    BY <1>1, <1>7, <1>8, <1>9, <1>10 DEF t

(* A list of handles turned round.                                          *)
LEMMA ReverseOnce ==
  ASSUME NEW s, NEW S, Lists(s, S)
  PROVE  /\ Reverse(s) \in Seq(Handle) /\ LinkedOnce(Reverse(s)) /\ ToSet(Reverse(s)) = S
  <1> DEFINE t == Reverse(s)
             n == Len(s)
  <1>1. s \in Seq(Handle) /\ n \in Nat /\ {s[i] : i \in 1 .. n} = S /\ \A i, j \in 1 .. n : i < j => s[i] < s[j]
    BY DEF Lists, InOrder
  <1>2. t = [i \in 1 .. n |-> s[(n - i) + 1]]
    BY DEF Reverse
  <1>3. \A i \in 1 .. n : (n - i) + 1 \in 1 .. n /\ s[i] \in Handle /\ s[i] \in Nat
    BY <1>1, FilesAssumption DEF Handle
  <1>4. t \in Seq(Handle) /\ Len(t) = n /\ \A i \in 1 .. n : t[i] = s[(n - i) + 1]
    <2> HIDE DEF n, t
    <2>1. \A i \in 1 .. n : s[(n - i) + 1] \in Handle
      BY <1>3
    <2> QED
      BY <1>1, <1>2, <2>1
  <1> HIDE DEF t, n
  <1>5. ASSUME NEW i \in 1 .. n, NEW j \in 1 .. n, t[i] = t[j] PROVE i = j
    <2> DEFINE x == (n - i) + 1
               y == (n - j) + 1
    <2>1. x \in 1 .. n /\ y \in 1 .. n /\ s[x] = s[y] /\ s[x] \in Nat /\ (x = y => i = j)
      BY <1>1, <1>3, <1>4, <1>5
    <2> HIDE DEF x, y
    <2>2. ~(x < y) /\ ~(y < x)
      BY <1>1, <2>1
    <2>3. x = y
      BY <1>1, <2>1, <2>2
    <2> QED
      BY <2>1, <2>3
  <1>6. DOMAIN t = 1 .. n
    BY <1>4
  <1>7. ToSet(t) = {t[i] : i \in 1 .. n}
    BY <1>6 DEF ToSet
  <1>8. \A x \in ToSet(t) : x \in S
    <2> TAKE x \in ToSet(t)
    <2>1. PICK i \in 1 .. n : x = t[i]
      BY <1>7
    <2> QED
      BY <1>1, <1>3, <1>4, <2>1
  <1>9. \A x \in S : x \in ToSet(t)
    <2> TAKE x \in S
    <2>1. PICK i \in 1 .. n : x = s[i]
      BY <1>1
    <2> DEFINE j == (n - i) + 1
    <2>2. j \in 1 .. n /\ (n - j) + 1 = i
      BY <1>1
    <2> HIDE DEF j
    <2>3. t[j] = s[i]
      BY <1>4, <2>2
    <2> QED
      BY <1>7, <2>1, <2>2, <2>3
  <1> QED
    BY <1>4, <1>5, <1>8, <1>9 DEF LinkedOnce, t

(* Where the records of a chain are linked.                                 *)
LEMMA PlaceFirst ==
  ASSUME WellFormed(file), NEW k \in DOMAIN file.blocks, NEW h \in Handle, Records(k, h) # <<>>
  PROVE  Place(k, h, 1) = Records(k, h)[1].delta + 1
  <1> DEFINE c == Records(k, h)
             n == Len(c)
  <1>1. /\ c \in Seq(Change) /\ n \in Nat /\ Deltas(c) \in Seq(Nat) /\ Len(Deltas(c)) = n
        /\ Sums(Indices(c), Deltas(c))
    BY RecordFacts
  <1>2. 1 \in 1 .. n
    BY <1>1
  <1>3. Indices(c)[1] = Before(Indices(c), 1) + Deltas(c)[1]
    BY <1>1, <1>2 DEF Sums
  <1>4. Deltas(c)[1] = c[1].delta /\ Deltas(c)[1] \in Nat
    BY <1>1, <1>2 DEF Deltas
  <1>5. Before(Indices(c), 1) = 0
    BY DEF Before
  <1> HIDE DEF c
  <1>6. Indices(c)[1] = c[1].delta
    BY <1>3, <1>4, <1>5
  <1> QED
    BY <1>6 DEF Place, c

(* The next record is its difference further in the time table.             *)
LEMMA PlaceNext ==
  ASSUME WellFormed(file), NEW k \in DOMAIN file.blocks, NEW h \in Handle,
         NEW p \in Nat \ {0}, p < Len(Records(k, h))
  PROVE  /\ Place(k, h, p + 1) = Place(k, h, p) + Records(k, h)[p + 1].delta
         /\ Records(k, h)[p + 1].delta \in Nat
  <1> DEFINE c == Records(k, h)
             n == Len(c)
             s == Indices(c)
  <1>1. /\ c \in Seq(Change) /\ n \in Nat /\ Deltas(c) \in Seq(Nat) /\ Len(Deltas(c)) = n
        /\ Sums(s, Deltas(c))
    BY RecordFacts
  <1>2. p + 1 \in 1 .. n /\ p \in 1 .. n /\ p + 1 # 1 /\ (p + 1) - 1 = p
    BY <1>1
  <1>3. s \in Seq(Nat) /\ Len(s) = n /\ s[p + 1] = Before(s, p + 1) + Deltas(c)[p + 1]
    BY <1>1, <1>2 DEF Sums
  <1>4. Deltas(c)[p + 1] = c[p + 1].delta /\ Deltas(c)[p + 1] \in Nat
    BY <1>1, <1>2 DEF Deltas
  <1>5. Before(s, p + 1) = s[p] /\ s[p] \in Nat
    BY <1>2, <1>3 DEF Before
  <1>6. Place(k, h, p + 1) = s[p + 1] + 1 /\ Place(k, h, p) = s[p] + 1
    BY DEF Place
  <1> HIDE DEF c, s
  <1> QED
    BY <1>3, <1>4, <1>5, <1>6 DEF c

(* The chains linked when a section is loaded.                              *)
LEMMA LinkFirstFacts ==
  ASSUME WellFormed(file), NEW k \in DOMAIN file.blocks, process_mask \subseteq Handle
  PROVE  /\ LinkFirst(Block(k), Len(Block(k).tchn)) \in Heads
         /\ Len(LinkFirst(Block(k), Len(Block(k).tchn))) = Len(Table(k))
         /\ \A i \in 1 .. Len(Table(k)) :
              /\ LinkedOnce(LinkFirst(Block(k), Len(Block(k).tchn))[i])
              /\ ToSet(LinkFirst(Block(k), Len(Block(k).tchn))[i]) =
                   {h \in process_mask : Records(k, h) # <<>> /\ Place(k, h, 1) = i}
  <1> DEFINE n == Len(Table(k))
             Here(i) == {h \in process_mask : Block(k).chain[h] # <<>> /\ Block(k).chain[h][1].delta = i - 1}
             heads == LinkFirst(Block(k), n)
  <1>1. n \in Nat /\ n = Len(Block(k).tchn)
    BY TableFacts
  <1>2. heads = [i \in 1 .. n |-> Reverse(Ascending(Here(i)))]
    BY Zenon DEF LinkFirst
  <1>3. ASSUME NEW i \in 1 .. n
        PROVE  /\ Reverse(Ascending(Here(i))) \in Seq(Handle) /\ LinkedOnce(Reverse(Ascending(Here(i))))
               /\ ToSet(Reverse(Ascending(Here(i)))) = Here(i)
    <2>1. Here(i) \in SUBSET Handle
      OBVIOUS
    <2> HIDE DEF Here
    <2>2. Lists(Ascending(Here(i)), Here(i))
      BY <2>1, AscendingLists
    <2> QED
      BY <2>2, ReverseOnce
  <1>4. ASSUME NEW i \in 1 .. n
        PROVE  Here(i) = {h \in process_mask : Records(k, h) # <<>> /\ Place(k, h, 1) = i}
    <2> SUFFICES ASSUME NEW h \in process_mask, Block(k).chain[h] # <<>>
                 PROVE  Block(k).chain[h][1].delta = i - 1 <=> Place(k, h, 1) = i
      BY DEF Records
    <2>1. h \in Handle /\ Records(k, h) # <<>>
      BY DEF Records
    <2>2. Place(k, h, 1) = Records(k, h)[1].delta + 1
      BY <2>1, PlaceFirst
    <2>3. Records(k, h)[1].delta \in Nat
      <3>1. Records(k, h) \in Seq(Change)
        BY <2>1, RecordFacts
      <3>2. Records(k, h)[1] \in Change
        BY <2>1, <3>1
      <3> QED
        BY <3>2 DEF Change
    <2> QED
      BY <2>2, <2>3 DEF Records
  <1> HIDE DEF n, Here
  <1>5. heads \in Heads /\ Len(heads) = n
    <2> HIDE DEF heads
    <2>1. \A i \in 1 .. n : Reverse(Ascending(Here(i))) \in Seq(Handle)
      BY <1>3
    <2> QED
      BY <1>1, <1>2, <2>1 DEF Heads
  <1>6. \A i \in 1 .. n : heads[i] = Reverse(Ascending(Here(i)))
    BY <1>2
  <1> HIDE DEF heads
  <1>7. \A i \in 1 .. n : LinkedOnce(heads[i]) /\ ToSet(heads[i]) = {h \in process_mask : Records(k, h) # <<>> /\ Place(k, h, 1) = i}
    BY <1>3, <1>4, <1>6
  <1> QED
    BY <1>1, <1>5, <1>7 DEF heads, n

(* What the type of the loop says of its parts.                             *)
LEMMA LoopTypeFacts ==
  ASSUME LoopType
  PROVE  /\ process_mask \subseteq Handle /\ WellFormed(file)
         /\ file.blocks \in Seq(Section) /\ Len(file.blocks) \in Nat \ {0}
         /\ DOMAIN file.blocks = 1 .. Len(file.blocks)
         /\ Len(tc_head) \in Nat /\ DOMAIN tc_head = 1 .. Len(tc_head)
         /\ \A i \in 1 .. Len(tc_head) : tc_head[i] \in Seq(Handle)
  <1>1. WellFormed(file) /\ process_mask \subseteq 1 .. file.maxhandle /\ tc_head \in Heads
    BY DEF LoopType
  <1>2. file.blocks \in Seq(Section) /\ file.blocks # <<>> /\ file.maxhandle \in Handle
    BY <1>1 DEF WellFormed
  <1>3. process_mask \subseteq Handle
    BY <1>1, <1>2, FilesAssumption DEF Handle
  <1>4. Len(file.blocks) \in Nat \ {0} /\ DOMAIN file.blocks = 1 .. Len(file.blocks)
    BY <1>2
  <1>5. /\ Len(tc_head) \in Nat /\ DOMAIN tc_head = 1 .. Len(tc_head)
        /\ \A i \in 1 .. Len(tc_head) : tc_head[i] \in Seq(Handle)
    BY <1>1 DEF Heads
  <1> QED
    BY <1>1, <1>2, <1>3, <1>4, <1>5

(* The handle called back, at which record it is, and where its next record *)
(* is linked.                                                               *)
LEMMA HeadFacts ==
  ASSUME LoopType, Links, CallBack, NEW h, h = Head(tc_head[ti])
  PROVE  /\ ti \in 1 .. Len(tc_head) /\ blkpos \in DOMAIN file.blocks /\ Len(tc_head) = Len(Table(blkpos))
         /\ h \in process_mask /\ h \in Handle /\ ti = PlaceOf(h) /\ headptr[h] \in Nat \ {0}
         /\ headptr[h] <= Len(Records(blkpos, h)) /\ Len(Records(blkpos, h)) \in Nat
         /\ tc_head[ti] \in Seq(Handle) /\ tc_head[ti] # <<>> /\ h \in ToSet(tc_head[ti])
  <1>1. phase = "times" /\ ti > 0 /\ tc_head[ti] # <<>>
    BY DEF CallBack
  <1>2. /\ process_mask \subseteq Handle /\ WellFormed(file) /\ Len(tc_head) \in Nat
        /\ \A i \in 1 .. Len(tc_head) : tc_head[i] \in Seq(Handle)
    BY LoopTypeFacts
  <1>3. ti \in 1 .. Len(tc_head) /\ blkpos \in DOMAIN file.blocks /\ Len(tc_head) = Len(Table(blkpos))
        /\ headptr \in [Handle -> Nat \ {0}]
    BY <1>1, <1>2 DEF LoopType
  <1>4. tc_head[ti] \in Seq(Handle) /\ h \in ToSet(tc_head[ti])
    <2>1. LinkedOnce(tc_head[ti]) /\ tc_head[ti] \in Seq(Handle)
      BY <1>2, <1>3 DEF Links
    <2> QED
      BY <1>1, <2>1, TailOnce
  <1>5. h \in process_mask /\ Left(h) /\ ti = PlaceOf(h)
    BY <1>3, <1>4 DEF Links
  <1>6. h \in Handle /\ headptr[h] \in Nat \ {0} /\ Records(blkpos, h) \in Seq(Change)
    BY <1>2, <1>3, <1>5, RecordFacts
  <1> QED
    BY <1>1, <1>3, <1>4, <1>5, <1>6 DEF Left

(* The lists after a callback: the handle is unlinked, and relinked at its  *)
(* next record.                                                             *)
LEMMA CallBackLists ==
  ASSUME LoopType, Links, CallBack, NEW h, h = Head(tc_head[ti])
  PROVE  /\ tc_head' \in Heads /\ Len(tc_head') = Len(tc_head)
         /\ headptr' = [headptr EXCEPT ![h] = @ + 1]
         /\ \A i \in 1 .. Len(tc_head) :
              /\ LinkedOnce(tc_head'[i])
              /\ ToSet(tc_head'[i]) =
                   (ToSet(tc_head[i]) \ {h})
                     \cup (IF headptr[h] < Len(Records(blkpos, h)) /\ i = Place(blkpos, h, headptr[h] + 1)
                           THEN {h} ELSE {})
  <1> DEFINE n == Len(tc_head)
             p == headptr[h]
             u == [tc_head EXCEPT ![ti] = Tail(@)]
             records == Block(blkpos).chain[h]
  <1>1. /\ ti \in 1 .. n /\ blkpos \in DOMAIN file.blocks /\ n = Len(Table(blkpos))
        /\ h \in process_mask /\ h \in Handle /\ ti = PlaceOf(h) /\ p \in Nat \ {0}
        /\ p <= Len(Records(blkpos, h)) /\ Len(Records(blkpos, h)) \in Nat
        /\ tc_head[ti] \in Seq(Handle) /\ tc_head[ti] # <<>>
    BY HeadFacts
  <1>2. /\ WellFormed(file) /\ n \in Nat /\ tc_head \in Heads
        /\ \A i \in 1 .. n : tc_head[i] \in Seq(Handle)
    BY LoopTypeFacts DEF LoopType
  <1>3. \A i \in 1 .. n : LinkedOnce(tc_head[i]) /\ (h \in ToSet(tc_head[i]) => i = ti)
    BY <1>1 DEF Links
  <1>4. /\ headptr' = [headptr EXCEPT ![h] = @ + 1]
        /\ tc_head' = IF p < Len(records) THEN Relink(u, h, records[p + 1].delta) ELSE u
    BY Zenon DEF CallBack
  <1>5. /\ Tail(tc_head[ti]) \in Seq(Handle) /\ LinkedOnce(Tail(tc_head[ti]))
        /\ ToSet(Tail(tc_head[ti])) = ToSet(tc_head[ti]) \ {h}
    BY <1>1, <1>3, TailOnce
  <1>6. u \in Heads /\ Len(u) = n /\ \A i \in 1 .. n : u[i] = IF i = ti THEN Tail(tc_head[ti]) ELSE tc_head[i]
    BY <1>1, <1>2, <1>5, ExceptSeq DEF Heads
  <1> HIDE DEF u
  <1>7. \A i \in 1 .. n : u[i] \in Seq(Handle) /\ LinkedOnce(u[i]) /\ ToSet(u[i]) = ToSet(tc_head[i]) \ {h}
    <2> TAKE i \in 1 .. n
    <2>1. CASE i = ti
      BY <1>5, <1>6, <2>1
    <2>2. CASE i # ti
      BY <1>2, <1>3, <1>6, <2>2
    <2> QED
      BY <2>1, <2>2
  <1>8. records = Records(blkpos, h)
    BY DEF Records
  <1> HIDE DEF records
  <1>9. CASE p < Len(records)
    <2> DEFINE q == ti + records[p + 1].delta
    <2>1. q = Place(blkpos, h, p + 1)
      <3>1. Place(blkpos, h, p + 1) = Place(blkpos, h, p) + records[p + 1].delta
        BY <1>1, <1>2, <1>8, <1>9, PlaceNext
      <3> QED
        BY <1>1, <3>1 DEF PlaceOf
    <2>2. q \in 1 .. n
      <3>1. p < Len(Records(blkpos, h))
        BY <1>8, <1>9
      <3> DEFINE m == Len(Records(blkpos, h))
      <3>2. m \in Nat /\ p < m /\ p \in Nat
        BY <1>1, <3>1
      <3> HIDE DEF m, p
      <3>3. p + 1 \in 1 .. m
        BY <3>2
      <3>4. \A j \in 1 .. m : Place(blkpos, h, j) \in 1 .. Len(Table(blkpos))
        BY <1>1, <1>2, RecordFacts DEF m
      <3> QED
        BY <1>1, <2>1, <3>3, <3>4
    <2>3. tc_head' = [u EXCEPT ![q] = <<h>> \o u[q]]
      BY <1>4, <1>9, Zenon DEF Relink
    <2> HIDE DEF q
    <2>4. /\ <<h>> \o u[q] \in Seq(Handle) /\ LinkedOnce(<<h>> \o u[q])
          /\ ToSet(<<h>> \o u[q]) = ToSet(u[q]) \cup {h}
      <3>1. h \notin ToSet(u[q]) /\ u[q] \in Seq(Handle) /\ LinkedOnce(u[q])
        BY <1>7, <2>2
      <3> QED
        BY <1>1, <3>1, ConsOnce
    <2>5. tc_head' \in Heads /\ Len(tc_head') = n
          /\ \A i \in 1 .. n : tc_head'[i] = IF i = q THEN <<h>> \o u[q] ELSE u[i]
      BY <1>6, <2>2, <2>3, <2>4, ExceptSeq DEF Heads
    <2>6. ASSUME NEW i \in 1 .. n
          PROVE  /\ LinkedOnce(tc_head'[i])
                 /\ ToSet(tc_head'[i]) = (ToSet(tc_head[i]) \ {h}) \cup (IF i = q THEN {h} ELSE {})
      <3>1. CASE i = q
        BY <1>7, <2>4, <2>5, <3>1
      <3>2. CASE i # q
        BY <1>7, <2>5, <3>2
      <3> QED
        BY <3>1, <3>2
    <2> QED
      BY <1>4, <1>8, <1>9, <2>1, <2>5, <2>6
  <1>10. CASE ~(p < Len(records))
    BY <1>4, <1>6, <1>7, <1>8, <1>10
  <1> QED
    BY <1>9, <1>10

(* The lists after a section is loaded, a change is called back, and at the *)
(* next time.                                                               *)
LEMMA LoadLinks ==
  ASSUME LoopType, LoadSection
  PROVE  /\ tc_head' \in Heads /\ Len(tc_head') = Len(Table(blkpos)) /\ Links'
         /\ headptr' \in [Handle -> Nat \ {0}] /\ blkpos \in DOMAIN file.blocks
  <1>1. /\ process_mask \subseteq Handle /\ WellFormed(file) /\ Len(file.blocks) \in Nat \ {0}
        /\ DOMAIN file.blocks = 1 .. Len(file.blocks)
    BY LoopTypeFacts
  <1>2. /\ blkpos <= Len(file.blocks) /\ tc_head' = LinkFirst(Block(blkpos), Len(Block(blkpos).tchn))
        /\ headptr' = [h \in Handle |-> 1] /\ ti' = 0 /\ blkpos' = blkpos
        /\ file' = file /\ process_mask' = process_mask
    BY DEF LoadSection, settings
  <1>3. blkpos \in DOMAIN file.blocks
    BY <1>1, <1>2 DEF LoopType
  <1>4. /\ tc_head' \in Heads /\ Len(tc_head') = Len(Table(blkpos))
        /\ \A i \in 1 .. Len(Table(blkpos)) :
             /\ LinkedOnce(tc_head'[i])
             /\ ToSet(tc_head'[i]) = {h \in process_mask : Records(blkpos, h) # <<>> /\ Place(blkpos, h, 1) = i}
    BY <1>1, <1>2, <1>3, LinkFirstFacts
  <1>5. \A h \in Handle : headptr'[h] = 1 /\ Len(Records(blkpos, h)) \in Nat
                          /\ (1 <= Len(Records(blkpos, h)) <=> Records(blkpos, h) # <<>>)
    <2> TAKE h \in Handle
    <2>1. Records(blkpos, h) \in Seq(Change)
      BY <1>1, <1>3, RecordFacts
    <2> QED
      BY <1>2, <2>1
  <1>6. \A h \in process_mask : Left(h)' <=> Records(blkpos, h) # <<>>
    <2> TAKE h \in process_mask
    <2>1. Left(h)' <=> headptr'[h] <= Len(Records(blkpos, h))
      BY <1>2, Zenon DEF Left, Records, Block
    <2> QED
      BY <1>1, <1>5, <2>1
  <1>7. \A h \in process_mask : PlaceOf(h)' = Place(blkpos, h, 1)
    <2> TAKE h \in process_mask
    <2>1. PlaceOf(h)' = Place(blkpos, h, headptr'[h])
      BY <1>2, Zenon DEF PlaceOf, Place, Records, Block
    <2> QED
      BY <1>1, <1>5, <2>1
  <1>8. ASSUME NEW h \in process_mask
        PROVE  /\ (headptr[h] <= Len(Records(blkpos, h)) + 1)'
               /\ (Left(h) => ti <= PlaceOf(h) /\ h \in ToSet(tc_head[PlaceOf(h)]))'
               /\ (headptr[h] > 1 => Place(blkpos, h, headptr[h] - 1) <= ti)'
    <2>1. Len(Records(blkpos, h))' = Len(Records(blkpos, h))
      BY <1>2, Zenon DEF Records, Block
    <2>2. headptr'[h] = 1 /\ Len(Records(blkpos, h)) \in Nat
      BY <1>1, <1>5
    <2>3. ASSUME Left(h)' PROVE ti' <= PlaceOf(h)' /\ h \in ToSet(tc_head'[PlaceOf(h)'])
      <3>1. Records(blkpos, h) # <<>> /\ PlaceOf(h)' = Place(blkpos, h, 1)
        BY <1>6, <1>7, <2>3
      <3>2. 1 \in 1 .. Len(Records(blkpos, h))
        BY <1>1, <1>5, <3>1
      <3>3. Place(blkpos, h, 1) \in 1 .. Len(Table(blkpos)) /\ Place(blkpos, h, 1) \in Nat
        BY <1>1, <1>3, <3>2, RecordFacts
      <3>4. h \in ToSet(tc_head'[Place(blkpos, h, 1)])
        BY <1>4, <3>1, <3>3
      <3> QED
        BY <1>2, <3>1, <3>3, <3>4
    <2> QED
      BY <2>1, <2>2, <2>3
  <1>9. ASSUME NEW i \in 1 .. Len(tc_head')
        PROVE  /\ LinkedOnce(tc_head'[i])
               /\ \A h \in ToSet(tc_head'[i]) : h \in process_mask /\ Left(h)' /\ i = PlaceOf(h)'
    BY <1>4, <1>6, <1>7
  <1>10. Links'
    BY <1>2, <1>8, <1>9 DEF Links
  <1>11. headptr' \in [Handle -> Nat \ {0}]
    BY <1>2
  <1> QED
    BY <1>3, <1>4, <1>10, <1>11

(* A callback keeps the links.                                              *)
LEMMA CallBackLinks ==
  ASSUME LoopType, Links, CallBack
  PROVE  /\ tc_head' \in Heads /\ Len(tc_head') = Len(tc_head) /\ Links'
         /\ headptr' \in [Handle -> Nat \ {0}]
  <1> DEFINE h == Head(tc_head[ti])
             p == headptr[h]
             n == Len(Records(blkpos, h))
  <1>1. /\ ti \in 1 .. Len(tc_head) /\ blkpos \in DOMAIN file.blocks /\ Len(tc_head) = Len(Table(blkpos))
        /\ h \in process_mask /\ h \in Handle /\ ti = PlaceOf(h) /\ p \in Nat \ {0}
        /\ p <= n /\ n \in Nat
    BY HeadFacts
  <1>2. /\ tc_head' \in Heads /\ Len(tc_head') = Len(tc_head)
        /\ headptr' = [headptr EXCEPT ![h] = @ + 1]
        /\ \A i \in 1 .. Len(tc_head) :
              /\ LinkedOnce(tc_head'[i])
              /\ ToSet(tc_head'[i]) =
                   (ToSet(tc_head[i]) \ {h})
                     \cup (IF p < n /\ i = Place(blkpos, h, p + 1) THEN {h} ELSE {})
    BY CallBackLists
  <1>3. blkpos' = blkpos /\ ti' = ti /\ file' = file /\ process_mask' = process_mask
    BY DEF CallBack, settings
  <1>4. headptr \in [Handle -> Nat \ {0}] /\ process_mask \subseteq Handle /\ WellFormed(file)
    BY LoopTypeFacts DEF LoopType
  <1> HIDE DEF h
  <1>5. headptr'[h] = p + 1 /\ (\A g \in Handle : g # h => headptr'[g] = headptr[g])
        /\ headptr' \in [Handle -> Nat \ {0}]
    BY <1>1, <1>2, <1>4
  <1>6. \A g : Records(blkpos, g)' = Records(blkpos, g)
    BY <1>3, Zenon DEF Records, Block
  <1>7. \A g \in Handle : PlaceOf(g)' = Place(blkpos, g, headptr'[g])
    BY <1>3, Zenon DEF PlaceOf, Place, Records, Block
  <1>8. \A g \in Handle : Left(g)' <=> headptr'[g] <= Len(Records(blkpos, g))
    BY <1>6, Zenon DEF Left
  <1>9. \A g \in Handle : (headptr[g] > 1 => Place(blkpos, g, headptr[g] - 1) <= ti)'
                          <=> (headptr'[g] > 1 => Place(blkpos, g, headptr'[g] - 1) <= ti)
    BY <1>3, Zenon DEF Place, Records, Block
  <1>10. ASSUME p < n PROVE /\ Place(blkpos, h, p + 1) \in 1 .. Len(tc_head) /\ Place(blkpos, h, p) <= Place(blkpos, h, p + 1)
    <2>1. p + 1 \in 1 .. n /\ p \in 1 .. n /\ p <= p + 1
      BY <1>1, <1>10
    <2>2. /\ \A j \in 1 .. n : Place(blkpos, h, j) \in 1 .. Len(Table(blkpos))
          /\ \A i, j \in 1 .. n : i <= j => Place(blkpos, h, i) <= Place(blkpos, h, j)
      BY <1>1, <1>4, RecordFacts
    <2> HIDE DEF n, p
    <2> QED
      BY <1>1, <2>1, <2>2
  <1>11. ASSUME NEW g \in process_mask
         PROVE  /\ headptr'[g] <= Len(Records(blkpos, g)) + 1
                /\ Left(g)' => ti <= PlaceOf(g)' /\ g \in ToSet(tc_head'[PlaceOf(g)'])
                /\ headptr'[g] > 1 => Place(blkpos, g, headptr'[g] - 1) <= ti
    <2>1. CASE g = h
      <3>1. headptr'[g] <= Len(Records(blkpos, g)) + 1
        BY <1>1, <1>5, <2>1
      <3>2. ASSUME Left(g)' PROVE ti <= PlaceOf(g)' /\ g \in ToSet(tc_head'[PlaceOf(g)'])
        <4>1. p + 1 <= n
          BY <1>1, <1>5, <1>8, <2>1, <3>2
        <4>2. p < n /\ PlaceOf(g)' = Place(blkpos, h, p + 1)
          BY <1>1, <1>5, <1>7, <2>1, <4>1
        <4>3. ti = Place(blkpos, h, p)
          BY <1>1 DEF PlaceOf
        <4>4. Place(blkpos, h, p + 1) \in 1 .. Len(tc_head) /\ ti <= Place(blkpos, h, p + 1)
          BY <1>10, <4>2, <4>3
        <4>5. h \in ToSet(tc_head'[Place(blkpos, h, p + 1)])
          BY <1>2, <4>2, <4>4
        <4> QED
          BY <2>1, <4>2, <4>4, <4>5
      <3>3. headptr'[g] - 1 = p
        BY <1>1, <1>5, <2>1
      <3>4. Place(blkpos, g, headptr'[g] - 1) = ti
        BY <1>1, <2>1, <3>3 DEF PlaceOf
      <3>5. ti <= ti
        BY <1>1
      <3> QED
        BY <3>1, <3>2, <3>4, <3>5
    <2>2. CASE g # h
      <3>1. g \in Handle /\ headptr'[g] = headptr[g]
        BY <1>4, <1>5, <2>2
      <3>2. PlaceOf(g)' = PlaceOf(g) /\ (Left(g)' <=> Left(g))
        BY <1>7, <1>8, <3>1 DEF PlaceOf, Left
      <3>3. /\ headptr[g] <= Len(Records(blkpos, g)) + 1
            /\ Left(g) => ti <= PlaceOf(g) /\ g \in ToSet(tc_head[PlaceOf(g)])
            /\ headptr[g] > 1 => Place(blkpos, g, headptr[g] - 1) <= ti
        BY DEF Links
      <3>4. Left(g) => PlaceOf(g) \in 1 .. Len(tc_head)
        <4> SUFFICES ASSUME Left(g) PROVE PlaceOf(g) \in 1 .. Len(tc_head)
          OBVIOUS
        <4>1. headptr[g] \in Nat \ {0} /\ Records(blkpos, g) \in Seq(Change) /\ headptr[g] <= Len(Records(blkpos, g))
          BY <1>1, <1>4, <3>1, RecordFacts DEF Left
        <4>2. headptr[g] \in 1 .. Len(Records(blkpos, g))
          BY <4>1
        <4> QED
          BY <1>1, <1>4, <3>1, <4>2, RecordFacts DEF PlaceOf
      <3>5. Left(g) => g \in ToSet(tc_head'[PlaceOf(g)])
        BY <1>2, <2>2, <3>3, <3>4
      <3> QED
        BY <3>1, <3>2, <3>3, <3>5
    <2> QED
      BY <2>1, <2>2
  <1>12. ASSUME NEW i \in 1 .. Len(tc_head), NEW g \in ToSet(tc_head'[i])
         PROVE  g \in process_mask /\ Left(g)' /\ i = PlaceOf(g)'
    <2>1. CASE g = h
      <3>1. p < n /\ i = Place(blkpos, h, p + 1)
        BY <1>2, <2>1
      <3> QED
        BY <1>1, <1>5, <1>7, <1>8, <2>1, <3>1
    <2>2. CASE g # h
      <3>1. g \in ToSet(tc_head[i])
        BY <1>2, <2>2
      <3>2. g \in process_mask /\ Left(g) /\ i = PlaceOf(g)
        BY <3>1 DEF Links
      <3>3. g \in Handle /\ headptr'[g] = headptr[g]
        BY <1>4, <1>5, <2>2, <3>2
      <3> QED
        BY <1>7, <1>8, <3>2, <3>3 DEF PlaceOf, Left
    <2> QED
      BY <2>1, <2>2
  <1>13. ASSUME NEW g \in process_mask
         PROVE  /\ (headptr[g] <= Len(Records(blkpos, g)) + 1)'
                /\ (Left(g) => ti <= PlaceOf(g) /\ g \in ToSet(tc_head[PlaceOf(g)]))'
                /\ (headptr[g] > 1 => Place(blkpos, g, headptr[g] - 1) <= ti)'
    BY <1>3, <1>4, <1>6, <1>9, <1>11
  <1>14. Links'
    BY <1>2, <1>3, <1>12, <1>13 DEF Links
  <1> QED
    BY <1>2, <1>5, <1>14

(* When nothing is linked at a time, every chain is past it.                *)
LEMMA PastThisTime ==
  ASSUME LoopType, Links, phase = "times", TimeDone, NEW h \in process_mask, Left(h)
  PROVE  PlaceOf(h) \in 1 .. Len(tc_head) /\ ti + 1 <= PlaceOf(h) /\ ti \in Nat
  <1>1. /\ process_mask \subseteq Handle /\ WellFormed(file) /\ Len(tc_head) \in Nat
    BY LoopTypeFacts
  <1>2. ti \in 0 .. Len(tc_head) /\ blkpos \in DOMAIN file.blocks /\ Len(tc_head) = Len(Table(blkpos))
        /\ headptr \in [Handle -> Nat \ {0}]
    BY DEF LoopType
  <1>3. headptr[h] \in 1 .. Len(Records(blkpos, h))
    <2>1. headptr[h] \in Nat \ {0} /\ Records(blkpos, h) \in Seq(Change) /\ headptr[h] <= Len(Records(blkpos, h))
      BY <1>1, <1>2, RecordFacts DEF Left
    <2> QED
      BY <2>1
  <1>4. PlaceOf(h) \in 1 .. Len(tc_head)
    BY <1>1, <1>2, <1>3, RecordFacts DEF PlaceOf
  <1>5. ti <= PlaceOf(h) /\ h \in ToSet(tc_head[PlaceOf(h)])
    BY DEF Links
  <1>6. ti # PlaceOf(h)
    <2> SUFFICES ASSUME ti = PlaceOf(h) PROVE FALSE
      OBVIOUS
    <2>1. tc_head[ti] = <<>>
      BY <1>2, <1>4 DEF TimeDone
    <2>2. ToSet(<<>>) = {}
      BY DEF ToSet
    <2> QED
      BY <1>5, <2>1, <2>2
  <1> QED
    BY <1>1, <1>2, <1>4, <1>5, <1>6

(* The step to the next time keeps the links: no handle is left behind.     *)
LEMMA NextTimeLinks ==
  ASSUME LoopType, Links, NextTime
  PROVE  Links'
  <1>1. /\ ti' = ti + 1 /\ blkpos' = blkpos /\ file' = file /\ process_mask' = process_mask
        /\ tc_head' = tc_head /\ headptr' = headptr /\ phase = "times" /\ TimeDone
    BY DEF NextTime, TimeDone, settings
  <1>2. /\ process_mask \subseteq Handle /\ WellFormed(file) /\ ti \in Nat
        /\ blkpos \in DOMAIN file.blocks /\ headptr \in [Handle -> Nat \ {0}]
    BY <1>1, LoopTypeFacts DEF LoopType
  <1>3. /\ \A h : PlaceOf(h)' = PlaceOf(h) /\ (Left(h)' <=> Left(h))
        /\ \A h : Records(blkpos, h)' = Records(blkpos, h)
        /\ \A h : Place(blkpos, h, headptr[h] - 1)' = Place(blkpos, h, headptr[h] - 1)
    BY <1>1, Zenon DEF PlaceOf, Place, Left, Records, Block
  <1>4. ASSUME NEW h \in process_mask
        PROVE  /\ headptr[h] <= Len(Records(blkpos, h)) + 1
               /\ Left(h) => ti + 1 <= PlaceOf(h) /\ h \in ToSet(tc_head[PlaceOf(h)])
               /\ headptr[h] > 1 => Place(blkpos, h, headptr[h] - 1) <= ti + 1
    <2>1. /\ headptr[h] <= Len(Records(blkpos, h)) + 1
          /\ Left(h) => h \in ToSet(tc_head[PlaceOf(h)])
          /\ headptr[h] > 1 => Place(blkpos, h, headptr[h] - 1) <= ti
      BY DEF Links
    <2>2. Left(h) => ti + 1 <= PlaceOf(h)
      BY <1>1, PastThisTime
    <2>3. headptr[h] > 1 => Place(blkpos, h, headptr[h] - 1) \in Nat
      <3> SUFFICES ASSUME headptr[h] > 1 PROVE Place(blkpos, h, headptr[h] - 1) \in Nat
        OBVIOUS
      <3>1. Records(blkpos, h) \in Seq(Change) /\ headptr[h] \in Nat
        BY <1>2, RecordFacts
      <3>2. headptr[h] - 1 \in 1 .. Len(Records(blkpos, h))
        BY <2>1, <3>1
      <3> QED
        BY <1>2, <3>2, RecordFacts
    <2> QED
      BY <1>2, <2>1, <2>2, <2>3
  <1>5. ASSUME NEW i \in 1 .. Len(tc_head)
        PROVE  /\ LinkedOnce(tc_head[i])
               /\ \A h \in ToSet(tc_head[i]) : h \in process_mask /\ Left(h) /\ i = PlaceOf(h)
    BY DEF Links
  <1>6. ASSUME NEW h \in process_mask
        PROVE  /\ (headptr[h] <= Len(Records(blkpos, h)) + 1)'
               /\ (Left(h) => ti <= PlaceOf(h) /\ h \in ToSet(tc_head[PlaceOf(h)]))'
               /\ (headptr[h] > 1 => Place(blkpos, h, headptr[h] - 1) <= ti)'
    BY <1>1, <1>3, <1>4
  <1> QED
    BY <1>1, <1>3, <1>5, <1>6 DEF Links

----------------------------------------------------------------------------
(* At the end of a section, what it has for the range was called back.      *)
LEMMA PrefixKept ==
  ASSUME NEW cs \in Seq(Sample), NEW q \in 0 .. Len(cs), NEW m,
         m = "fv" /\ Limited => \A j \in 1 .. Len(cs) : cs[j].time <= limit.end <=> j <= q,
         ~(m = "fv" /\ Limited) => q = Len(cs)
  PROVE  Kept(m, cs) = SubSeq(cs, 1, q)
  <1>1. CASE m = "fv" /\ Limited
    <2> DEFINE P == {j \in DOMAIN cs : cs[j].time <= limit.end}
    <2>1. \A j \in 1 .. Len(cs) : j \in P <=> j <= q
      BY <1>1
    <2>2. Kept(m, cs) = Among(cs, P)
      BY <1>1, Zenon DEF Kept, Until
    <2> HIDE DEF P
    <2>3. Among(cs, P) = SubSeq(cs, 1, q)
      BY <2>1, AmongPrefix
    <2> QED
      BY <2>2, <2>3
  <1>2. CASE ~(m = "fv" /\ Limited)
    <2>1. Kept(m, cs) = cs
      BY <1>2, Zenon DEF Kept
    <2>2. SubSeq(cs, 1, Len(cs)) = cs
      BY SubSeqFull
    <2> QED
      BY <1>2, <2>1, <2>2
  <1> QED
    BY <1>1, <1>2

(* The ends of a range are numbers.                                         *)
LEMMA LimitEnd ==
  ASSUME limit \in Limits \cup {Unlimited}, Limited
  PROVE  limit.end \in Nat /\ limit.start \in Nat
  <1>1. limit \in Limits
    BY DEF Limited
  <1>2. limit \in [start : Nat, end : Nat]
    BY <1>1, FilesAssumption
  <1> QED
    BY <1>2

(* When the loop over the times ends, each chain has been read as far as    *)
(* the mode goes.                                                           *)
LEMMA SectionRead ==
  ASSUME LoopInv, TimeDone, ~MoreTimes, NEW h \in process_mask
  PROVE  Kept(mode, Changes(blkpos, h)) = SubSeq(Changes(blkpos, h), 1, headptr[h] - 1)
  <1> DEFINE n == Len(Records(blkpos, h))
             p == headptr[h]
             k == blkpos
             T == Table(blkpos)
  <1>1. /\ LoopType /\ phase = "times" /\ Links
        /\ mode = "fv" /\ Limited /\ ti > 0 => T[ti] <= limit.end
    BY Zenon DEF LoopInv, TimeDone
  <1>2. /\ process_mask \subseteq Handle /\ WellFormed(file) /\ k \in DOMAIN file.blocks
        /\ ti \in 0 .. Len(tc_head) /\ Len(tc_head) = Len(T) /\ Len(tc_head) \in Nat
        /\ headptr \in [Handle -> Nat \ {0}] /\ limit \in Limits \cup {Unlimited}
    BY <1>1, LoopTypeFacts DEF LoopType
  <1>3. h \in Handle /\ p \in Nat \ {0} /\ n \in Nat
    <2>1. Records(k, h) \in Seq(Change)
      BY <1>2, RecordFacts
    <2> QED
      BY <1>2, <2>1
  <1>4. /\ Changes(k, h) \in Seq(Sample) /\ Len(Changes(k, h)) = n
        /\ \A j \in 1 .. n : Changes(k, h)[j] = [time |-> TimeOf(k, h, j), val |-> Records(k, h)[j].val]
    BY <1>2, <1>3, ChangesFacts
  <1>5. /\ p <= n + 1
        /\ p > 1 => Place(k, h, p - 1) <= ti
    BY <1>1 DEF Links
  <1>6. p <= n => PlaceOf(h) \in 1 .. Len(tc_head) /\ ti + 1 <= PlaceOf(h)
    BY <1>1, PastThisTime DEF Left
  <1>7. /\ T \in Seq(Nat) /\ \A i \in 1 .. Len(T) : T[i] \in Nat
        /\ \A i, j \in 1 .. Len(T) : i <= j => T[i] <= T[j]
    <2>1. T \in Seq(Nat) /\ \A i, j \in 1 .. Len(T) : i <= j => T[i] <= T[j]
      BY <1>2, TableFacts, Zenon
    <2>2. \A i \in 1 .. Len(T) : T[i] \in Nat
      <3> HIDE DEF T
      <3> QED
        BY <2>1
    <2> QED
      BY <2>1, <2>2, Zenon
  <1>8. /\ \A j \in 1 .. n : Place(k, h, j) \in 1 .. Len(T)
        /\ \A i, j \in 1 .. n : i <= j => Place(k, h, i) <= Place(k, h, j)
    BY <1>2, <1>3, RecordFacts
  <1>9. ti < Len(tc_head) => mode = "fv" /\ Limited /\ T[ti + 1] > limit.end
    BY DEF MoreTimes, StopsAt
  <1> HIDE DEF n, p, T, k
  <1>10. p - 1 \in 0 .. Len(Changes(k, h))
    BY <1>3, <1>4, <1>5
  <1>11. ASSUME mode = "fv" /\ Limited, NEW j \in 1 .. Len(Changes(k, h))
         PROVE  Changes(k, h)[j].time <= limit.end <=> j <= p - 1
    <2>1. limit.end \in Nat
      BY <1>2, <1>11, LimitEnd
    <2>2. Changes(k, h)[j].time = T[Place(k, h, j)] /\ Place(k, h, j) \in 1 .. Len(T) /\ j \in 1 .. n
      BY <1>4, <1>8 DEF TimeOf, T, k
    <2>3. CASE j <= p - 1
      <3>1. p - 1 \in 1 .. n /\ p > 1
        BY <1>3, <1>5, <2>2, <2>3
      <3>2. Place(k, h, j) <= Place(k, h, p - 1) /\ Place(k, h, p - 1) <= ti
            /\ Place(k, h, p - 1) \in 1 .. Len(T)
        BY <1>5, <1>8, <2>2, <2>3, <3>1
      <3>3. ti \in 1 .. Len(T) /\ ti > 0 /\ Place(k, h, j) <= ti
        BY <1>2, <2>2, <3>2
      <3>4. T[Place(k, h, j)] <= T[ti] /\ T[ti] <= limit.end
        BY <1>1, <1>7, <1>11, <2>2, <3>3
      <3>5. T[Place(k, h, j)] <= limit.end
        BY <1>7, <2>1, <2>2, <3>3, <3>4
      <3> QED
        BY <2>2, <2>3, <3>5
    <2>4. CASE ~(j <= p - 1)
      <3>1. p <= j /\ p \in 1 .. n
        BY <1>3, <2>2, <2>4
      <3>2. Place(k, h, p) <= Place(k, h, j) /\ Place(k, h, p) \in 1 .. Len(T) /\ ti + 1 <= Place(k, h, p)
        BY <1>6, <1>8, <2>2, <3>1 DEF PlaceOf, p, k
      <3>3. ti + 1 \in 1 .. Len(T) /\ ti < Len(tc_head) /\ ti + 1 <= Place(k, h, j)
        BY <1>2, <2>2, <3>2
      <3>4. T[ti + 1] <= T[Place(k, h, j)] /\ T[ti + 1] > limit.end
        BY <1>7, <1>9, <2>2, <3>3
      <3>5. ~(T[Place(k, h, j)] <= limit.end)
        BY <1>7, <2>1, <2>2, <3>3, <3>4
      <3> QED
        BY <2>2, <2>4, <3>5
    <2> QED
      BY <2>3, <2>4
  <1>12. ASSUME ~(mode = "fv" /\ Limited) PROVE p - 1 = Len(Changes(k, h))
    <2>1. ~(ti < Len(tc_head))
      BY <1>9, <1>12
    <2>2. ~(p <= n)
      BY <1>2, <1>6, <2>1
    <2> QED
      BY <1>3, <1>4, <1>5, <2>2
  <1>13. Kept(mode, Changes(k, h)) = SubSeq(Changes(k, h), 1, p - 1)
    BY <1>4, <1>10, <1>11, <1>12, PrefixKept
  <1> QED
    BY <1>13 DEF k, p

(* What was called back at the end of a section.                            *)
LEMMA SectionCalled ==
  ASSUME LoopInv, TimeDone, ~MoreTimes, NEW h \in Handle
  PROVE  CallsOf(h) = IF Shown(mode, h) THEN ReadUpTo(mode, blkpos, h) ELSE <<>>
  <1>1. /\ LoopType /\ phase = "times" /\ InRange(Block(blkpos))
        /\ CallsOf(h) = IF Shown(mode, h) THEN CallsSoFar(h) ELSE <<>>
    BY Zenon DEF LoopInv, TimeDone
  <1>2. CASE Shown(mode, h)
    <2>1. h \in process_mask
      BY <1>2 DEF Shown
    <2>2. Kept(mode, Changes(blkpos, h)) = SubSeq(Changes(blkpos, h), 1, headptr[h] - 1)
      BY <2>1, SectionRead
    <2>3. blkpos \in 1 .. Len(file.blocks) /\ WellFormed(file)
      BY <1>1, LoopTypeFacts DEF LoopType
    <2>4. ReadUpTo(mode, blkpos, h) = ReadUpTo(mode, blkpos - 1, h)
             \o (IF InRange(Block(blkpos)) THEN Kept(mode, Changes(blkpos, h)) ELSE <<>>)
      BY <2>3, ReadMore
    <2>5. CallsSoFar(h) = ReadUpTo(mode, blkpos - 1, h) \o SubSeq(Changes(blkpos, h), 1, headptr[h] - 1)
      BY <1>1, Zenon DEF CallsSoFar
    <2> QED
      BY <1>1, <1>2, <2>2, <2>4, <2>5, Zenon
  <1>3. CASE ~Shown(mode, h)
    BY <1>1, <1>3, Zenon
  <1> QED
    BY <1>2, <1>3

(* The sections of an iteration, of the whole file.                         *)
RangeOf(m, h) ==
  Kept(m, DecodeSections(Among(file.blocks, {k \in DOMAIN file.blocks : InRange(Block(k))}), h))

(* The changes of the range are those read from all sections.               *)
LEMMA AllRead ==
  ASSUME WellFormed(file), NEW m, NEW h
  PROVE  RangeOf(m, h) = ReadUpTo(m, Len(file.blocks), h)
  <1>1. DOMAIN file.blocks = 1 .. Len(file.blocks) /\ SubSeq(file.blocks, 1, Len(file.blocks)) = file.blocks
    <2>1. file.blocks \in Seq(Section)
      BY DEF WellFormed
    <2> QED
      BY <2>1, SubSeqFull
  <1>2. SectionsUpTo(Len(file.blocks)) = Among(file.blocks, {k \in DOMAIN file.blocks : InRange(Block(k))})
    BY <1>1, Zenon DEF SectionsUpTo
  <1> QED
    BY <1>2, Zenon DEF RangeOf, ReadUpTo

(* The same in the next state.                                              *)
LEMMA RangeNext ==
  ASSUME file' = file, limit' = limit, result'.mode = mode, NEW h
  PROVE  RangeChanges(h)' = RangeOf(mode, h)
  BY Zenon DEF RangeChanges, RangeOf, Kept, Until, InRange, Limited, Block

(* The state of the calls in the next state.                                *)
LEMMA SoFarNext ==
  ASSUME file' = file, limit' = limit, NEW h
  PROVE  CallsSoFar(h)' = ReadUpTo(mode', blkpos' - 1, h)
            \o (IF phase' = "times" THEN SubSeq(Changes(blkpos', h), 1, headptr'[h] - 1) ELSE <<>>)
  BY Zenon DEF CallsSoFar, ReadUpTo, SectionsUpTo, Kept, Until, InRange, Limited, Block, Changes,
               Records, Table

(* A masked handle stays one within an iteration.                           *)
LEMMA ShownNext ==
  ASSUME file' = file, process_mask' = process_mask, NEW h
  PROVE  Shown(mode, h)' <=> Shown(mode', h)
  BY Zenon DEF Shown, Reported

(* The callbacks of a handle in the next state.                             *)
LEMMA CallsNext == ASSUME NEW h PROVE CallsOf(h)' = CallsIn(called', h)
  BY Zenon DEF CallsOf, CallsIn, SamplesOf, CallPlaces

----------------------------------------------------------------------------
(* Every step keeps the invariant of the iteration.                         *)

(* The empty list.                                                          *)
LEMMA EmptyCalls == <<>> \in Seq(Call) /\ <<>> \in Heads /\ Len(<<>>) = 0
  BY DEF Heads

(* Between iterations the loop stands still.                                *)
LEMMA IdleKeeps ==
  ASSUME LoopInv, phase = "idle", phase' \in {"idle", "misread"}, file' = file, UNCHANGED locals,
         process_mask' \subseteq 1 .. file.maxhandle, limit' \in Limits \cup {Unlimited},
         called' = <<>>
  PROVE  LoopInv'
  <1>1. /\ mode' = mode /\ blkpos' = blkpos /\ secnum' = secnum /\ ti' = ti /\ tc_head' = tc_head
        /\ headptr' = headptr
    BY DEF locals
  <1>2. LoopType
    BY DEF LoopInv
  <1>3. LoopType'
    BY <1>1, <1>2, EmptyCalls DEF LoopType
  <1>4. phase' \notin {"sections", "times"} /\ phase' # "times"
    OBVIOUS
  <1> QED
    BY <1>3, <1>4, Zenon DEF LoopInv

(* An iteration starts with no section read.                                *)
LEMMA IterBlocksKeeps ==
  ASSUME LoopInv, NEW m \in Mode, IterBlocks(m)
  PROVE  LoopInv'
  <1>1. /\ phase = "idle" /\ phase' = "sections" /\ mode' = m /\ blkpos' = 1 /\ secnum' = 0
        /\ called' = <<>> /\ result' = NoResult /\ file' = file /\ process_mask' = process_mask
        /\ limit' = limit /\ ti' = ti /\ tc_head' = tc_head /\ headptr' = headptr
    BY DEF IterBlocks, settings
  <1>2. LoopType
    BY DEF LoopInv
  <1>3. LoopType'
    <2>1. Len(file.blocks) \in Nat \ {0}
      BY <1>2, LoopTypeFacts
    <2> QED
      BY <1>1, <1>2, <2>1, EmptyCalls DEF LoopType
  <1>4. ASSUME NEW h \in Handle
        PROVE  CallsOf(h)' = IF Shown(mode, h)' THEN CallsSoFar(h)' ELSE <<>>
    <2>1. CallsOf(h)' = <<>>
      BY <1>1, CallsNext, CallsNone
    <2>2. CallsSoFar(h)' = ReadUpTo(mode', blkpos' - 1, h) \o <<>>
      BY <1>1, SoFarNext
    <2>3. blkpos' - 1 = 0
      BY <1>1
    <2>4. ReadUpTo(mode', 0, h) = <<>>
      BY ReadNone
    <2>5. CallsSoFar(h)' = <<>> \o <<>>
      BY <2>2, <2>3, <2>4, Zenon
    <2>6. <<>> \o <<>> = <<>>
      BY EmptyCalls, ConcatEmptySeq
    <2> QED
      BY <2>1, <2>5, <2>6, Zenon
  <1>5. phase' # "times"
    BY <1>1
  <1> QED
    BY <1>3, <1>4, <1>5, Zenon DEF LoopInv

(* The return keeps the invariant of the loop.                              *)
LEMMA ReturnKeeps ==
  ASSUME LoopInv, IterationReturns
  PROVE  LoopInv'
  <1>1. /\ phase' = "idle" /\ mode' = "callback" /\ blkpos' = 1 /\ secnum' = 0
        /\ called' = called /\ file' = file /\ process_mask' = process_mask
        /\ limit' = limit /\ ti' = 0 /\ tc_head' = <<>> /\ headptr' = [h \in Handle |-> 1]
    BY DEF IterationReturns, settings
  <1>2. LoopType
    BY DEF LoopInv
  <1>3. LoopType'
    <2>1. Len(file.blocks) \in Nat \ {0}
      BY <1>2, LoopTypeFacts
    <2>2. headptr' \in [Handle -> Nat \ {0}]
      BY <1>1
    <2>3. "callback" \in Mode
      BY DEF Mode
    <2> QED
      BY <1>1, <1>2, <2>1, <2>2, <2>3, EmptyCalls DEF LoopType
  <1>4. phase' \notin {"sections", "times"} /\ phase' # "times"
    BY <1>1
  <1> QED
    BY <1>3, <1>4, Zenon DEF LoopInv

(* At the return every change read was called back.                         *)
LEMMA ReturnDecodes ==
  ASSUME LoopType, IterationReturns,
         \A h \in Handle : CallsOf(h) = IF Shown(mode, h) THEN ReadUpTo(mode, Len(file.blocks), h) ELSE <<>>
  PROVE  IterationDecodes'
  <1>1. /\ called' = called /\ file' = file /\ process_mask' = process_mask /\ limit' = limit
        /\ result'.mode = mode
    BY DEF IterationReturns, settings
  <1>2. WellFormed(file) /\ file.maxhandle \in Handle
    BY DEF LoopType, WellFormed
  <1>3. ASSUME NEW h \in 1 .. file'.maxhandle
        PROVE  CallsOf(h)' = IF h \in process_mask' /\ Reported(result.mode, h)' THEN RangeChanges(h)' ELSE <<>>
    <2>1. h \in Handle
      BY <1>1, <1>2, FilesAssumption DEF Handle
    <2>2. CallsOf(h)' = CallsOf(h)
      BY <1>1, CallsNext, CallsOfCalled
    <2>3. RangeChanges(h)' = ReadUpTo(mode, Len(file.blocks), h)
      BY <1>1, <1>2, RangeNext, AllRead
    <2>4. (h \in process_mask' /\ Reported(result.mode, h)') <=> Shown(mode, h)
      BY <1>1, Zenon DEF Shown, Reported
    <2>5. CallsOf(h) = IF Shown(mode, h) THEN ReadUpTo(mode, Len(file.blocks), h) ELSE <<>>
      BY <2>1
    <2> QED
      BY <2>2, <2>3, <2>4, <2>5, Zenon
  <1> QED
    BY <1>3, Zenon DEF IterationDecodes

(* Behind the sections of the range nothing is left to read.                *)
LEMMA SectionsCalled ==
  ASSUME LoopInv, LeaveSections, NEW h \in Handle
  PROVE  CallsOf(h) = IF Shown(mode, h) THEN ReadUpTo(mode, Len(file.blocks), h) ELSE <<>>
  <1>1. /\ phase = "sections" /\ IterationReturns
        /\ IF blkpos > Len(file.blocks) THEN TRUE ELSE ~InEarlierSection /\ InLaterSection
    BY DEF LeaveSections
  <1>2. LoopType /\ \A g \in Handle : CallsOf(g) = IF Shown(mode, g) THEN CallsSoFar(g) ELSE <<>>
    BY <1>1, Zenon DEF LoopInv
  <1>3. /\ WellFormed(file) /\ Len(file.blocks) \in Nat /\ blkpos \in 1 .. Len(file.blocks) + 1
        /\ limit \in Limits \cup {Unlimited}
    BY <1>2, LoopTypeFacts DEF LoopType
  <1>4. blkpos <= Len(file.blocks) => Limited /\ Block(blkpos).begin > limit.end
    BY <1>1, <1>3 DEF InLaterSection
  <1>5. ReadUpTo(mode, Len(file.blocks), h) = ReadUpTo(mode, blkpos - 1, h)
    BY <1>3, <1>4, NothingLater
  <1>6. CallsSoFar(h) = ReadUpTo(mode, blkpos - 1, h) \o <<>>
    BY <1>1, Zenon DEF CallsSoFar
  <1>7. ReadUpTo(mode, blkpos - 1, h) \in Seq(Sample)
    <2>1. blkpos - 1 \in 0 .. Len(file.blocks)
      BY <1>3
    <2> QED
      BY <1>3, <2>1, ReadType
  <1>8. ReadUpTo(mode, blkpos - 1, h) \o <<>> = ReadUpTo(mode, blkpos - 1, h)
    BY <1>7, ConcatEmptySeq
  <1> QED
    BY <1>2, <1>5, <1>6, <1>8, Zenon

(* An iteration that leaves the sections has called back all changes of the *)
(* range.                                                                   *)
LEMMA LeaveDecodes ==
  ASSUME LoopInv, LeaveSections
  PROVE  IterationDecodes'
  <1>1. IterationReturns /\ LoopType
    BY DEF LeaveSections, LoopInv
  <1>2. \A h \in Handle : CallsOf(h) = IF Shown(mode, h) THEN ReadUpTo(mode, Len(file.blocks), h) ELSE <<>>
    BY SectionsCalled
  <1> QED
    BY <1>1, <1>2, ReturnDecodes

(* So has one that has read the last section.                               *)
LEMMA LastDecodes ==
  ASSUME LoopInv, LastSectionDone
  PROVE  IterationDecodes'
  <1>1. TimeDone /\ ~MoreTimes /\ IterationReturns /\ secnum + 1 = Len(file.blocks) /\ phase = "times"
    BY DEF LastSectionDone, TimeDone
  <1>2. LoopType
    BY DEF LoopInv
  <1>3. blkpos = Len(file.blocks)
    BY <1>1, <1>2, LoopTypeFacts DEF LoopType
  <1>4. \A h \in Handle : CallsOf(h) = IF Shown(mode, h) THEN ReadUpTo(mode, Len(file.blocks), h) ELSE <<>>
    BY <1>1, <1>3, SectionCalled
  <1> QED
    BY <1>1, <1>2, <1>4, ReturnDecodes

(* A section in front of the range is skipped.                              *)
LEMMA SkipKeeps ==
  ASSUME LoopInv, SkipSection
  PROVE  LoopInv'
  <1>1. /\ phase = "sections" /\ phase' = "sections" /\ mode' = mode /\ blkpos' = blkpos + 1 /\ secnum' = secnum
        /\ called' = called /\ file' = file /\ process_mask' = process_mask /\ result' = result
        /\ limit' = limit /\ ti' = ti /\ tc_head' = tc_head /\ headptr' = headptr
        /\ blkpos <= Len(file.blocks) /\ InEarlierSection
    BY DEF SkipSection, settings
  <1>2. LoopType /\ \A h \in Handle : CallsOf(h) = IF Shown(mode, h) THEN CallsSoFar(h) ELSE <<>>
    BY <1>1, Zenon DEF LoopInv
  <1>3. /\ WellFormed(file) /\ Len(file.blocks) \in Nat /\ blkpos \in 1 .. Len(file.blocks)
        /\ limit \in Limits \cup {Unlimited} /\ DOMAIN file.blocks = 1 .. Len(file.blocks)
    BY <1>1, <1>2, LoopTypeFacts DEF LoopType
  <1>4. LoopType'
    <2>1. blkpos' \in 1 .. Len(file.blocks) + 1 /\ secnum' \in 0 .. blkpos' - 1
      BY <1>1, <1>2, <1>3 DEF LoopType
    <2> QED
      BY <1>1, <1>2, <2>1 DEF LoopType
  <1>5. ~InRange(Block(blkpos))
    <2>1. Limited /\ Block(blkpos).end < limit.start
      BY <1>1 DEF InEarlierSection
    <2>2. Block(blkpos).end \in Nat /\ limit.start \in Nat
      BY <1>3, <2>1, BlockType, LimitEnd
    <2> QED
      BY <2>1, <2>2 DEF InRange
  <1>6. ASSUME NEW h \in Handle
        PROVE  CallsOf(h)' = IF Shown(mode, h)' THEN CallsSoFar(h)' ELSE <<>>
    <2>1. CallsOf(h)' = CallsOf(h)
      BY <1>1, CallsNext, CallsOfCalled
    <2>2. CallsSoFar(h)' = ReadUpTo(mode', blkpos' - 1, h) \o <<>>
      BY <1>1, SoFarNext
    <2>3. CallsSoFar(h) = ReadUpTo(mode, blkpos - 1, h) \o <<>>
      BY <1>1, Zenon DEF CallsSoFar
    <2>4. /\ ReadUpTo(mode, blkpos, h) = ReadUpTo(mode, blkpos - 1, h) \o <<>>
          /\ ReadUpTo(mode, blkpos - 1, h) \in Seq(Sample)
      BY <1>3, <1>5, ReadMore
    <2>5. ReadUpTo(mode, blkpos - 1, h) \o <<>> = ReadUpTo(mode, blkpos - 1, h)
      BY <2>4, ConcatEmptySeq
    <2>6. blkpos' - 1 = blkpos
      BY <1>1, <1>3
    <2>7. Shown(mode, h)' <=> Shown(mode, h)
      BY <1>1, ShownNext
    <2>8. CallsSoFar(h)' = CallsSoFar(h)
      BY <1>1, <2>2, <2>3, <2>4, <2>5, <2>6, Zenon
    <2> QED
      BY <1>2, <2>1, <2>7, <2>8, Zenon
  <1>7. phase' # "times"
    BY <1>1
  <1> QED
    BY <1>4, <1>6, <1>7, Zenon DEF LoopInv

(* A section is loaded: its frame may be called back, its chains are        *)
(* linked.                                                                  *)
LEMMA LoadKeeps ==
  ASSUME LoopInv, LoadSection
  PROVE  LoopInv'
  <1>1. /\ phase = "sections" /\ phase' = "times" /\ mode' = mode /\ blkpos' = blkpos /\ secnum' = secnum
        /\ file' = file /\ process_mask' = process_mask /\ result' = result
        /\ limit' = limit /\ ti' = 0 /\ headptr' = [h \in Handle |-> 1]
        /\ blkpos <= Len(file.blocks) /\ ~InEarlierSection /\ ~InLaterSection
        /\ called' \in {called, called \o FrameCalls(Block(blkpos))}
    BY DEF LoadSection, settings
  <1>2. LoopType /\ \A h \in Handle : CallsOf(h) = IF Shown(mode, h) THEN CallsSoFar(h) ELSE <<>>
    BY <1>1, Zenon DEF LoopInv
  <1>3. /\ WellFormed(file) /\ Len(file.blocks) \in Nat /\ process_mask \subseteq Handle
        /\ limit \in Limits \cup {Unlimited} /\ called \in Seq(Call)
        /\ blkpos - 1 \in 0 .. Len(file.blocks)
    BY <1>1, <1>2, LoopTypeFacts DEF LoopType
  <1>4. /\ tc_head' \in Heads /\ Len(tc_head') = Len(Table(blkpos)) /\ Links'
        /\ headptr' \in [Handle -> Nat \ {0}] /\ blkpos \in DOMAIN file.blocks
    BY <1>2, LoadLinks
  <1>5. /\ FrameCalls(Block(blkpos)) \in Seq(Call)
        /\ \A i \in 1 .. Len(FrameCalls(Block(blkpos))) : FrameCalls(Block(blkpos))[i].frame
    BY <1>3, <1>4, FrameFacts
  <1>6. called' \in Seq(Call) /\ \A h : CallsIn(called', h) = CallsIn(called, h)
    <2>1. CASE called' = called
      BY <1>3, <2>1
    <2>2. CASE called' = called \o FrameCalls(Block(blkpos))
      <3>1. called \o FrameCalls(Block(blkpos)) \in Seq(Call)
        BY <1>3, <1>5, ConcatProperties
      <3> QED
        BY <1>3, <1>5, <2>2, <3>1, CallsBeforeFrames
    <2> QED
      BY <1>1, <2>1, <2>2
  <1>7. Len(Table(blkpos)) \in Nat /\ Table(blkpos)' = Table(blkpos)
    <2>1. Table(blkpos)' = Table(blkpos)
      BY <1>1, Zenon DEF Table, Block
    <2> QED
      BY <1>3, <1>4, <2>1, TableFacts
  <1>8. LoopType'
    BY <1>1, <1>2, <1>4, <1>6, <1>7 DEF LoopType
  <1>9. InRange(Block(blkpos))'
    <2>1. InRange(Block(blkpos))
      <3> SUFFICES ASSUME Limited
                   PROVE  Block(blkpos).end >= limit.start /\ Block(blkpos).begin <= limit.end
        BY DEF InRange
      <3>1. Block(blkpos).end \in Nat /\ Block(blkpos).begin \in Nat /\ limit.start \in Nat /\ limit.end \in Nat
        BY <1>3, <1>4, BlockType, LimitEnd
      <3> QED
        BY <1>1, <3>1 DEF InEarlierSection, InLaterSection
    <2> QED
      BY <1>1, <2>1, Zenon DEF InRange, Limited, Block
  <1>10. ASSUME NEW h \in Handle
         PROVE  CallsOf(h)' = IF Shown(mode, h)' THEN CallsSoFar(h)' ELSE <<>>
    <2>1. CallsOf(h)' = CallsOf(h)
      BY <1>6, CallsNext, CallsOfCalled
    <2>2. CallsSoFar(h)' = ReadUpTo(mode', blkpos' - 1, h)
                              \o SubSeq(Changes(blkpos', h), 1, headptr'[h] - 1)
      BY <1>1, SoFarNext
    <2>3. CallsSoFar(h) = ReadUpTo(mode, blkpos - 1, h) \o <<>>
      BY <1>1, Zenon DEF CallsSoFar
    <2>4. headptr'[h] - 1 = 0
      BY <1>1
    <2>5. Shown(mode, h)' <=> Shown(mode, h)
      BY <1>1, ShownNext
    <2>6. CallsSoFar(h)' = CallsSoFar(h)
      BY <1>1, <2>2, <2>3, <2>4, PrefixNone, Zenon
    <2> QED
      BY <1>2, <2>1, <2>5, <2>6, Zenon
  <1>11. ~(ti' > 0)
    BY <1>1
  <1> QED
    BY <1>4, <1>8, <1>9, <1>10, <1>11, Zenon DEF LoopInv

(* The call back at ti is the next change of its handle.                    *)
LEMMA CallBackKeeps ==
  ASSUME LoopInv, CallBack
  PROVE  LoopInv'
  <1> DEFINE h0 == Head(tc_head[ti])
             p == headptr[h0]
             k == blkpos
             e == [time |-> Table(blkpos)[ti], handle |-> h0,
                   val |-> Block(blkpos).chain[h0][p].val, frame |-> FALSE]
  <1>1. /\ phase = "times" /\ phase' = phase /\ mode' = mode /\ blkpos' = blkpos /\ secnum' = secnum
        /\ file' = file /\ process_mask' = process_mask /\ result' = result
        /\ limit' = limit /\ ti' = ti /\ headptr' = [headptr EXCEPT ![h0] = @ + 1]
        /\ called' = IF Reported(mode, h0) THEN Append(called, e) ELSE called
    BY DEF CallBack, settings
  <1>2. /\ LoopType /\ Links /\ InRange(Block(blkpos))
        /\ mode = "fv" /\ Limited /\ ti > 0 => Table(blkpos)[ti] <= limit.end
        /\ \A h \in Handle : CallsOf(h) = IF Shown(mode, h) THEN CallsSoFar(h) ELSE <<>>
    BY <1>1, Zenon DEF LoopInv
  <1>3. /\ WellFormed(file) /\ Len(file.blocks) \in Nat /\ process_mask \subseteq Handle
        /\ called \in Seq(Call) /\ headptr \in [Handle -> Nat \ {0}] /\ blkpos - 1 \in 0 .. Len(file.blocks)
    BY <1>1, <1>2, LoopTypeFacts DEF LoopType
  <1>4. /\ tc_head' \in Heads /\ Len(tc_head') = Len(tc_head) /\ Links'
        /\ headptr' \in [Handle -> Nat \ {0}]
    BY <1>2, CallBackLinks
  <1>5. /\ ti \in 1 .. Len(tc_head) /\ k \in DOMAIN file.blocks /\ Len(tc_head) = Len(Table(k))
        /\ h0 \in process_mask /\ h0 \in Handle /\ ti = PlaceOf(h0) /\ p \in Nat \ {0}
        /\ p <= Len(Records(k, h0)) /\ Len(Records(k, h0)) \in Nat
    BY <1>2, HeadFacts
  <1> HIDE DEF h0
  <1>6. /\ Changes(k, h0) \in Seq(Sample) /\ Len(Changes(k, h0)) = Len(Records(k, h0))
        /\ Changes(k, h0)[p] = [time |-> TimeOf(k, h0, p), val |-> Records(k, h0)[p].val]
        /\ p \in 1 .. Len(Changes(k, h0))
    <2>1. p \in 1 .. Len(Records(k, h0))
      BY <1>5
    <2>2. /\ Changes(k, h0) \in Seq(Sample) /\ Len(Changes(k, h0)) = Len(Records(k, h0))
          /\ \A j \in 1 .. Len(Records(k, h0)) :
               Changes(k, h0)[j] = [time |-> TimeOf(k, h0, j), val |-> Records(k, h0)[j].val]
      BY <1>3, <1>5, ChangesFacts
    <2> QED
      BY <2>1, <2>2
  <1>7. SampleOf(e) = Changes(k, h0)[p] /\ e.handle = h0 /\ ~e.frame
    <2>1. TimeOf(k, h0, p) = Table(blkpos)[ti]
      BY <1>5 DEF TimeOf, PlaceOf
    <2>2. Records(k, h0)[p].val = Block(blkpos).chain[h0][p].val
      BY DEF Records
    <2> QED
      BY <1>6, <2>1, <2>2 DEF SampleOf
  <1>8. e \in Call
    <2>1. Changes(k, h0)[p] \in Sample
      BY <1>6
    <2>2. e.time \in Nat /\ e.val \in Value
      BY <1>7, <2>1 DEF Sample, SampleOf
    <2> QED
      BY <1>5, <2>2 DEF Call
  <1> HIDE DEF e, p, k
  <1>9. called' \in Seq(Call)
    <2>1. Append(called, e) \in Seq(Call)
      BY <1>3, <1>8, AppendProperties
    <2> QED
      BY <1>1, <1>3, <2>1
  <1>10. Table(blkpos)' = Table(blkpos) /\ (InRange(Block(blkpos))' <=> InRange(Block(blkpos)))
    BY <1>1, Zenon DEF Table, Block, InRange, Limited
  <1>11. LoopType'
    BY <1>1, <1>2, <1>4, <1>5, <1>9, <1>10 DEF LoopType, k
  <1>12. ASSUME NEW h \in Handle
         PROVE  CallsOf(h)' = IF Shown(mode, h)' THEN CallsSoFar(h)' ELSE <<>>
    <2> DEFINE R == ReadUpTo(mode, blkpos - 1, h)
               C == Changes(blkpos, h)
    <2>1. CallsSoFar(h)' = R \o SubSeq(C, 1, headptr'[h] - 1)
      BY <1>1, SoFarNext
    <2>2. CallsSoFar(h) = R \o SubSeq(C, 1, headptr[h] - 1)
      BY <1>1, Zenon DEF CallsSoFar
    <2>3. Shown(mode, h)' <=> Shown(mode, h)
      BY <1>1, ShownNext
    <2>4. CallsIn(called, h) = IF Shown(mode, h) THEN CallsSoFar(h) ELSE <<>>
      BY <1>2, CallsOfCalled
    <2>5. CallsOf(h)' = CallsIn(called', h)
      BY CallsNext
    <2>6. CallsIn(Append(called, e), h) =
            IF e.handle = h /\ ~e.frame THEN Append(CallsIn(called, h), SampleOf(e)) ELSE CallsIn(called, h)
      BY <1>3, <1>8, CallsMore
    <2>7. CASE h = h0 /\ Reported(mode, h0)
      <3>1. Shown(mode, h) /\ called' = Append(called, e)
        BY <1>1, <1>5, <2>7 DEF Shown
      <3>2. CallsOf(h)' = Append(R \o SubSeq(C, 1, p - 1), C[p])
        BY <1>7, <2>2, <2>4, <2>5, <2>6, <2>7, <3>1 DEF p, k
      <3>3. headptr'[h] - 1 = p
        BY <1>1, <1>3, <1>5, <2>7 DEF p
      <3>4. /\ SubSeq(C, 1, p) = Append(SubSeq(C, 1, p - 1), C[p]) /\ C[p] \in Sample
            /\ SubSeq(C, 1, p - 1) \in Seq(Sample)
        BY <1>6, <2>7, PrefixMore DEF k
      <3>5. R \in Seq(Sample)
        BY <1>3, ReadType
      <3> HIDE DEF R, C
      <3>6. R \o Append(SubSeq(C, 1, p - 1), C[p]) = Append(R \o SubSeq(C, 1, p - 1), C[p])
        BY <3>4, <3>5, AppendLast
      <3> QED
        BY <2>1, <2>3, <3>1, <3>2, <3>3, <3>4, <3>6, Zenon
    <2>8. CASE h = h0 /\ ~Reported(mode, h0)
      <3>1. ~Shown(mode, h) /\ called' = called
        BY <1>1, <2>8, Zenon DEF Shown
      <3> QED
        BY <2>3, <2>4, <2>5, <3>1, Zenon
    <2>9. CASE h # h0
      <3>1. headptr'[h] = headptr[h]
        BY <1>1, <1>3, <1>5, <2>9
      <3>2. CallsIn(called', h) = CallsIn(called, h)
        BY <1>1, <1>7, <2>6, <2>9
      <3> QED
        BY <2>1, <2>2, <2>3, <2>4, <2>5, <3>1, <3>2, Zenon
    <2> QED
      BY <2>7, <2>8, <2>9
  <1>13. (mode = "fv" /\ Limited /\ ti > 0 => Table(blkpos)[ti] <= limit.end)'
    BY <1>1, <1>2, <1>10 DEF Limited
  <1> QED
    BY <1>2, <1>4, <1>10, <1>11, <1>12, <1>13, Zenon DEF LoopInv

(* The loop goes on to the next time.                                       *)
LEMMA NextTimeKeeps ==
  ASSUME LoopInv, NextTime
  PROVE  LoopInv'
  <1>1. /\ phase = "times" /\ phase' = phase /\ mode' = mode /\ blkpos' = blkpos /\ secnum' = secnum
        /\ file' = file /\ process_mask' = process_mask /\ result' = result /\ called' = called
        /\ limit' = limit /\ ti' = ti + 1 /\ headptr' = headptr /\ tc_head' = tc_head
        /\ ti < Len(tc_head) /\ ~StopsAt(Table(blkpos)[ti + 1])
    BY DEF NextTime, TimeDone, MoreTimes, settings
  <1>2. /\ LoopType /\ Links /\ InRange(Block(blkpos))
        /\ \A h \in Handle : CallsOf(h) = IF Shown(mode, h) THEN CallsSoFar(h) ELSE <<>>
    BY <1>1, Zenon DEF LoopInv
  <1>3. Links'
    BY <1>2, NextTimeLinks
  <1>4. Table(blkpos)' = Table(blkpos) /\ (InRange(Block(blkpos))' <=> InRange(Block(blkpos)))
        /\ (Limited' <=> Limited)
    BY <1>1, Zenon DEF Table, Block, InRange, Limited
  <1>5. LoopType'
    <2>1. Len(tc_head) \in Nat
      BY <1>2, LoopTypeFacts
    <2>2. ti + 1 \in 0 .. Len(tc_head)
      BY <1>1, <1>2, <2>1 DEF LoopType
    <2> QED
      BY <1>1, <1>2, <1>4, <2>2 DEF LoopType
  <1>6. ASSUME NEW h \in Handle
        PROVE  CallsOf(h)' = IF Shown(mode, h)' THEN CallsSoFar(h)' ELSE <<>>
    <2>1. CallsSoFar(h)' = CallsSoFar(h)
      <3>1. CallsSoFar(h)' = ReadUpTo(mode', blkpos' - 1, h) \o SubSeq(Changes(blkpos', h), 1, headptr'[h] - 1)
        BY <1>1, SoFarNext
      <3>2. CallsSoFar(h) = ReadUpTo(mode, blkpos - 1, h) \o SubSeq(Changes(blkpos, h), 1, headptr[h] - 1)
        BY <1>1, Zenon DEF CallsSoFar
      <3> QED
        BY <1>1, <3>1, <3>2, Zenon
    <2>2. CallsOf(h)' = CallsOf(h)
      BY <1>1, CallsNext, CallsOfCalled
    <2>3. Shown(mode, h)' <=> Shown(mode, h)
      BY <1>1, ShownNext
    <2> QED
      BY <1>2, <2>1, <2>2, <2>3, Zenon
  <1>7. (mode = "fv" /\ Limited /\ ti > 0 => Table(blkpos)[ti] <= limit.end)'
    <2> SUFFICES ASSUME mode = "fv", Limited PROVE Table(blkpos)[ti + 1] <= limit.end
      BY <1>1, <1>4
    <2>1. ~(Table(blkpos)[ti + 1] > limit.end)
      BY <1>1 DEF StopsAt
    <2>2. limit.end \in Nat
      BY <1>2, LimitEnd DEF LoopType
    <2>3. Table(blkpos)[ti + 1] \in Nat
      <3>1. ti + 1 \in 1 .. Len(Table(blkpos)) /\ WellFormed(file) /\ blkpos \in DOMAIN file.blocks
        BY <1>1, <1>2, LoopTypeFacts DEF LoopType
      <3>2. Table(blkpos) \in Seq(Nat)
        BY <3>1, TableFacts
      <3> QED
        BY <3>1, <3>2
    <2> QED
      BY <2>1, <2>2, <2>3
  <1> QED
    BY <1>2, <1>3, <1>4, <1>5, <1>6, <1>7, Zenon DEF LoopInv

(* The loop goes on to the next section.                                    *)
LEMMA SectionDoneKeeps ==
  ASSUME LoopInv, SectionDone
  PROVE  LoopInv'
  <1>1. /\ phase = "times" /\ phase' = "sections" /\ mode' = mode /\ blkpos' = blkpos + 1 /\ secnum' = secnum + 1
        /\ file' = file /\ process_mask' = process_mask /\ result' = result /\ called' = called
        /\ limit' = limit /\ ti' = 0 /\ headptr' = headptr /\ tc_head' = <<>>
        /\ TimeDone /\ ~MoreTimes
    BY DEF SectionDone, TimeDone, settings
  <1>2. LoopType
    BY DEF LoopInv
  <1>3. /\ WellFormed(file) /\ Len(file.blocks) \in Nat /\ blkpos \in 1 .. Len(file.blocks)
    BY <1>1, <1>2, LoopTypeFacts DEF LoopType
  <1>4. LoopType'
    <2>1. blkpos' \in 1 .. Len(file.blocks) + 1 /\ secnum' \in 0 .. blkpos' - 1
      BY <1>1, <1>2, <1>3 DEF LoopType
    <2> QED
      BY <1>1, <1>2, <2>1, EmptyCalls DEF LoopType
  <1>5. ASSUME NEW h \in Handle
        PROVE  CallsOf(h)' = IF Shown(mode, h)' THEN CallsSoFar(h)' ELSE <<>>
    <2>1. CallsOf(h)' = CallsOf(h)
      BY <1>1, CallsNext, CallsOfCalled
    <2>2. CallsOf(h) = IF Shown(mode, h) THEN ReadUpTo(mode, blkpos, h) ELSE <<>>
      BY <1>1, SectionCalled
    <2>3. CallsSoFar(h)' = ReadUpTo(mode', blkpos' - 1, h) \o <<>>
      BY <1>1, SoFarNext
    <2>4. blkpos' - 1 = blkpos
      BY <1>1, <1>3
    <2>5. ReadUpTo(mode, blkpos, h) \in Seq(Sample)
      BY <1>3, ReadMore
    <2>6. ReadUpTo(mode, blkpos, h) \o <<>> = ReadUpTo(mode, blkpos, h)
      BY <2>5, ConcatEmptySeq
    <2>7. Shown(mode, h)' <=> Shown(mode, h)
      BY <1>1, ShownNext
    <2>8. CallsSoFar(h)' = ReadUpTo(mode, blkpos, h)
      BY <1>1, <2>3, <2>4, <2>6, Zenon
    <2> QED
      BY <2>1, <2>2, <2>7, <2>8, Zenon
  <1>6. phase' # "times"
    BY <1>1
  <1> QED
    BY <1>4, <1>5, <1>6, Zenon DEF LoopInv

----------------------------------------------------------------------------
(* The invariant of the reader, and the theorems.                           *)
ReaderInv ==
  /\ CursorInv /\ LoopInv /\ IterationDecodes
  /\ "rewind" \notin Usage => AnswerIsTheValue

(* A reader that was just opened.                                           *)
LEMMA ReaderInit == Init => ReaderInv
  <1> SUFFICES ASSUME Init PROVE ReaderInv
    OBVIOUS
  <1>1. /\ WellFormed(file) /\ MaxTime \in Nat /\ MaxHandle \in Nat
    BY FilesAssumption DEF Init
  <1>2. Len(file.blocks) \in Nat \ {0}
    <2>1. file.blocks \in Seq(Section) /\ file.blocks # <<>>
      BY <1>1 DEF WellFormed
    <2> QED
      BY <2>1
  <1>3. CursorInv
    <2>1. /\ section = 0 /\ chain_facidx = 0 /\ pos_valid = FALSE /\ pos_idx = 0 /\ pos_tidx = 0
          /\ pos_time = 0
      BY DEF Init
    <2>2. 0 \in 0 .. Len(file.blocks) /\ 0 \in 0 .. MaxHandle /\ 0 \in 0 .. MaxTime
      BY <1>1, <1>2
    <2>3. CursorType
      BY <2>1, <2>2 DEF CursorType
    <2> QED
      BY <1>1, <2>1, <2>3 DEF CursorInv
  <1>4. LoopType
    <2>1. "callback" \in Mode
      BY DEF Mode
    <2>2. phase = "idle" /\ tc_head = <<>> /\ ti = 0
      BY DEF Init
    <2> QED
      BY <1>1, <1>2, <2>1, <2>2, EmptyCalls DEF Init, LoopType
  <1>5. LoopInv
    <2>1. phase = "idle"
      BY DEF Init
    <2> QED
      BY <1>4, <2>1 DEF LoopInv
  <1>6. result.call = "other"
    BY DEF Init, NoResult
  <1>7. IterationDecodes /\ AnswerIsTheValue
    BY <1>6 DEF IterationDecodes, AnswerIsTheValue
  <1> QED
    BY <1>3, <1>5, <1>7 DEF ReaderInv

(* Nothing is promised of the callbacks unless an iteration returned.       *)
LEMMA NotAnIteration == ASSUME result'.call # "iteration" PROVE IterationDecodes'
  BY DEF IterationDecodes

(* A step of the settings.                                                  *)
LEMMA SettingKeeps ==
  ASSUME ReaderInv, phase = "idle", phase' = phase, file' = file, UNCHANGED <<rvat, locals>>,
         process_mask' \subseteq 1 .. file.maxhandle, limit' \in Limits \cup {Unlimited},
         called' = <<>>, result' = NoResult
  PROVE  ReaderInv'
  <1>1. CursorInv'
    BY CursorStays DEF ReaderInv
  <1>2. LoopInv'
    BY IdleKeeps DEF ReaderInv
  <1>3. result'.call = "other"
    BY DEF NoResult
  <1>4. AnswerIsTheValue' /\ IterationDecodes'
    BY <1>3, NoAnswerNeeded, NotAnIteration
  <1> QED
    BY <1>1, <1>2, <1>4, Zenon DEF ReaderInv

(* The process mask is set.                                                 *)
LEMMA MaskKeeps ==
  ASSUME ReaderInv, NEW mask, mask \subseteq 1 .. file.maxhandle, SetMask(mask)
  PROVE  ReaderInv'
  <1>1. /\ phase = "idle" /\ phase' = phase /\ file' = file /\ UNCHANGED <<rvat, locals>>
        /\ process_mask' = mask /\ limit' = limit /\ called' = <<>> /\ result' = NoResult
    BY DEF SetMask
  <1>2. limit \in Limits \cup {Unlimited}
    BY DEF ReaderInv, LoopInv, LoopType
  <1> QED
    BY <1>1, <1>2, SettingKeeps

(* An answer changes no setting.                                            *)
LEMMA GetSettles ==
  ASSUME NEW h \in Handle, NEW tim \in 0 .. MaxTime, GetValueFromHandleAtTime(h, tim)
  PROVE  /\ phase = "idle" /\ phase' \in {"idle", "misread"} /\ file' = file /\ UNCHANGED locals
         /\ process_mask' = process_mask /\ limit' = limit /\ called' = <<>>
         /\ result'.call # "iteration"
  <1>1. ASSUME NEW val, phase = "idle", Return(h, tim, val)
        PROVE  /\ phase = "idle" /\ phase' \in {"idle", "misread"} /\ file' = file /\ UNCHANGED locals
               /\ process_mask' = process_mask /\ limit' = limit /\ called' = <<>>
               /\ result'.call # "iteration"
    BY <1>1 DEF Return, Returned, settings
  <1>2. ASSUME NEW k, NEW loaded, NEW valid, phase = "idle", ProcessValue(k, h, tim, loaded, valid)
        PROVE  \E val : Return(h, tim, val)
    BY <1>2 DEF ProcessValue, SearchChain, StopAt, StopAtFrame
  <1>3. CASE RefuseHandle(h, tim)
    BY <1>1, <1>3 DEF RefuseHandle
  <1>4. CASE GetFromCached(h, tim)
    BY <1>1, <1>2, <1>4 DEF GetFromCached
  <1>5. CASE ScanToEnd(h, tim)
    BY <1>1, <1>5 DEF ScanToEnd
  <1>6. CASE ScanToSection(h, tim)
    BY <1>1, <1>2, <1>6 DEF ScanToSection
  <1>7. CASE ScanMisreads(h, tim)
    BY <1>7 DEF ScanMisreads, NoResult, settings
  <1> QED
    BY <1>3, <1>4, <1>5, <1>6, <1>7 DEF GetValueFromHandleAtTime

(* A value at a time is asked for.                                          *)
LEMMA GetKeeps ==
  ASSUME ReaderInv, NEW h \in Handle, NEW tim \in 0 .. MaxTime, GetValueFromHandleAtTime(h, tim)
  PROVE  ReaderInv'
  <1>1. CursorInv'
    BY GetKeepsCursor DEF ReaderInv
  <1>2. "rewind" \notin Usage => AnswerIsTheValue'
    BY GetAnswers DEF ReaderInv
  <1>3. /\ phase = "idle" /\ phase' \in {"idle", "misread"} /\ file' = file /\ UNCHANGED locals
        /\ process_mask' = process_mask /\ limit' = limit /\ called' = <<>>
        /\ result'.call # "iteration"
    BY GetSettles
  <1>4. LoopInv'
    <2>1. process_mask \subseteq 1 .. file.maxhandle /\ limit \in Limits \cup {Unlimited}
      BY DEF ReaderInv, LoopInv, LoopType
    <2> QED
      BY <1>3, <2>1, IdleKeeps DEF ReaderInv
  <1>5. IterationDecodes'
    BY <1>3, NotAnIteration
  <1> QED
    BY <1>1, <1>2, <1>4, <1>5, Zenon DEF ReaderInv

(* A step of an iteration that does not return.                             *)
LEMMA WithinIteration ==
  ASSUME ReaderInv, LoopInv', file' = file, UNCHANGED rvat, result'.call = "other"
  PROVE  ReaderInv'
  <1>1. CursorInv'
    BY CursorStays DEF ReaderInv
  <1>2. AnswerIsTheValue' /\ IterationDecodes'
    BY NoAnswerNeeded, NotAnIteration
  <1> QED
    BY <1>1, <1>2, Zenon DEF ReaderInv

(* An iteration returns.                                                    *)
LEMMA ReturnedKeeps ==
  ASSUME ReaderInv, IterationReturns, IterationDecodes'
  PROVE  ReaderInv'
  <1>1. file' = file /\ UNCHANGED rvat /\ result'.call = "iteration"
    BY DEF IterationReturns, settings
  <1>2. CursorInv'
    BY <1>1, CursorStays DEF ReaderInv
  <1>3. LoopInv'
    BY ReturnKeeps DEF ReaderInv
  <1>4. AnswerIsTheValue'
    BY <1>1, NoAnswerNeeded
  <1> QED
    BY <1>2, <1>3, <1>4, Zenon DEF ReaderInv

(* A step of an iteration.                                                  *)
LEMMA IterationKeeps ==
  ASSUME ReaderInv, Iteration
  PROVE  ReaderInv'
  <1>1. LoopInv
    BY DEF ReaderInv
  <1>2. phase \in {"sections", "times"} => result.call = "other"
    <2>1. phase \notin {"idle", "misread"} => result = NoResult
      BY <1>1, Zenon DEF LoopInv, LoopType
    <2> QED
      BY <2>1 DEF NoResult
  <1>3. CASE SkipSection
    <2>1. LoopInv'
      BY <1>1, <1>3, SkipKeeps
    <2>2. file' = file /\ UNCHANGED rvat /\ result' = result /\ phase = "sections"
      BY <1>3 DEF SkipSection, settings
    <2> QED
      BY <1>2, <2>1, <2>2, WithinIteration
  <1>4. CASE LoadSection
    <2>1. LoopInv'
      BY <1>1, <1>4, LoadKeeps
    <2>2. file' = file /\ UNCHANGED rvat /\ result' = result /\ phase = "sections"
      BY <1>4 DEF LoadSection, settings
    <2> QED
      BY <1>2, <2>1, <2>2, WithinIteration
  <1>5. CASE LeaveSections
    <2>1. IterationDecodes' /\ IterationReturns
      BY <1>1, <1>5, LeaveDecodes DEF LeaveSections
    <2> QED
      BY <2>1, ReturnedKeeps
  <1>6. CASE CallBack
    <2>1. LoopInv'
      BY <1>1, <1>6, CallBackKeeps
    <2>2. file' = file /\ UNCHANGED rvat /\ result' = result /\ phase = "times"
      BY <1>6 DEF CallBack, settings
    <2> QED
      BY <1>2, <2>1, <2>2, WithinIteration
  <1>7. CASE NextTime
    <2>1. LoopInv'
      BY <1>1, <1>7, NextTimeKeeps
    <2>2. file' = file /\ UNCHANGED rvat /\ result' = result /\ phase = "times"
      BY <1>7 DEF NextTime, TimeDone, settings
    <2> QED
      BY <1>2, <2>1, <2>2, WithinIteration
  <1>8. CASE SectionDone
    <2>1. LoopInv'
      BY <1>1, <1>8, SectionDoneKeeps
    <2>2. file' = file /\ UNCHANGED rvat /\ result' = result /\ phase = "times"
      BY <1>8 DEF SectionDone, TimeDone, settings
    <2> QED
      BY <1>2, <2>1, <2>2, WithinIteration
  <1>9. CASE LastSectionDone
    <2>1. IterationDecodes' /\ IterationReturns
      BY <1>1, <1>9, LastDecodes DEF LastSectionDone
    <2> QED
      BY <2>1, ReturnedKeeps
  <1> QED
    BY <1>3, <1>4, <1>5, <1>6, <1>7, <1>8, <1>9 DEF Iteration

(* No step.                                                                 *)
LEMMA StutterKeeps ==
  ASSUME ReaderInv, UNCHANGED vars
  PROVE  ReaderInv'
  <1>1. /\ file' = file /\ phase' = phase /\ process_mask' = process_mask /\ limit' = limit
        /\ UNCHANGED rvat /\ mode' = mode /\ blkpos' = blkpos /\ secnum' = secnum /\ ti' = ti
        /\ tc_head' = tc_head /\ headptr' = headptr /\ called' = called /\ result' = result
    BY DEF vars, settings, locals
  <1>2. CursorInv'
    BY <1>1, CursorStays DEF ReaderInv
  <1>3. "rewind" \notin Usage => AnswerIsTheValue'
    BY <1>1, AnswerKept DEF ReaderInv
  <1>4. \A h : RangeChanges(h)' = RangeChanges(h) /\ CallsOf(h)' = CallsOf(h)
    <2> TAKE h
    <2>1. RangeChanges(h)' = RangeChanges(h)
      BY <1>1, Zenon DEF RangeChanges, InRange, Limited, Block
    <2>2. CallsOf(h)' = CallsOf(h)
      BY <1>1, CallsNext, CallsOfCalled
    <2> QED
      BY <2>1, <2>2
  <1>5. IterationDecodes'
    BY <1>1, <1>4, Zenon DEF ReaderInv, IterationDecodes, Reported
  <1>6. LoopType'
    <2>1. Table(blkpos)' = Table(blkpos) /\ LoopType
      BY <1>1, Zenon DEF Table, Block, ReaderInv, LoopInv
    <2> QED
      BY <1>1, <2>1 DEF LoopType
  <1>7. ASSUME phase' = "times"
        PROVE  /\ Links' /\ InRange(Block(blkpos))'
               /\ (mode = "fv" /\ Limited /\ ti > 0 => Table(blkpos)[ti] <= limit.end)'
    <2>1. /\ Links /\ InRange(Block(blkpos))
          /\ mode = "fv" /\ Limited /\ ti > 0 => Table(blkpos)[ti] <= limit.end
      BY <1>1, <1>7, Zenon DEF ReaderInv, LoopInv
    <2>2. Links'
      BY <1>1, <2>1, Zenon DEF Links, Left, PlaceOf, Place, Records, Block
    <2> QED
      BY <1>1, <2>1, <2>2, Zenon DEF InRange, Limited, Block, Table
  <1>8. ASSUME phase' \in {"sections", "times"}, NEW h \in Handle
        PROVE  CallsOf(h)' = IF Shown(mode, h)' THEN CallsSoFar(h)' ELSE <<>>
    <2>1. CallsOf(h) = IF Shown(mode, h) THEN CallsSoFar(h) ELSE <<>>
      BY <1>1, <1>8, Zenon DEF ReaderInv, LoopInv
    <2>2. CallsSoFar(h)' = CallsSoFar(h)
      <3>1. CallsSoFar(h)' = ReadUpTo(mode', blkpos' - 1, h)
               \o (IF phase' = "times" THEN SubSeq(Changes(blkpos', h), 1, headptr'[h] - 1) ELSE <<>>)
        BY <1>1, SoFarNext
      <3> QED
        BY <1>1, <3>1, Zenon DEF CallsSoFar
    <2>3. Shown(mode, h)' <=> Shown(mode, h)
      BY <1>1, ShownNext
    <2> QED
      BY <1>4, <2>1, <2>2, <2>3, Zenon
  <1>9. LoopInv'
    BY <1>6, <1>7, <1>8, Zenon DEF LoopInv
  <1> QED
    BY <1>2, <1>3, <1>5, <1>9, Zenon DEF ReaderInv

(* Every step keeps the invariant.                                          *)
LEMMA ReaderStep == ReaderInv /\ [Next]_vars => ReaderInv'
  <1> SUFFICES ASSUME ReaderInv, [Next]_vars PROVE ReaderInv'
    OBVIOUS
  <1>1. LoopType
    BY DEF ReaderInv, LoopInv
  <1>2. file.maxhandle \in Handle /\ process_mask \subseteq 1 .. file.maxhandle /\ MaxHandle \in Nat
    BY <1>1, FilesAssumption DEF LoopType, WellFormed
  <1>3. ASSUME NEW h \in Handle, SetFacProcessMask(h) PROVE ReaderInv'
    <2>1. process_mask \cup {h} \subseteq 1 .. file.maxhandle
      BY <1>2, <1>3 DEF SetFacProcessMask, Handle
    <2> QED
      BY <1>3, <2>1, MaskKeeps DEF SetFacProcessMask
  <1>4. ASSUME NEW h \in Handle, ClrFacProcessMask(h) PROVE ReaderInv'
    <2>1. process_mask \ {h} \subseteq 1 .. file.maxhandle
      BY <1>2
    <2> QED
      BY <1>4, <2>1, MaskKeeps DEF ClrFacProcessMask
  <1>5. CASE SetFacProcessMaskAll
    <2>1. 1 .. file.maxhandle \subseteq 1 .. file.maxhandle
      OBVIOUS
    <2> QED
      BY <1>5, <2>1, MaskKeeps DEF SetFacProcessMaskAll
  <1>6. CASE ClrFacProcessMaskAll
    <2>1. {} \subseteq 1 .. file.maxhandle
      OBVIOUS
    <2> QED
      BY <1>6, <2>1, MaskKeeps DEF ClrFacProcessMaskAll
  <1>7. ASSUME NEW range \in Limits \cup {Unlimited}, SetTimeRange(range) PROVE ReaderInv'
    <2>1. /\ phase = "idle" /\ phase' = phase /\ file' = file /\ UNCHANGED <<rvat, locals>>
          /\ process_mask' = process_mask /\ limit' = range /\ called' = <<>> /\ result' = NoResult
      BY <1>7 DEF SetTimeRange
    <2> QED
      BY <1>2, <2>1, SettingKeeps
  <1>8. ASSUME NEW h \in Handle, NEW tim \in 0 .. MaxTime, GetValueFromHandleAtTime(h, tim) PROVE ReaderInv'
    BY <1>8, GetKeeps
  <1>9. ASSUME NEW m \in Mode, IterBlocks(m) PROVE ReaderInv'
    <2>1. LoopInv'
      BY <1>9, IterBlocksKeeps DEF ReaderInv
    <2>2. file' = file /\ UNCHANGED rvat /\ result'.call = "other"
      BY <1>9 DEF IterBlocks, NoResult, settings
    <2> QED
      BY <2>1, <2>2, WithinIteration
  <1>10. CASE Iteration
    BY <1>10, IterationKeeps
  <1>11. CASE UNCHANGED vars
    BY <1>11, StutterKeeps
  <1> QED
    BY <1>3, <1>4, <1>5, <1>6, <1>7, <1>8, <1>9, <1>10, <1>11 DEF Next

(* The invariant holds always.                                              *)
LEMMA ReaderInvariant == Spec => []ReaderInv
  <1>1. Init => ReaderInv
    BY ReaderInit
  <1>2. ReaderInv /\ [Next]_vars => ReaderInv'
    BY ReaderStep
  <1> QED
    BY <1>1, <1>2, PTL DEF Spec

(* The cursor of fstReaderGetValueFromHandleAtTime, when there is one, is   *)
(* at a record of the chain loaded from the section cached; the lists of    *)
(* fstReaderIterBlocks2 hold masked handles only.                           *)
THEOREM ReaderTypeCorrect == Spec => []TypeOK
  <1>1. ReaderInv => TypeOK
    <2> SUFFICES ASSUME ReaderInv PROVE TypeOK
      OBVIOUS
    <2>1. CursorType /\ LoopType
      BY DEF ReaderInv, CursorInv, LoopInv
    <2>2. /\ Len(file.blocks) \in Nat /\ blkpos \in 1 .. Len(file.blocks) + 1 /\ secnum \in 0 .. blkpos - 1
          /\ DOMAIN tc_head = 1 .. Len(tc_head)
      BY <2>1, LoopTypeFacts DEF LoopType
    <2>3. secnum \in 0 .. Len(file.blocks)
      BY <2>2
    <2>4. \A i \in DOMAIN tc_head : ToSet(tc_head[i]) \subseteq process_mask
      <3>1. CASE phase = "times"
        BY <2>2, <3>1, Zenon DEF ReaderInv, LoopInv, Links
      <3>2. CASE phase # "times"
        <4>1. tc_head = <<>>
          BY <2>1, <3>2 DEF LoopType
        <4> QED
          BY <4>1
      <3> QED
        BY <3>1, <3>2
    <2> QED
      BY <2>1, <2>3, <2>4 DEF TypeOK, IterationType, LoopType
  <1> QED
    BY <1>1, ReaderInvariant, PTL

(* fstReaderGetValueFromHandleAtTime answers with the value at the time,    *)
(* whatever was asked for before, unless the viewer goes back in a section  *)
(* to before the first change of the handle (the cursor is then reset at a  *)
(* place and time that do not belong together: see FstReaderCursor.cfg).    *)
THEOREM ReaderAnswers ==
  ASSUME "rewind" \notin Usage
  PROVE  Spec => []AnswerIsTheValue
  <1>1. ReaderInv => AnswerIsTheValue
    BY DEF ReaderInv
  <1> QED
    BY <1>1, ReaderInvariant, PTL

(* fstReaderIterBlocks2 calls back every change of every masked handle in   *)
(* the sections of the range, once, in order, with its time, and no other.  *)
THEOREM ReaderIterates == Spec => []IterationDecodes
  <1>1. ReaderInv => IterationDecodes
    BY DEF ReaderInv
  <1> QED
    BY <1>1, ReaderInvariant, PTL

----------------------------------------------------------------------------
(* What a viewer knows from the callbacks.                                  *)

(* The value of the last sample that is not after a time: one or none.      *)
LatestAt(s, tim) == {j \in 1 .. Len(s) : s[j].time <= tim /\ \A i \in j + 1 .. Len(s) : ~(s[i].time <= tim)}
LatestIn(s, tim) == {s[j].val : j \in LatestAt(s, tim)}

(* One more sample is the latest if it is not after the time.               *)
LEMMA LatestMore ==
  ASSUME NEW A, NEW s \in Seq(A), NEW x \in A, NEW tim
  PROVE  LatestIn(Append(s, x), tim) = IF x.time <= tim THEN {x.val} ELSE LatestIn(s, tim)
  <1> DEFINE t == Append(s, x)
             n == Len(s)
  <1>1. /\ t \in Seq(A) /\ Len(t) = n + 1 /\ n \in Nat /\ t[n + 1] = x
        /\ \A i \in 1 .. n : t[i] = s[i]
    BY AppendProperties
  <1> HIDE DEF t, n
  <1>2. CASE x.time <= tim
    <2>1. n + 1 \in LatestAt(t, tim)
      BY <1>1, <1>2 DEF LatestAt
    <2>2. \A j \in LatestAt(t, tim) : j = n + 1
      <3> TAKE j \in LatestAt(t, tim)
      <3>1. j \in 1 .. n + 1 /\ \A i \in j + 1 .. n + 1 : ~(t[i].time <= tim)
        BY <1>1 DEF LatestAt
      <3>2. j # n + 1 => n + 1 \in j + 1 .. n + 1
        BY <1>1, <3>1
      <3> QED
        BY <1>1, <1>2, <3>1, <3>2
    <2>3. LatestIn(t, tim) = {t[n + 1].val}
      BY <2>1, <2>2 DEF LatestIn
    <2> QED
      BY <1>1, <1>2, <2>3 DEF t
  <1>3. CASE ~(x.time <= tim)
    <2>1. ASSUME NEW j \in LatestAt(t, tim) PROVE j \in LatestAt(s, tim)
      <3>1. j \in 1 .. n + 1 /\ t[j].time <= tim /\ \A i \in j + 1 .. n + 1 : ~(t[i].time <= tim)
        BY <1>1 DEF LatestAt
      <3>2. j \in 1 .. n
        BY <1>1, <1>3, <3>1
      <3>3. \A i \in j + 1 .. n : i \in j + 1 .. n + 1 /\ i \in 1 .. n
        BY <1>1, <3>2
      <3> QED
        BY <1>1, <3>1, <3>2, <3>3 DEF LatestAt, n
    <2>2. ASSUME NEW j \in LatestAt(s, tim) PROVE j \in LatestAt(t, tim)
      <3>1. j \in 1 .. n /\ s[j].time <= tim /\ \A i \in j + 1 .. n : ~(s[i].time <= tim)
        BY DEF LatestAt, n
      <3>2. \A i \in j + 1 .. n + 1 : i = n + 1 \/ (i \in j + 1 .. n /\ i \in 1 .. n)
        BY <1>1, <3>1
      <3>3. j \in 1 .. n + 1 /\ t[j] = s[j]
        BY <1>1, <3>1
      <3>4. \A i \in j + 1 .. n + 1 : ~(t[i].time <= tim)
        BY <1>1, <1>3, <3>1, <3>2
      <3> QED
        BY <1>1, <3>1, <3>3, <3>4 DEF LatestAt
    <2>3. \A j \in LatestAt(s, tim) : t[j] = s[j]
      <3>1. \A j \in LatestAt(s, tim) : j \in 1 .. n
        BY DEF LatestAt, n
      <3> QED
        BY <1>1, <3>1
    <2>4. LatestIn(t, tim) = LatestIn(s, tim)
      BY <2>1, <2>2, <2>3 DEF LatestIn
    <2> QED
      BY <1>3, <2>4 DEF t
  <1> QED
    BY <1>2, <1>3

(* Of no samples there is no latest.                                        *)
LEMMA LatestNone == \A tim : LatestIn(<<>>, tim) = {}
  BY EmptyCalls DEF LatestIn, LatestAt

(* The latest of two lists is that of the second one, if it has one.        *)
LEMMA LatestConcat ==
  ASSUME NEW A, NEW s \in Seq(A), NEW t \in Seq(A), NEW tim
  PROVE  LatestIn(s \o t, tim) = IF LatestIn(t, tim) = {} THEN LatestIn(s, tim) ELSE LatestIn(t, tim)
  <1> DEFINE n == Len(t)
             T(i) == SubSeq(t, 1, i)
             S == {i \in 0 .. n : LatestIn(s \o T(i), tim) = IF LatestIn(T(i), tim) = {} THEN LatestIn(s, tim)
                                                             ELSE LatestIn(T(i), tim)}
  <1>1. n \in Nat
    OBVIOUS
  <1>2. 0 \in S
    <2>1. T(0) = <<>> /\ s \o <<>> = s
      BY PrefixNone, ConcatEmptySeq
    <2> HIDE DEF T
    <2>2. LatestIn(T(0), tim) = {} /\ LatestIn(s \o T(0), tim) = LatestIn(s, tim)
      BY <2>1, LatestNone
    <2> QED
      BY <1>1, <2>2
  <1>3. ASSUME NEW i \in 1 .. n, i - 1 \in S PROVE i \in S
    <2> DEFINE u == T(i - 1)
               e == t[i]
    <2>1. T(i) = Append(u, e) /\ e \in A /\ u \in Seq(A) /\ i \in 0 .. n
      BY PrefixMore
    <2>2. LatestIn(s \o u, tim) = IF LatestIn(u, tim) = {} THEN LatestIn(s, tim) ELSE LatestIn(u, tim)
      BY <1>3
    <2> HIDE DEF u, e, T
    <2>3. s \o Append(u, e) = Append(s \o u, e) /\ s \o u \in Seq(A)
      BY <2>1, AppendLast
    <2>4. LatestIn(Append(s \o u, e), tim) = IF e.time <= tim THEN {e.val} ELSE LatestIn(s \o u, tim)
      BY <2>1, <2>3, LatestMore
    <2>5. LatestIn(Append(u, e), tim) = IF e.time <= tim THEN {e.val} ELSE LatestIn(u, tim)
      BY <2>1, LatestMore
    <2>6. LatestIn(s \o T(i), tim) = IF LatestIn(T(i), tim) = {} THEN LatestIn(s, tim) ELSE LatestIn(T(i), tim)
      BY <2>1, <2>2, <2>3, <2>4, <2>5
    <2> QED
      BY <2>1, <2>6
  <1> HIDE DEF S
  <1>4. n \in S
    <2> HIDE DEF n, T
    <2>1. 0 .. n \subseteq S
      BY <1>1, <1>2, <1>3, BoundedInduction
    <2> QED
      BY <1>1, <2>1
  <1>5. T(n) = t
    BY SubSeqFull
  <1> HIDE DEF T
  <1> QED
    BY <1>4, <1>5 DEF S

(* Dropping the samples after a later time makes no difference.             *)
LEMMA LatestUntil ==
  ASSUME NEW s \in Seq(Sample), NEW tim \in Nat, NEW e \in Nat, tim <= e
  PROVE  LatestIn(Until(s, e), tim) = LatestIn(s, tim)
  <1> DEFINE n == Len(s)
             T(i) == SubSeq(s, 1, i)
             S == {i \in 0 .. n : LatestIn(Until(T(i), e), tim) = LatestIn(T(i), tim)}
  <1>1. n \in Nat
    OBVIOUS
  <1>2. 0 \in S
    <2>1. T(0) = <<>>
      BY PrefixNone
    <2>2. Until(<<>>, e) = <<>>
      BY AmongNone DEF Until
    <2> HIDE DEF T
    <2> QED
      BY <1>1, <2>1, <2>2
  <1>3. ASSUME NEW i \in 1 .. n, i - 1 \in S PROVE i \in S
    <2> DEFINE u == T(i - 1)
               x == s[i]
    <2>1. T(i) = Append(u, x) /\ x \in Sample /\ u \in Seq(Sample) /\ i \in 0 .. n
      BY PrefixMore
    <2>2. LatestIn(Until(u, e), tim) = LatestIn(u, tim)
      BY <1>3
    <2> HIDE DEF u, x, T
    <2>3. x.time \in Nat
      BY <2>1 DEF Sample
    <2>4. Until(Append(u, x), e) = Selected(Until(u, e), x, x.time <= e)
      <3> DEFINE v == Append(u, x)
                 P == {j \in DOMAIN u : u[j].time <= e}
                 Q == {j \in DOMAIN v : v[j].time <= e}
      <3>1. /\ DOMAIN u = 1 .. Len(u) /\ DOMAIN v = 1 .. Len(u) + 1 /\ v[Len(u) + 1] = x /\ Len(u) \in Nat
            /\ \A j \in 1 .. Len(u) : v[j] = u[j]
        <4>1. v \in Seq(Sample) /\ Len(v) = Len(u) + 1
          BY <2>1, AppendProperties
        <4> QED
          BY <2>1, <4>1, AppendProperties
      <3> HIDE DEF v
      <3>2. \A j \in 1 .. Len(u) : j \in P <=> j \in Q
        BY <3>1
      <3>3. Len(u) + 1 \in Q <=> x.time <= e
        BY <3>1
      <3> HIDE DEF P, Q
      <3>4. Among(v, Q) = Selected(Among(u, P), x, Len(u) + 1 \in Q)
        BY <2>1, <3>2, AmongMore DEF v
      <3> QED
        BY <3>3, <3>4 DEF Until, P, Q, v, Selected
    <2>5. Until(u, e) \in Seq(Sample)
      BY <2>1, AmongType DEF Until
    <2>6. LatestIn(Append(u, x), tim) = IF x.time <= tim THEN {x.val} ELSE LatestIn(u, tim)
      BY <2>1, LatestMore
    <2>7. LatestIn(Append(Until(u, e), x), tim) = IF x.time <= tim THEN {x.val} ELSE LatestIn(Until(u, e), tim)
      BY <2>1, <2>5, LatestMore
    <2>8. x.time <= tim => x.time <= e
      BY <2>3
    <2>9. LatestIn(Until(T(i), e), tim) = LatestIn(T(i), tim)
      BY <2>1, <2>2, <2>4, <2>6, <2>7, <2>8 DEF Selected
    <2> QED
      BY <2>1, <2>9
  <1> HIDE DEF S
  <1>4. n \in S
    <2> HIDE DEF n, T
    <2>1. 0 .. n \subseteq S
      BY <1>1, <1>2, <1>3, BoundedInduction
    <2> QED
      BY <1>1, <2>1
  <1>5. T(n) = s
    BY SubSeqFull
  <1> HIDE DEF T
  <1> QED
    BY <1>4, <1>5 DEF S

(* The latest callback of a handle that is not after a time.                *)
CallsBy(calls, h, tim) == {i \in DOMAIN calls : calls[i].handle = h /\ calls[i].time <= tim}
LatestCall(calls, h, tim) ==
  {calls[i].val : i \in {i \in CallsBy(calls, h, tim) : \A j \in CallsBy(calls, h, tim) : j <= i}}

(* One more callback is the latest if it is of the handle and not after the *)
(* time.                                                                    *)
LEMMA LatestCallMore ==
  ASSUME NEW calls \in Seq(Call), NEW e \in Call, NEW h, NEW tim
  PROVE  LatestCall(Append(calls, e), h, tim) =
            IF e.handle = h /\ e.time <= tim THEN {e.val} ELSE LatestCall(calls, h, tim)
  <1> DEFINE t == Append(calls, e)
             n == Len(calls)
             P == CallsBy(calls, h, tim)
             Q == CallsBy(t, h, tim)
  <1>1. /\ DOMAIN t = 1 .. n + 1 /\ DOMAIN calls = 1 .. n /\ n \in Nat /\ t[n + 1] = e
        /\ \A i \in 1 .. n : t[i] = calls[i]
    <2>1. t \in Seq(Call) /\ Len(t) = n + 1
      BY AppendProperties
    <2> QED
      BY <2>1, AppendProperties
  <1> HIDE DEF t, n
  <1>2. P \subseteq 1 .. n
    BY <1>1 DEF CallsBy
  <1>3. CASE e.handle = h /\ e.time <= tim
    <2>1. Q = P \cup {n + 1}
      <3>1. \A i : i \in P <=> i \in 1 .. n /\ calls[i].handle = h /\ calls[i].time <= tim
        BY <1>1 DEF CallsBy
      <3>2. \A i : i \in Q <=> i \in 1 .. n + 1 /\ t[i].handle = h /\ t[i].time <= tim
        BY <1>1 DEF CallsBy
      <3> HIDE DEF P, Q
      <3>3. \A i : i \in 1 .. n + 1 <=> i \in 1 .. n \/ i = n + 1
        BY <1>1
      <3>4. \A i \in 1 .. n : i \in Q <=> i \in P
        BY <1>1, <3>1, <3>2, <3>3
      <3>5. n + 1 \in Q
        BY <1>1, <1>3, <3>2, <3>3
      <3>6. \A i : i \in Q => i \in P \/ i = n + 1
        <4> SUFFICES ASSUME NEW i \in Q PROVE i \in P \/ i = n + 1
          OBVIOUS
        <4>1. i \in 1 .. n \/ i = n + 1
          BY <3>2, <3>3, Zenon
        <4> QED
          BY <4>1, <3>4, Zenon
      <3>7. \A i : i \in P \/ i = n + 1 => i \in Q
        <4>1. \A i \in P : i \in Q
          BY <3>1, <3>4, Zenon
        <4> QED
          BY <4>1, <3>5, Zenon
      <3> QED
        BY <3>6, <3>7, Zenon
    <2> HIDE DEF P, Q
    <2>2. \A j \in Q : j \in Int /\ j <= n + 1
      <3>1. \A j \in 1 .. n : j \in Int /\ j <= n + 1
        BY <1>1
      <3>2. n + 1 \in Int /\ n + 1 <= n + 1
        BY <1>1
      <3>3. \A j \in Q : j \in 1 .. n \/ j = n + 1
        BY <1>2, <2>1, Zenon
      <3> QED
        BY <3>1, <3>2, <3>3, Zenon
    <2>3. n + 1 \in Q
      BY <2>1
    <2>4. \A i \in Q : (\A j \in Q : j <= i) <=> i = n + 1
      BY <1>1, <2>2, <2>3
    <2>5. LatestCall(t, h, tim) = {t[n + 1].val}
      <3>1. LatestCall(t, h, tim) = {t[i].val : i \in {i \in Q : \A j \in Q : j <= i}}
        BY DEF LatestCall, Q
      <3>2. {i \in Q : \A j \in Q : j <= i} = {n + 1}
        BY <2>3, <2>4
      <3> QED
        BY <3>1, <3>2
    <2> QED
      BY <1>1, <1>3, <2>5 DEF t
  <1>4. CASE ~(e.handle = h /\ e.time <= tim)
    <2>1. Q = P
      <3>1. \A i : i \in P <=> i \in 1 .. n /\ calls[i].handle = h /\ calls[i].time <= tim
        BY <1>1 DEF CallsBy
      <3>2. \A i : i \in Q <=> i \in 1 .. n + 1 /\ t[i].handle = h /\ t[i].time <= tim
        BY <1>1 DEF CallsBy
      <3> HIDE DEF P, Q
      <3>3. \A i : i \in 1 .. n + 1 <=> i \in 1 .. n \/ i = n + 1
        BY <1>1
      <3>4. \A i : i \in Q <=> i \in P
        BY <1>1, <1>4, <3>1, <3>2, <3>3
      <3> QED
        BY <3>4
    <2> HIDE DEF P, Q
    <2>2. \A i \in P : t[i] = calls[i]
      BY <1>1, <1>2
    <2>3. LatestCall(t, h, tim) = {t[i].val : i \in {i \in P : \A j \in P : j <= i}}
          /\ LatestCall(calls, h, tim) = {calls[i].val : i \in {i \in P : \A j \in P : j <= i}}
      BY <2>1 DEF LatestCall, P, Q
    <2>4. LatestCall(t, h, tim) = LatestCall(calls, h, tim)
      BY <2>2, <2>3
    <2> QED
      BY <1>4, <2>4 DEF t
  <1> QED
    BY <1>3, <1>4

(* The latest callback is the one IterationReplays looks at.                *)
LEMMA LatestCallIs ==
  ASSUME NEW calls \in Seq(Call), NEW h, NEW tim
  PROVE  LatestCall(calls, h, tim) =
            IF CallsBy(calls, h, tim) = {} THEN {} ELSE {calls[Max(CallsBy(calls, h, tim))].val}
  <1> DEFINE P == CallsBy(calls, h, tim)
             n == Len(calls)
  <1>1. n \in Nat /\ P \in SUBSET (1 .. n)
    BY DEF CallsBy
  <1>2. LatestCall(calls, h, tim) = {calls[i].val : i \in {i \in P : \A j \in P : j <= i}}
    BY DEF LatestCall
  <1> HIDE DEF P, n
  <1>3. CASE P = {}
    BY <1>2, <1>3 DEF P
  <1>4. CASE P # {}
    <2>1. Max(P) \in P /\ \A y \in P : Max(P) >= y
      BY <1>1, <1>4, MaxIsIn
    <2> DEFINE m == Max(P)
    <2>2. m \in P /\ \A y \in P : m >= y
      BY <2>1
    <2> HIDE DEF m
    <2>3. \A y \in P : y \in Int
      BY <1>1
    <2>4. \A i \in P : (\A j \in P : j <= i) <=> i = m
      BY <2>2, <2>3
    <2>5. {i \in P : \A j \in P : j <= i} = {m}
      BY <2>2, <2>4
    <2>6. LatestCall(calls, h, tim) = {calls[m].val}
      BY <1>2, <2>5
    <2> QED
      BY <1>4, <2>6 DEF P, m
  <1> QED
    BY <1>3, <1>4

(* Callbacks of changes come after those of the frame.                      *)
LEMMA LatestOfCalls ==
  ASSUME NEW frames \in Seq(Call), NEW rest \in Seq(Call), \A i \in 1 .. Len(rest) : ~rest[i].frame,
         NEW h, NEW tim
  PROVE  LatestCall(frames \o rest, h, tim) =
            IF LatestIn(CallsIn(rest, h), tim) = {} THEN LatestCall(frames, h, tim)
            ELSE LatestIn(CallsIn(rest, h), tim)
  <1> DEFINE n == Len(rest)
             T(i) == SubSeq(rest, 1, i)
             L(i) == LatestIn(CallsIn(T(i), h), tim)
             S == {i \in 0 .. n : LatestCall(frames \o T(i), h, tim) =
                                    IF L(i) = {} THEN LatestCall(frames, h, tim) ELSE L(i)}
  <1>1. n \in Nat
    OBVIOUS
  <1>2. 0 \in S
    <2>1. T(0) = <<>> /\ frames \o <<>> = frames
      BY PrefixNone, ConcatEmptySeq
    <2>2. L(0) = {}
      BY <2>1, CallsNone, LatestNone
    <2> HIDE DEF T, L
    <2>3. LatestCall(frames \o T(0), h, tim) = LatestCall(frames, h, tim)
      BY <2>1
    <2> QED
      BY <1>1, <2>2, <2>3
  <1>3. ASSUME NEW i \in 1 .. n, i - 1 \in S PROVE i \in S
    <2> DEFINE u == T(i - 1)
               e == rest[i]
    <2>1. T(i) = Append(u, e) /\ e \in Call /\ u \in Seq(Call) /\ i \in 0 .. n /\ ~e.frame
      BY PrefixMore
    <2>2. LatestCall(frames \o u, h, tim) = IF L(i - 1) = {} THEN LatestCall(frames, h, tim) ELSE L(i - 1)
      BY <1>3
    <2>3. L(i - 1) = LatestIn(CallsIn(u, h), tim) /\ L(i) = LatestIn(CallsIn(T(i), h), tim)
      OBVIOUS
    <2> HIDE DEF u, e, T, L
    <2>4. frames \o Append(u, e) = Append(frames \o u, e) /\ frames \o u \in Seq(Call)
      BY <2>1, AppendLast
    <2> DEFINE v == frames \o u
    <2>5. LatestCall(Append(v, e), h, tim) =
             IF e.handle = h /\ e.time <= tim THEN {e.val} ELSE LatestCall(v, h, tim)
      <3>1. v \in Seq(Call) /\ e \in Call
        BY <2>1, <2>4
      <3> HIDE DEF v
      <3> QED
        BY <3>1, LatestCallMore
    <2>6. /\ CallsIn(u, h) \in Seq(Sample)
          /\ CallsIn(Append(u, e), h) = IF e.handle = h THEN Append(CallsIn(u, h), SampleOf(e)) ELSE CallsIn(u, h)
      BY <2>1, CallsMore
    <2>7. SampleOf(e) \in Sample /\ SampleOf(e).time = e.time /\ SampleOf(e).val = e.val
      BY <2>1 DEF SampleOf, Sample, Call
    <2>8. LatestIn(Append(CallsIn(u, h), SampleOf(e)), tim) =
             IF e.time <= tim THEN {e.val} ELSE LatestIn(CallsIn(u, h), tim)
      BY <2>6, <2>7, LatestMore
    <2>9. L(i) = IF e.handle = h /\ e.time <= tim THEN {e.val} ELSE L(i - 1)
      BY <2>1, <2>3, <2>6, <2>8
    <2> HIDE DEF v
    <2>10. LatestCall(frames \o T(i), h, tim) = IF L(i) = {} THEN LatestCall(frames, h, tim) ELSE L(i)
      BY <2>1, <2>2, <2>4, <2>5, <2>9 DEF v
    <2> QED
      BY <2>1, <2>10
  <1> HIDE DEF S
  <1>4. n \in S
    <2> HIDE DEF n, T, L
    <2>1. 0 .. n \subseteq S
      BY <1>1, <1>2, <1>3, BoundedInduction
    <2> QED
      BY <1>1, <2>1
  <1>5. T(n) = rest
    BY SubSeqFull
  <1>6. L(n) = LatestIn(CallsIn(rest, h), tim)
    BY <1>5
  <1> HIDE DEF T, L
  <1> QED
    BY <1>4, <1>5, <1>6 DEF S

(* The last change of a section until a time has the value at that time.    *)
LEMMA ValueLatest ==
  ASSUME WellFormed(file), NEW k \in DOMAIN file.blocks, NEW h \in Handle, NEW tim \in Nat
  PROVE  IF Due(k, h, tim) = {}
         THEN LatestIn(Changes(k, h), tim) = {} /\ ValueIn(k, h, tim) = FrameValue(Block(k), h)
         ELSE LatestIn(Changes(k, h), tim) = {ValueIn(k, h, tim)} /\ ValueIn(k, h, tim) \in Value
  <1> DEFINE c == Changes(k, h)
             n == Len(Records(k, h))
             D == Due(k, h, tim)
             V == ValueIn(k, h, tim)
             L == LatestAt(c, tim)
  <1>1. /\ Len(c) = n /\ n \in Nat
        /\ \A j \in 1 .. n : c[j].time = TimeOf(k, h, j) /\ c[j].val = Records(k, h)[j].val
    <2>1. Records(k, h) \in Seq(Change) /\ Len(c) = n
      BY ChangesFacts, RecordFacts
    <2>2. \A j \in 1 .. n : c[j] = [time |-> TimeOf(k, h, j), val |-> Records(k, h)[j].val]
      BY ChangesFacts
    <2> HIDE DEF c
    <2>3. n \in Nat
      BY <2>1
    <2>4. ASSUME NEW j \in 1 .. n PROVE c[j].time = TimeOf(k, h, j) /\ c[j].val = Records(k, h)[j].val
      <3> DEFINE t == TimeOf(k, h, j)
                 v == Records(k, h)[j].val
      <3>1. c[j] = [time |-> t, val |-> v]
        BY <2>2
      <3> HIDE DEF t, v
      <3>2. c[j].time = t /\ c[j].val = v
        BY <3>1
      <3> QED
        BY <3>2 DEF t, v
    <2> QED
      BY <2>1, <2>3, <2>4
  <1>2. \A j \in 1 .. n : Records(k, h)[j].val \in Value
    <2>1. Records(k, h) \in Seq(Change)
      BY RecordFacts
    <2>2. \A j \in 1 .. n : Records(k, h)[j] \in Change
      BY <2>1
    <2> QED
      BY <2>2 DEF Change
  <1>3. D \in SUBSET (1 .. n) /\ \A j \in 1 .. n : j \in D <=> TimeOf(k, h, j) <= tim
    BY DEF Due
  <1>4. \A j \in D : j + 1 \notin D => V = Records(k, h)[j].val
    BY ValueOfRecord
  <1>5. D = {} => V = FrameValue(Block(k), h)
    BY ValueOfFrame
  <1>6. LatestIn(c, tim) = {c[j].val : j \in L}
    BY DEF LatestIn
  <1>7. L = {j \in 1 .. n : c[j].time <= tim /\ \A i \in j + 1 .. n : ~(c[i].time <= tim)}
    BY <1>1 DEF LatestAt
  <1> HIDE DEF c, n, D, V, L
  <1>8. \A j \in L : j \in D /\ j + 1 \notin D
    <2> TAKE j \in L
    <2>1. j \in 1 .. n /\ c[j].time <= tim /\ \A i \in j + 1 .. n : ~(c[i].time <= tim)
      BY <1>7
    <2>2. j + 1 \in D => j + 1 \in 1 .. n /\ j + 1 \in j + 1 .. n
      BY <1>1, <1>3, <2>1
    <2> QED
      BY <1>1, <1>3, <2>1, <2>2
  <1>9. CASE D = {}
    BY <1>5, <1>6, <1>8, <1>9 DEF D, V, c
  <1>10. CASE D # {}
    <2> DEFINE m == Max(D)
    <2>1. m \in D /\ \A y \in D : m >= y
      BY <1>1, <1>3, <1>10, MaxIsIn
    <2> HIDE DEF m
    <2>2. m \in L
      <3>1. \A i \in m + 1 .. n : i \in 1 .. n /\ i \notin D
        BY <1>1, <1>3, <2>1
      <3> QED
        BY <1>1, <1>3, <1>7, <2>1, <3>1
    <2>3. \A j \in L : c[j].val = V /\ V \in Value
      BY <1>1, <1>2, <1>3, <1>4, <1>8
    <2>4. LatestIn(c, tim) = {V} /\ V \in Value
      BY <1>6, <2>2, <2>3
    <2> QED
      BY <1>10, <2>4 DEF D, V, c
  <1> QED
    BY <1>9, <1>10

(* From a section to the next one.                                          *)
LEMMA Onwards ==
  ASSUME WellFormed(file), NEW k \in 1 .. Len(file.blocks) - 1, NEW h \in Handle \ file.varlen
  PROVE  /\ k \in DOMAIN file.blocks /\ k + 1 \in DOMAIN file.blocks
         /\ Block(k + 1).begin = Block(k).end
         /\ EndValue(Block(k), h) \in {NoValue, FrameValue(Block(k + 1), h)}
         /\ FrameValue(Block(k), h) # NoValue => FrameValue(Block(k + 1), h) # NoValue
         /\ \A tim \in Nat : Block(k + 1).begin <= tim => ValueIn(k, h, tim) = EndValue(Block(k), h)
  <1>1. Len(file.blocks) \in Nat /\ DOMAIN file.blocks = 1 .. Len(file.blocks) /\ h \in Handle
    BY DEF WellFormed
  <1>2. k \in DOMAIN file.blocks /\ k + 1 \in DOMAIN file.blocks /\ (k + 1) - 1 = k /\ k + 1 > 1
    BY <1>1
  <1>3. /\ Block(k + 1).begin = Block(k).end
        /\ EndValue(Block(k), h) \in {NoValue, FrameValue(Block(k + 1), h)}
    <2> DEFINE j == k + 1
    <2>1. j \in DOMAIN file.blocks /\ j > 1 /\ j - 1 = k
      BY <1>2
    <2> HIDE DEF j
    <2>2. /\ file.blocks[j].begin = file.blocks[j - 1].end
          /\ EndValue(file.blocks[j - 1], h) \in {NoValue, FrameValue(file.blocks[j], h)}
      BY <2>1 DEF WellFormed
    <2> QED
      BY <2>1, <2>2 DEF j, Block
  <1>4. NoValue \notin Value
    BY FilesAssumption
  <1>5. /\ Records(k, h) \in Seq(Change) /\ Block(k).chain[h] = Records(k, h)
        /\ \A j \in 1 .. Len(Records(k, h)) : TimeOf(k, h, j) \in Nat /\ TimeOf(k, h, j) <= Block(k).end
    BY <1>1, <1>2, RecordFacts, TimesFacts DEF Records
  <1>6. EndValue(Block(k), h) = IF Records(k, h) = <<>> THEN FrameValue(Block(k), h)
                                ELSE Records(k, h)[Len(Records(k, h))].val
    BY <1>5 DEF EndValue, Last
  <1>7. Records(k, h) # <<>> => Len(Records(k, h)) \in 1 .. Len(Records(k, h))
                                 /\ Records(k, h)[Len(Records(k, h))].val \in Value
    <2>1. ASSUME Records(k, h) # <<>>
          PROVE  Len(Records(k, h)) \in 1 .. Len(Records(k, h)) /\ Records(k, h)[Len(Records(k, h))] \in Change
      BY <1>5, <2>1
    <2> QED
      BY <2>1 DEF Change
  <1>8. FrameValue(Block(k), h) # NoValue => FrameValue(Block(k + 1), h) # NoValue
    <2> HIDE DEF FrameValue
    <2> QED
      BY <1>3, <1>4, <1>6, <1>7
  <1>9. ASSUME NEW tim \in Nat, Block(k + 1).begin <= tim
        PROVE  ValueIn(k, h, tim) = EndValue(Block(k), h)
    <2>0. Block(k).end \in Nat
      BY <1>2, BlockType
    <2>1. \A j \in 1 .. Len(Records(k, h)) : TimeOf(k, h, j) <= tim
      BY <1>3, <1>5, <1>9, <2>0
    <2>2. CASE Records(k, h) = <<>>
      <3>1. Due(k, h, tim) = {}
        BY <2>2 DEF Due
      <3> QED
        BY <1>1, <1>2, <1>6, <2>2, <3>1, ValueOfFrame
    <2>3. CASE Records(k, h) # <<>>
      <3> DEFINE n == Len(Records(k, h))
      <3>1. n \in Nat /\ n \in 1 .. n /\ n + 1 \notin 1 .. n
        BY <1>5, <1>7, <2>3
      <3>2. n \in Due(k, h, tim) /\ n + 1 \notin Due(k, h, tim)
        BY <2>1, <3>1 DEF Due
      <3> QED
        BY <1>1, <1>2, <1>6, <2>3, <3>2, ValueOfRecord
    <2> QED
      BY <2>2, <2>3
  <1> QED
    BY <1>2, <1>3, <1>8, <1>9

(* A handle that a frame has is in every later one.                         *)
LEMMA KnownStays ==
  ASSUME WellFormed(file), NEW h \in Handle \ file.varlen,
         NEW i \in DOMAIN file.blocks, NEW j \in DOMAIN file.blocks, i <= j,
         FrameValue(Block(i), h) # NoValue
  PROVE  FrameValue(Block(j), h) # NoValue
  <1> DEFINE n == Len(file.blocks)
             S == {d \in 0 .. j - i : FrameValue(Block(i + d), h) # NoValue}
  <1>1. n \in Nat /\ DOMAIN file.blocks = 1 .. n
    BY DEF WellFormed
  <1>2. j - i \in Nat
    BY <1>1
  <1>3. 0 \in S
    BY <1>1, <1>2
  <1>4. ASSUME NEW d \in 1 .. j - i, d - 1 \in S PROVE d \in S
    <2> DEFINE k == i + (d - 1)
    <2>1. k \in 1 .. n - 1 /\ k + 1 = i + d /\ d \in 0 .. j - i
      BY <1>1, <1>2
    <2>2. FrameValue(Block(k), h) # NoValue
      BY <1>4
    <2> HIDE DEF k
    <2>3. FrameValue(Block(k + 1), h) # NoValue
      BY <2>1, <2>2, Onwards
    <2> QED
      BY <2>1, <2>3
  <1> HIDE DEF S
  <1>5. 0 .. j - i \subseteq S
    BY <1>2, <1>3, <1>4, BoundedInduction
  <1>6. j - i \in S /\ i + (j - i) = j
    BY <1>1, <1>2, <1>5
  <1> QED
    BY <1>6 DEF S

(* The first section an iteration reads, the last one with a time.          *)
FirstRead(s) ==
  s \in DOMAIN file.blocks /\ InRange(Block(s)) /\ \A j \in 1 .. s - 1 : ~InRange(Block(j))
LastCovering(k, tim) == k \in Covering(tim) /\ k + 1 \notin Covering(tim)
WithinRange(tim) == Limited => tim \in limit.start .. limit.end

(* Sections end one after the other.                                        *)
LEMMA EndsGrow ==
  ASSUME WellFormed(file), NEW i \in 1 .. Len(file.blocks), NEW j \in i .. Len(file.blocks)
  PROVE  Block(i).end <= Block(j).end
  <1> DEFINE n == Len(file.blocks)
  <1>1. n \in Nat /\ DOMAIN file.blocks = 1 .. n /\ i \in 1 .. n /\ j \in 1 .. n /\ i <= j
    BY DEF WellFormed
  <1>2. /\ Block(i).end \in Nat /\ Block(j).end \in Nat /\ Block(j).begin \in Nat
        /\ Block(j).begin <= Block(j).end
    BY <1>1, BlockType
  <1>3. CASE i # j
    <2> DEFINE k == i + 1
    <2>1. k \in DOMAIN file.blocks /\ k > 1 /\ k - 1 = i /\ k \in 1 .. n /\ j \in k .. n
      BY <1>1, <1>3
    <2> HIDE DEF k
    <2>2. Block(k).begin = Block(i).end
      BY <2>1 DEF WellFormed, Block
    <2>3. Block(k).begin <= Block(j).begin
      BY <2>1, BeginsGrow
    <2> QED
      BY <1>2, <2>2, <2>3
  <1> QED
    BY <1>1, <1>2, <1>3

(* The sections from the first one read to the last one with a time of the  *)
(* range are all read, and those behind it begin later.                     *)
LEMMA Covered ==
  ASSUME WellFormed(file), limit \in Limits \cup {Unlimited}, NEW s, FirstRead(s),
         NEW tim \in Nat, WithinRange(tim), NEW k, LastCovering(k, tim)
  PROVE  /\ s \in 1 .. Len(file.blocks) /\ k \in 1 .. Len(file.blocks) /\ s <= k
         /\ \A j \in s .. k : InRange(Block(j)) /\ Block(j).begin <= tim
         /\ \A j \in k + 1 .. Len(file.blocks) : Block(j).begin > tim
  <1> DEFINE n == Len(file.blocks)
  <1>1. n \in Nat /\ DOMAIN file.blocks = 1 .. n
    BY DEF WellFormed
  <1>2. \A j \in 1 .. n : Block(j).begin \in Nat /\ Block(j).end \in Nat /\ Block(j).begin <= Block(j).end
    BY <1>1, BlockType
  <1>3. s \in 1 .. n /\ InRange(Block(s)) /\ \A j \in 1 .. s - 1 : ~InRange(Block(j))
    BY <1>1 DEF FirstRead
  <1>4. k \in 1 .. n /\ Block(k).begin <= tim /\ tim <= Block(k).end
    BY <1>1 DEF LastCovering, Covering, Covers
  <1>5. Limited => limit.start \in Nat /\ limit.end \in Nat /\ limit.start <= tim /\ tim <= limit.end
    BY LimitEnd DEF WithinRange
  <1>6. InRange(Block(k))
    BY <1>2, <1>4, <1>5 DEF InRange
  <1>7. s <= k
    BY <1>1, <1>3, <1>4, <1>6
  <1>8. ASSUME NEW j \in s .. k PROVE InRange(Block(j)) /\ Block(j).begin <= tim
    <2>1. j \in 1 .. n /\ j \in s .. n /\ k \in j .. n
      BY <1>1, <1>3, <1>4
    <2>2. Block(s).end <= Block(j).end /\ Block(j).begin <= Block(k).begin
      BY <1>3, <2>1, EndsGrow, BeginsGrow
    <2>3. Limited => Block(s).end >= limit.start
      BY <1>3 DEF InRange
    <2> QED
      BY <1>2, <1>3, <1>4, <1>5, <2>1, <2>2, <2>3 DEF InRange
  <1>9. ASSUME NEW j \in k + 1 .. n PROVE Block(j).begin > tim
    <2> DEFINE q == k + 1
    <2>1. q \in DOMAIN file.blocks /\ q > 1 /\ q - 1 = k /\ q \in 1 .. n /\ j \in q .. n /\ j \in 1 .. n
      BY <1>1, <1>4
    <2>2. q \notin Covering(tim)
      BY DEF LastCovering
    <2> HIDE DEF q
    <2>3. Block(q).begin = Block(k).end
      BY <2>1 DEF WellFormed, Block
    <2>4. ~(Block(q).begin <= tim /\ tim <= Block(q).end)
      BY <2>1, <2>2 DEF Covering, Covers
    <2>5. Block(q).begin > tim
      BY <1>2, <1>4, <2>1, <2>3, <2>4
    <2>6. Block(q).begin <= Block(j).begin
      BY <2>1, BeginsGrow
    <2> QED
      BY <1>2, <2>1, <2>5, <2>6
  <1> QED
    BY <1>3, <1>4, <1>7, <1>8, <1>9

(* What one more section adds to what is known at a time of the range.      *)
LEMMA LatestRead ==
  ASSUME WellFormed(file), limit \in Limits \cup {Unlimited}, NEW j \in 1 .. Len(file.blocks),
         NEW h \in Handle, NEW m, NEW tim \in Nat, WithinRange(tim)
  PROVE  LatestIn(ReadUpTo(m, j, h), tim) =
           IF ~InRange(Block(j)) \/ LatestIn(Changes(j, h), tim) = {}
           THEN LatestIn(ReadUpTo(m, j - 1, h), tim) ELSE LatestIn(Changes(j, h), tim)
  <1> DEFINE c == Changes(j, h)
             r == ReadUpTo(m, j - 1, h)
             p == IF InRange(Block(j)) THEN Kept(m, c) ELSE <<>>
  <1>1. j \in DOMAIN file.blocks
    BY DEF WellFormed
  <1>2. c \in Seq(Sample) /\ Kept(m, c) \in Seq(Sample)
    BY <1>1, ChangesFacts, KeptType
  <1>3. ReadUpTo(m, j, h) = r \o p /\ r \in Seq(Sample)
    BY ReadMore
  <1>4. p \in Seq(Sample)
    BY <1>2
  <1>5. Limited => limit.end \in Nat /\ tim <= limit.end
    BY LimitEnd DEF WithinRange
  <1> HIDE DEF c, r
  <1>6. LatestIn(Kept(m, c), tim) = LatestIn(c, tim)
    BY <1>2, <1>5, LatestUntil DEF Kept
  <1>7. LatestIn(<<>>, tim) = {}
    BY LatestNone
  <1>8. LatestIn(p, tim) = IF InRange(Block(j)) THEN LatestIn(c, tim) ELSE {}
    BY <1>6, <1>7
  <1> HIDE DEF p
  <1>9. LatestIn(r \o p, tim) = IF LatestIn(p, tim) = {} THEN LatestIn(r, tim) ELSE LatestIn(p, tim)
    BY <1>3, <1>4, LatestConcat
  <1> QED
    BY <1>3, <1>8, <1>9 DEF c, r

(* What the changes read until section j say of h at a time: nothing, while *)
(* the first frame with h still holds, or its value by section j.           *)
Reads(m, j, h, tim) == LatestIn(ReadUpTo(m, j, h), tim)
SaysNothing(s, j, h, tim) ==
  /\ ValueIn(j, h, tim) = FrameValue(Block(j), h)
  /\ \A i \in s .. j : FrameValue(Block(i), h) # NoValue =>
        FrameValue(Block(j), h) = FrameValue(Block(i), h)
Replayed(m, s, j, h, tim) ==
  IF Reads(m, j, h, tim) = {} THEN SaysNothing(s, j, h, tim)
  ELSE Reads(m, j, h, tim) = {ValueIn(j, h, tim)} /\ ValueIn(j, h, tim) # NoValue

(* In front of the first section read nothing is known.                     *)
LEMMA NothingRead ==
  ASSUME WellFormed(file), limit \in Limits \cup {Unlimited}, NEW s, FirstRead(s),
         NEW h \in Handle, NEW m, NEW tim \in Nat, WithinRange(tim)
  PROVE  Reads(m, s - 1, h, tim) = {}
  <1> DEFINE n == Len(file.blocks)
             S == {d \in 0 .. s - 1 : Reads(m, d, h, tim) = {}}
  <1>1. n \in Nat /\ s \in 1 .. n /\ \A j \in 1 .. s - 1 : ~InRange(Block(j))
    BY DEF FirstRead, WellFormed
  <1>2. 0 \in S
    <2>1. Reads(m, 0, h, tim) = {}
      BY ReadNone, LatestNone DEF Reads
    <2> QED
      BY <1>1, <2>1
  <1>3. ASSUME NEW d \in 1 .. s - 1, d - 1 \in S PROVE d \in S
    <2>1. d \in 1 .. n /\ ~InRange(Block(d)) /\ d \in 0 .. s - 1
      BY <1>1
    <2>2. Reads(m, d, h, tim) = Reads(m, d - 1, h, tim)
      BY <2>1, LatestRead DEF Reads
    <2> QED
      BY <1>3, <2>1, <2>2
  <1> HIDE DEF S
  <1>4. 0 .. s - 1 \subseteq S /\ s - 1 \in 0 .. s - 1
    BY <1>1, <1>2, <1>3, BoundedInduction
  <1> QED
    BY <1>4 DEF S

(* One more section, whose begin the time has reached.                      *)
LEMMA ReplayFirst ==
  ASSUME WellFormed(file), limit \in Limits \cup {Unlimited}, NEW s, FirstRead(s),
         NEW h \in Handle, NEW m, NEW tim \in Nat, WithinRange(tim)
  PROVE  Replayed(m, s, s, h, tim)
  <1>1. s \in 1 .. Len(file.blocks) /\ s \in DOMAIN file.blocks /\ InRange(Block(s)) /\ s .. s = {s}
    BY DEF FirstRead, WellFormed
  <1>2. Reads(m, s - 1, h, tim) = {}
    BY NothingRead
  <1>3. Reads(m, s, h, tim) = LatestIn(Changes(s, h), tim)
    <2>1. Reads(m, s, h, tim) = IF ~InRange(Block(s)) \/ LatestIn(Changes(s, h), tim) = {}
                                THEN Reads(m, s - 1, h, tim) ELSE LatestIn(Changes(s, h), tim)
      BY <1>1, LatestRead DEF Reads
    <2> QED
      BY <1>1, <1>2, <2>1
  <1>4. NoValue \notin Value
    BY FilesAssumption
  <1>5. IF Due(s, h, tim) = {}
        THEN LatestIn(Changes(s, h), tim) = {} /\ ValueIn(s, h, tim) = FrameValue(Block(s), h)
        ELSE LatestIn(Changes(s, h), tim) = {ValueIn(s, h, tim)} /\ ValueIn(s, h, tim) \in Value
    BY <1>1, ValueLatest
  <1>6. Due(s, h, tim) = {} => SaysNothing(s, s, h, tim)
    BY <1>1, <1>5 DEF SaysNothing
  <1> QED
    BY <1>3, <1>4, <1>5, <1>6 DEF Replayed

(* One more section, whose begin the time has reached.                      *)
LEMMA ReplayMore ==
  ASSUME WellFormed(file), limit \in Limits \cup {Unlimited}, NEW s \in 1 .. Len(file.blocks),
         NEW h \in Handle \ file.varlen, NEW m, NEW tim \in Nat, WithinRange(tim),
         NEW j \in s .. Len(file.blocks) - 1, InRange(Block(j + 1)), Block(j + 1).begin <= tim,
         Replayed(m, s, j, h, tim)
  PROVE  Replayed(m, s, j + 1, h, tim)
  <1> DEFINE q == j + 1
             n == Len(file.blocks)
  <1>1. /\ n \in Nat /\ q \in 1 .. n /\ q \in DOMAIN file.blocks /\ j \in 1 .. n - 1 /\ q - 1 = j /\ h \in Handle
        /\ \A i \in s .. q : i = q \/ i \in s .. j
    BY DEF WellFormed
  <1>2. /\ EndValue(Block(j), h) \in {NoValue, FrameValue(Block(q), h)}
        /\ ValueIn(j, h, tim) = EndValue(Block(j), h)
    BY <1>1, Onwards
  <1>3. InRange(Block(q))
    OBVIOUS
  <1> HIDE DEF q, n
  <1>4. Reads(m, q, h, tim) = IF LatestIn(Changes(q, h), tim) = {} THEN Reads(m, j, h, tim)
                              ELSE LatestIn(Changes(q, h), tim)
    BY <1>1, <1>3, LatestRead DEF Reads, n
  <1>5. NoValue \notin Value
    BY FilesAssumption
  <1>6. IF Due(q, h, tim) = {}
        THEN LatestIn(Changes(q, h), tim) = {} /\ ValueIn(q, h, tim) = FrameValue(Block(q), h)
        ELSE LatestIn(Changes(q, h), tim) = {ValueIn(q, h, tim)} /\ ValueIn(q, h, tim) \in Value
    BY <1>1, ValueLatest
  <1>7. CASE Due(q, h, tim) # {}
    BY <1>4, <1>5, <1>6, <1>7 DEF Replayed, q
  <1>8. CASE Due(q, h, tim) = {} /\ Reads(m, j, h, tim) # {}
    <2>1. Reads(m, j, h, tim) = {ValueIn(j, h, tim)} /\ ValueIn(j, h, tim) # NoValue
      BY <1>8 DEF Replayed
    <2>2. Reads(m, q, h, tim) = {ValueIn(q, h, tim)} /\ ValueIn(q, h, tim) # NoValue
      BY <1>2, <1>4, <1>6, <1>8, <2>1
    <2> QED
      BY <2>2 DEF Replayed, q
  <1>9. CASE Due(q, h, tim) = {} /\ Reads(m, j, h, tim) = {}
    <2>1. /\ ValueIn(j, h, tim) = FrameValue(Block(j), h)
          /\ \A i \in s .. j : FrameValue(Block(i), h) # NoValue =>
                FrameValue(Block(j), h) = FrameValue(Block(i), h)
      BY <1>9 DEF Replayed, SaysNothing
    <2>2. FrameValue(Block(j), h) \in {NoValue, FrameValue(Block(q), h)}
      BY <1>2, <2>1
    <2>3. ASSUME NEW i \in s .. q, FrameValue(Block(i), h) # NoValue
          PROVE  FrameValue(Block(q), h) = FrameValue(Block(i), h)
      BY <1>1, <2>1, <2>2, <2>3
    <2>4. SaysNothing(s, q, h, tim)
      BY <1>6, <1>9, <2>3 DEF SaysNothing
    <2> QED
      BY <1>4, <1>6, <1>9, <2>4 DEF Replayed, q
  <1> QED
    BY <1>7, <1>8, <1>9

(* The changes read say the value by the last section that has the time.    *)
LEMMA ReplayCovering ==
  ASSUME WellFormed(file), limit \in Limits \cup {Unlimited}, NEW s, FirstRead(s),
         NEW h \in Handle \ file.varlen, NEW m, NEW tim \in Nat, WithinRange(tim),
         NEW k, LastCovering(k, tim)
  PROVE  Replayed(m, s, k, h, tim) /\ Reads(m, Len(file.blocks), h, tim) = Reads(m, k, h, tim)
  <1> DEFINE n == Len(file.blocks)
             S == {d \in 0 .. k - s : Replayed(m, s, s + d, h, tim)}
             R == {d \in 0 .. n - k : Reads(m, k + d, h, tim) = Reads(m, k, h, tim)}
  <1>1. /\ s \in 1 .. n /\ k \in 1 .. n /\ s <= k
        /\ \A j \in s .. k : InRange(Block(j)) /\ Block(j).begin <= tim
        /\ \A j \in k + 1 .. n : Block(j).begin > tim
    BY Covered
  <1>2. n \in Nat /\ k - s \in Nat /\ n - k \in Nat /\ s + 0 = s /\ k + 0 = k /\ DOMAIN file.blocks = 1 .. n
        /\ h \in Handle
    BY <1>1 DEF WellFormed
  <1>3. 0 \in S /\ 0 \in R
    <2>1. Replayed(m, s, s, h, tim)
      BY <1>2, ReplayFirst
    <2> QED
      BY <1>2, <2>1
  <1>4. ASSUME NEW d \in 1 .. k - s, d - 1 \in S PROVE d \in S
    <2> DEFINE j == s + (d - 1)
    <2>1. j \in s .. n - 1 /\ j + 1 = s + d /\ j + 1 \in s .. k /\ d \in 0 .. k - s
      BY <1>1, <1>2
    <2>2. Replayed(m, s, j, h, tim)
      BY <1>4
    <2> HIDE DEF j
    <2>3. InRange(Block(j + 1)) /\ Block(j + 1).begin <= tim
      BY <1>1, <2>1
    <2>4. Replayed(m, s, j + 1, h, tim)
      BY <1>1, <2>1, <2>2, <2>3, ReplayMore
    <2> QED
      BY <2>1, <2>4
  <1>5. ASSUME NEW d \in 1 .. n - k, d - 1 \in R PROVE d \in R
    <2> DEFINE j == k + d
    <2>1. j \in 1 .. n /\ j \in k + 1 .. n /\ j - 1 = k + (d - 1) /\ d \in 0 .. n - k
      BY <1>1, <1>2
    <2>2. Reads(m, j - 1, h, tim) = Reads(m, k, h, tim)
      BY <1>5, <2>1
    <2> HIDE DEF j
    <2>3. Block(j).begin > tim /\ Block(j).begin \in Nat /\ j \in DOMAIN file.blocks
      BY <1>1, <1>2, <2>1, BlockType
    <2>4. Due(j, h, tim) = {}
      <3>1. \A i \in 1 .. Len(Records(j, h)) : TimeOf(j, h, i) \in Nat /\ TimeOf(j, h, i) >= Block(j).begin
        <4>1. \A i \in 1 .. Len(Records(j, h)) :
                 TimeOf(j, h, i) \in Nat /\ TimeOf(j, h, i) \in Block(j).begin .. Block(j).end
          BY <1>2, <2>3, TimesFacts
        <4>2. Block(j).end \in Nat
          BY <2>3, BlockType
        <4> QED
          BY <2>3, <4>1, <4>2
      <3> QED
        BY <2>3, <3>1 DEF Due
    <2>5. LatestIn(Changes(j, h), tim) = {}
      BY <1>2, <2>3, <2>4, ValueLatest
    <2>6. Reads(m, j, h, tim) = Reads(m, j - 1, h, tim)
      BY <1>2, <2>1, <2>5, LatestRead DEF Reads
    <2>7. Reads(m, j, h, tim) = Reads(m, k, h, tim)
      BY <2>2, <2>6
    <2> QED
      BY <2>1, <2>7 DEF j
  <1> HIDE DEF S, R
  <1>6. 0 .. k - s \subseteq S /\ 0 .. n - k \subseteq R
    BY <1>2, <1>3, <1>4, <1>5, BoundedInduction
  <1>7. k - s \in S /\ s + (k - s) = k /\ n - k \in R /\ k + (n - k) = n
    BY <1>1, <1>2, <1>6
  <1> QED
    BY <1>7 DEF S, R

(* Callbacks behind those of a frame.                                       *)
LEMMA CallsAfterFrames ==
  ASSUME NEW fs \in Seq(Call), NEW calls \in Seq(Call), NEW h, \A i \in 1 .. Len(fs) : fs[i].frame
  PROVE  CallsIn(fs \o calls, h) = CallsIn(calls, h)
  <1> DEFINE t == fs \o calls
             n == Len(fs)
             P == CallPlaces(calls, h)
             Q == CallPlaces(t, h)
  <1>1. /\ t \in Seq(Call) /\ DOMAIN t = 1 .. n + Len(calls) /\ n \in Nat /\ Len(calls) \in Nat
        /\ DOMAIN calls = 1 .. Len(calls)
        /\ \A i \in 1 .. n : t[i] = fs[i]
        /\ \A i \in 1 .. Len(calls) : t[n + i] = calls[i]
    OBVIOUS
  <1> HIDE DEF t
  <1>2. \A i \in 1 .. n : i \notin Q
    BY <1>1 DEF CallPlaces
  <1>3. \A i \in 1 .. Len(calls) : i \in P <=> n + i \in Q
    BY <1>1 DEF CallPlaces
  <1>4. Splits(fs, calls, {}, P, Q)
    BY <1>2, <1>3 DEF Splits
  <1> HIDE DEF P, Q
  <1>5. Among(t, Q) = Among(fs, {}) \o Among(calls, P)
    BY <1>4, AmongConcat DEF t
  <1>6. Among(fs, {}) = <<>>
    <2>1. 0 \in 0 .. Len(fs) /\ \A i \in 1 .. Len(fs) : i \in {} <=> i <= 0
      OBVIOUS
    <2>2. Among(fs, {}) = SubSeq(fs, 1, 0)
      BY <2>1, AmongPrefix
    <2> QED
      BY <2>2, PrefixNone
  <1>7. Among(calls, P) \in Seq(Call)
    BY AmongType
  <1>8. Among(t, Q) = Among(calls, P)
    BY <1>5, <1>6, <1>7, ConcatEmptySeq
  <1> QED
    BY <1>8, Zenon DEF CallsIn, P, Q, t

(* What a frame that is called back tells of a handle.                      *)
LEMMA FrameLatest ==
  ASSUME WellFormed(file), NEW k \in DOMAIN file.blocks, process_mask \subseteq Handle,
         NEW h \in process_mask \ file.varlen, NEW tim \in Nat, Block(k).begin <= tim
  PROVE  LatestCall(FrameCalls(Block(k)), h, tim) =
           IF FrameValue(Block(k), h) = NoValue THEN {} ELSE {FrameValue(Block(k), h)}
  <1> DEFINE b == Block(k)
             S == (process_mask \ file.varlen) \cap (1 .. b.frame_maxhandle)
             hs == Ascending(S)
             calls == FrameCalls(b)
             P == CallsBy(calls, h, tim)
             v == FrameValue(b, h)
  <1>1. b \in Section /\ b.begin <= tim /\ h \in Handle /\ NoValue \notin Value
    BY BlockType, FilesAssumption
  <1>2. b.frame \in [Handle -> Value] /\ b.frame_maxhandle \in Nat
    BY <1>1 DEF Section
  <1>3. S \in SUBSET Handle /\ (h \in S <=> h <= b.frame_maxhandle)
    BY <1>1, <1>2, FilesAssumption DEF Handle
  <1>4. /\ v = IF h \in S THEN b.frame[h] ELSE NoValue
        /\ h \in S => v # NoValue
    BY <1>1, <1>2, <1>3 DEF FrameValue
  <1>5. calls = [j \in DOMAIN hs |-> [time |-> b.begin, handle |-> hs[j], val |-> b.frame[hs[j]], frame |-> TRUE]]
    BY Zenon DEF FrameCalls
  <1>6. calls \in Seq(Call)
    BY FrameFacts
  <1> HIDE DEF S
  <1>7. hs \in Seq(Handle) /\ {hs[i] : i \in 1 .. Len(hs)} = S
    BY <1>3, AscendingLists DEF Lists
  <1> HIDE DEF hs, b, v, calls
  <1>8. /\ DOMAIN calls = 1 .. Len(hs) /\ Len(hs) \in Nat
        /\ \A j \in 1 .. Len(hs) : calls[j].handle = hs[j] /\ calls[j].time = b.begin /\ calls[j].val = b.frame[hs[j]]
    BY <1>5, <1>7
  <1>9. P = {j \in 1 .. Len(hs) : hs[j] = h}
    BY <1>1, <1>8 DEF CallsBy
  <1>10. LatestCall(calls, h, tim) = IF P = {} THEN {} ELSE {calls[Max(P)].val}
    BY <1>6, LatestCallIs
  <1> HIDE DEF P
  <1>11. CASE h \in S
    <2> DEFINE m == Max(P)
    <2>1. P # {} /\ P \in SUBSET (1 .. Len(hs))
      BY <1>7, <1>9, <1>11
    <2>2. m \in P
      BY <1>8, <2>1, MaxIsIn
    <2> HIDE DEF m
    <2>3. calls[m].val = v
      BY <1>4, <1>8, <1>9, <1>11, <2>2
    <2>4. LatestCall(calls, h, tim) = {v}
      BY <1>10, <2>1, <2>3 DEF m
    <2> QED
      BY <1>4, <1>11, <2>4 DEF b, v, calls
  <1>12. CASE h \notin S
    <2>1. P = {}
      BY <1>7, <1>9, <1>12
    <2>2. LatestCall(calls, h, tim) = {} /\ v = NoValue
      BY <1>4, <1>10, <1>12, <2>1
    <2> QED
      BY <2>2 DEF b, v, calls
  <1> QED
    BY <1>11, <1>12

(* The first frame with a handle.                                           *)
LEMMA FirstFrame ==
  ASSUME WellFormed(file), NEW k \in DOMAIN file.blocks, NEW h, FrameValue(Block(k), h) # NoValue
  PROVE  \E q \in 1 .. k : FrameValue(Block(q), h) # NoValue
                             /\ \A m \in 1 .. q - 1 : FrameValue(Block(m), h) = NoValue
  <1> DEFINE S == {q \in 1 .. k : FrameValue(Block(q), h) # NoValue}
  <1>1. k \in Nat /\ k \in 1 .. k
    BY DEF WellFormed
  <1>2. S \in SUBSET Nat /\ S # {}
    BY <1>1
  <1>3. PICK q \in S : \A y \in S : q <= y
    BY <1>2, LeastElement
  <1>4. \A m \in 1 .. q - 1 : FrameValue(Block(m), h) = NoValue
    BY <1>1, <1>3
  <1> QED
    BY <1>3, <1>4

(* What was called back: the frame of the first section read, when it is    *)
(* shown, and then changes only.                                            *)
FrameShown(s) == IF Block(s).begin # Table(s)[1] \/ s > 1 THEN FrameCalls(Block(s)) ELSE <<>>
ChangesOnly(calls) == \A i \in 1 .. Len(calls) : ~calls[i].frame
ShownFrom(s) ==
  FirstRead(s) /\ \E rest \in Seq(Call) : called = FrameShown(s) \o rest /\ ChangesOnly(rest)

(* The callbacks of the frame shown.                                        *)
LEMMA ShownFrameFacts ==
  ASSUME WellFormed(file), process_mask \subseteq Handle, NEW s \in DOMAIN file.blocks
  PROVE  FrameShown(s) \in Seq(Call) /\ \A i \in 1 .. Len(FrameShown(s)) : FrameShown(s)[i].frame
  <1>1. /\ FrameCalls(Block(s)) \in Seq(Call)
        /\ \A i \in 1 .. Len(FrameCalls(Block(s))) : FrameCalls(Block(s))[i].frame
    BY FrameFacts
  <1>2. <<>> \in Seq(Call) /\ Len(<<>>) = 0
    BY EmptyCalls
  <1> HIDE DEF FrameCalls
  <1> QED
    BY <1>1, <1>2 DEF FrameShown

(* What the callbacks until a time say of a handle at that time.            *)
LEMMA CallsSay ==
  ASSUME LoopType, NEW s, ShownFrom(s), NEW h \in process_mask \ file.varlen,
         CallsOf(h) = ReadUpTo(mode, Len(file.blocks), h), NEW tim \in Nat, Block(s).begin <= tim
  PROVE  LatestCall(called, h, tim) =
           IF Reads(mode, Len(file.blocks), h, tim) # {} THEN Reads(mode, Len(file.blocks), h, tim)
           ELSE IF (Block(s).begin # Table(s)[1] \/ s > 1) /\ FrameValue(Block(s), h) # NoValue
                THEN {FrameValue(Block(s), h)} ELSE {}
  <1> DEFINE f == FrameShown(s)
             n == Len(file.blocks)
  <1>1. WellFormed(file) /\ process_mask \subseteq Handle
    BY LoopTypeFacts
  <1>2. s \in DOMAIN file.blocks
    BY DEF ShownFrom, FirstRead
  <1>3. PICK rest \in Seq(Call) : called = f \o rest /\ ChangesOnly(rest)
    BY DEF ShownFrom
  <1>4. f \in Seq(Call) /\ \A i \in 1 .. Len(f) : f[i].frame
    BY <1>1, <1>2, ShownFrameFacts
  <1>5. LatestCall(f, h, tim) =
           IF (Block(s).begin # Table(s)[1] \/ s > 1) /\ FrameValue(Block(s), h) # NoValue
           THEN {FrameValue(Block(s), h)} ELSE {}
    <2>1. LatestCall(FrameCalls(Block(s)), h, tim) =
            IF FrameValue(Block(s), h) = NoValue THEN {} ELSE {FrameValue(Block(s), h)}
      BY <1>1, <1>2, FrameLatest
    <2>2. LatestCall(<<>>, h, tim) = {}
      <3>1. CallsBy(<<>>, h, tim) = {}
        BY EmptyCalls DEF CallsBy
      <3> QED
        BY <3>1 DEF LatestCall
    <2> HIDE DEF FrameCalls, FrameValue, LatestCall
    <2> QED
      BY <2>1, <2>2 DEF FrameShown
  <1> HIDE DEF f
  <1>6. \A i \in 1 .. Len(rest) : ~rest[i].frame
    BY <1>3 DEF ChangesOnly
  <1>7. CallsIn(f \o rest, h) = CallsIn(rest, h)
    BY <1>4, CallsAfterFrames
  <1>8. CallsIn(rest, h) = ReadUpTo(mode, n, h)
    BY <1>3, <1>7, CallsOfCalled
  <1>9. LatestCall(f \o rest, h, tim) =
            IF LatestIn(CallsIn(rest, h), tim) = {} THEN LatestCall(f, h, tim)
            ELSE LatestIn(CallsIn(rest, h), tim)
    BY <1>4, <1>6, LatestOfCalls
  <1>10. LatestIn(CallsIn(rest, h), tim) = Reads(mode, n, h, tim)
    BY <1>8 DEF Reads
  <1> QED
    BY <1>3, <1>5, <1>9, <1>10

(* The replay of a time of the range.                                       *)
Replays(h, tim, val) ==
  IF CallsBy(called, h, tim) = {} THEN val = NoValue \/ InitialKnown(h, val)
  ELSE val = called[Max(CallsBy(called, h, tim))].val

(* The callbacks give a handle the value it has at a time of the range.     *)
LEMMA ReplaysTime ==
  ASSUME LoopType, NEW s, ShownFrom(s), NEW h \in process_mask \ file.varlen,
         CallsOf(h) = ReadUpTo(mode, Len(file.blocks), h), NEW tim \in Nat, WithinRange(tim),
         NEW k, LastCovering(k, tim)
  PROVE  Replays(h, tim, ValueIn(k, h, tim))
  <1> DEFINE n == Len(file.blocks)
             V == ValueIn(k, h, tim)
             P == CallsBy(called, h, tim)
             F(j) == FrameValue(Block(j), h)
             shows == Block(s).begin # Table(s)[1] \/ s > 1
  <1>1. /\ WellFormed(file) /\ process_mask \subseteq Handle /\ DOMAIN file.blocks = 1 .. n /\ n \in Nat
        /\ limit \in Limits \cup {Unlimited} /\ called \in Seq(Call) /\ h \in Handle \ file.varlen
    BY LoopTypeFacts DEF LoopType
  <1>2. FirstRead(s)
    BY DEF ShownFrom
  <1>3. /\ s \in 1 .. n /\ k \in 1 .. n /\ s <= k
        /\ Block(s).begin <= tim
    <2>1. s \in 1 .. n /\ k \in 1 .. n /\ s <= k /\ \A j \in s .. k : Block(j).begin <= tim
      BY <1>1, <1>2, Covered
    <2>2. s \in s .. k
      BY <2>1
    <2> QED
      BY <2>1, <2>2
  <1>4. Replayed(mode, s, k, h, tim) /\ Reads(mode, n, h, tim) = Reads(mode, k, h, tim)
    BY <1>1, <1>2, ReplayCovering
  <1>5. LatestCall(called, h, tim) =
           IF Reads(mode, n, h, tim) # {} THEN Reads(mode, n, h, tim)
           ELSE IF shows /\ F(s) # NoValue THEN {F(s)} ELSE {}
    BY <1>3, CallsSay
  <1>6. LatestCall(called, h, tim) = IF P = {} THEN {} ELSE {called[Max(P)].val}
    BY <1>1, LatestCallIs
  <1> HIDE DEF P, V, F, shows
  <1>7. CASE Reads(mode, k, h, tim) # {}
    <2>1. Reads(mode, k, h, tim) = {V}
      BY <1>4, <1>7 DEF Replayed, V
    <2>2. P # {} /\ called[Max(P)].val = V
      BY <1>4, <1>5, <1>6, <2>1
    <2> QED
      BY <2>2 DEF Replays, P, V
  <1>8. CASE Reads(mode, k, h, tim) = {}
    <2>1. /\ V = F(k)
          /\ \A i \in s .. k : F(i) # NoValue => F(k) = F(i)
      BY <1>4, <1>8 DEF Replayed, SaysNothing, V, F
    <2>2. s \in s .. k
      BY <1>3
    <2>3. CASE shows /\ F(s) # NoValue
      <3>1. V = F(s)
        BY <2>1, <2>2, <2>3
      <3>2. P # {} /\ called[Max(P)].val = F(s)
        BY <1>4, <1>5, <1>6, <1>8, <2>3
      <3> QED
        BY <3>1, <3>2 DEF Replays, P, V
    <2>4. CASE ~(shows /\ F(s) # NoValue)
      <3>1. P = {}
        BY <1>4, <1>5, <1>6, <1>8, <2>4
      <3>2. ASSUME V # NoValue PROVE InitialKnown(h, V)
        <4>1. F(k) # NoValue
          BY <2>1, <3>2
        <4>2. PICK q \in 1 .. k : F(q) # NoValue /\ \A m \in 1 .. q - 1 : F(m) = NoValue
          BY <1>1, <1>3, <4>1, FirstFrame DEF F
        <4>3. q \in 1 .. n /\ q \in DOMAIN file.blocks /\ s \in DOMAIN file.blocks /\ q \in Nat /\ s \in Nat
          BY <1>1, <1>3
        <4>4. q < s => F(s) # NoValue /\ s > 1
          <5> SUFFICES ASSUME q < s PROVE F(s) # NoValue /\ s > 1
            OBVIOUS
          <5>1. q <= s
            BY <4>3
          <5>2. F(s) # NoValue
            BY <1>1, <4>2, <4>3, <5>1, KnownStays DEF F
          <5> QED
            BY <4>3, <5>2
        <4>5. ~(q < s)
          BY <2>4, <4>4 DEF shows
        <4>6. q \in s .. k /\ V = F(q)
          <5>1. q \in s .. k
            BY <1>3, <4>3, <4>5
          <5> QED
            BY <2>1, <4>2, <5>1
        <4>7. q = 1 => Block(q).begin = Table(q)[1]
          <5> SUFFICES ASSUME q = 1 PROVE Block(q).begin = Table(q)[1]
            OBVIOUS
          <5>1. s = 1
            BY <1>3, <4>5
          <5> QED
            BY <2>4, <4>2, <5>1 DEF shows
        <4> QED
          BY <4>2, <4>3, <4>6, <4>7 DEF InitialKnown, F
      <3> QED
        BY <3>1, <3>2 DEF Replays, P, V
    <2> QED
      BY <2>3, <2>4
  <1> QED
    BY <1>7, <1>8

(* Until a section is read nothing is called back.                          *)
NothingShown ==
  /\ called = <<>> /\ (blocks_skipped <=> blkpos > 1)
  /\ \A j \in 1 .. blkpos - 1 : ~InRange(Block(j))
ReplayInv ==
  phase \in {"sections", "times"} =>
    IF phase = "sections" /\ secnum = 0 THEN NothingShown ELSE \E s : ShownFrom(s)

(* Changes called back are behind the frame.                                *)
LEMMA ShownStays ==
  ASSUME NEW s, ShownFrom(s), file' = file, limit' = limit, process_mask' = process_mask,
         LoopType, NEW more \in Seq(Call), ChangesOnly(more), called' = called \o more
  PROVE  ShownFrom(s)'
  <1> DEFINE f == FrameShown(s)
  <1>1. PICK rest \in Seq(Call) : called = f \o rest /\ ChangesOnly(rest)
    BY DEF ShownFrom
  <1>2. f \in Seq(Call)
    BY LoopTypeFacts, ShownFrameFacts DEF ShownFrom, FirstRead
  <1>3. f' = f
    BY Zenon DEF FrameShown, FrameCalls, Block, Table
  <1>4. FirstRead(s)'
    <2>1. FirstRead(s)
      BY DEF ShownFrom
    <2> QED
      BY <2>1, Zenon DEF FirstRead, InRange, Limited, Block
  <1> HIDE DEF f
  <1>5. rest \o more \in Seq(Call) /\ (f \o rest) \o more = f \o (rest \o more)
    BY <1>2, ConcatProperties, ConcatAssociative
  <1> DEFINE all == rest \o more
  <1>6. /\ Len(all) = Len(rest) + Len(more) /\ Len(rest) \in Nat /\ Len(more) \in Nat
        /\ \A i \in 1 .. Len(all) : all[i] = IF i <= Len(rest) THEN rest[i] ELSE more[i - Len(rest)]
    BY ConcatProperties
  <1> HIDE DEF all
  <1>7. ChangesOnly(all)
    <2> SUFFICES ASSUME NEW i \in 1 .. Len(all) PROVE ~all[i].frame
      BY DEF ChangesOnly
    <2>1. CASE i <= Len(rest)
      <3>1. i \in 1 .. Len(rest) /\ all[i] = rest[i]
        BY <1>6, <2>1
      <3> QED
        BY <1>1, <3>1 DEF ChangesOnly
    <2>2. CASE ~(i <= Len(rest))
      <3>1. i - Len(rest) \in 1 .. Len(more) /\ all[i] = more[i - Len(rest)]
        BY <1>6, <2>2
      <3> QED
        BY <3>1 DEF ChangesOnly
    <2> QED
      BY <2>1, <2>2
  <1>8. called' = f' \o all /\ all \in Seq(Call)
    BY <1>1, <1>3, <1>5 DEF all
  <1> QED
    BY <1>4, <1>7, <1>8, Zenon DEF ShownFrom, f

(* No more callbacks.                                                       *)
LEMMA NoMore ==
  ASSUME LoopType
  PROVE  <<>> \in Seq(Call) /\ ChangesOnly(<<>>) /\ called \o <<>> = called
  <1>1. called \in Seq(Call)
    BY DEF LoopType
  <1> QED
    BY <1>1, EmptyCalls, ConcatEmptySeq DEF ChangesOnly

(* A step that calls nothing back.                                          *)
LEMMA ShownSame ==
  ASSUME NEW s, ShownFrom(s), file' = file, limit' = limit, process_mask' = process_mask,
         LoopType, called' = called
  PROVE  ShownFrom(s)'
  BY NoMore, ShownStays

(* A section in front of the range is skipped: the frame will be shown.     *)
LEMMA SkipReplays ==
  ASSUME LoopInv, ReplayInv, SkipSection
  PROVE  ReplayInv'
  <1>1. /\ phase = "sections" /\ blkpos' = blkpos + 1 /\ secnum' = secnum /\ phase' = phase
        /\ called' = called /\ file' = file /\ process_mask' = process_mask /\ limit' = limit
        /\ blkpos <= Len(file.blocks) /\ InEarlierSection /\ blocks_skipped' = TRUE
    BY DEF SkipSection, settings
  <1>2. LoopType
    BY DEF LoopInv
  <1>3. /\ WellFormed(file) /\ Len(file.blocks) \in Nat /\ blkpos \in 1 .. Len(file.blocks)
        /\ limit \in Limits \cup {Unlimited} /\ DOMAIN file.blocks = 1 .. Len(file.blocks)
    BY <1>1, <1>2, LoopTypeFacts DEF LoopType
  <1>4. CASE secnum = 0
    <2>1. called = <<>> /\ \A j \in 1 .. blkpos - 1 : ~InRange(Block(j))
      BY <1>1, <1>4 DEF ReplayInv, NothingShown
    <2>2. ~InRange(Block(blkpos))
      <3>1. Limited /\ Block(blkpos).end < limit.start
        BY <1>1 DEF InEarlierSection
      <3>2. Block(blkpos).end \in Nat /\ limit.start \in Nat
        BY <1>3, <3>1, BlockType, LimitEnd
      <3> QED
        BY <3>1, <3>2 DEF InRange
    <2>3. \A j \in 1 .. blkpos' - 1 : ~InRange(Block(j))
      <3>1. \A j \in 1 .. blkpos' - 1 : j = blkpos \/ j \in 1 .. blkpos - 1
        BY <1>1, <1>3
      <3> QED
        BY <2>1, <2>2, <3>1
    <2>4. \A j \in 1 .. blkpos' - 1 : ~InRange(Block(j))'
      BY <1>1, <2>3, Zenon DEF InRange, Limited, Block
    <2>5. blocks_skipped' <=> blkpos' > 1
      BY <1>1, <1>3
    <2> QED
      BY <1>1, <1>4, <2>1, <2>4, <2>5, Zenon DEF ReplayInv, NothingShown
  <1>5. CASE secnum # 0
    <2>1. PICK s : ShownFrom(s)
      BY <1>1, <1>5 DEF ReplayInv
    <2>2. ShownFrom(s)'
      BY <1>1, <1>2, <2>1, ShownSame
    <2> QED
      BY <1>1, <1>5, <2>2, Zenon DEF ReplayInv
  <1> QED
    BY <1>4, <1>5

(* The first section loaded shows its frame, unless its changes start with  *)
(* it.                                                                      *)
LEMMA LoadReplays ==
  ASSUME LoopInv, LoopInv', ReplayInv, LoadSection
  PROVE  ReplayInv'
  <1>1. /\ phase = "sections" /\ phase' = "times" /\ blkpos' = blkpos /\ secnum' = secnum
        /\ file' = file /\ process_mask' = process_mask /\ limit' = limit
        /\ called' = IF ShowsFrame(Block(blkpos), Table(blkpos)) THEN called \o FrameCalls(Block(blkpos))
                     ELSE called
        /\ blkpos <= Len(file.blocks)
    BY DEF LoadSection, settings
  <1>2. LoopType
    BY DEF LoopInv
  <1>3. /\ WellFormed(file) /\ Len(file.blocks) \in Nat /\ blkpos \in 1 .. Len(file.blocks)
        /\ DOMAIN file.blocks = 1 .. Len(file.blocks) /\ process_mask \subseteq Handle
    BY <1>1, <1>2, LoopTypeFacts DEF LoopType
  <1>4. CASE secnum = 0
    <2> DEFINE s == blkpos
               f == FrameShown(s)
    <2>1. called = <<>> /\ (blocks_skipped <=> blkpos > 1) /\ \A j \in 1 .. blkpos - 1 : ~InRange(Block(j))
      BY <1>1, <1>4 DEF ReplayInv, NothingShown
    <2>2. InRange(Block(blkpos))
      <3>1. InRange(Block(blkpos))'
        BY <1>1, Zenon DEF LoopInv
      <3> QED
        BY <1>1, <3>1, Zenon DEF InRange, Limited, Block
    <2>3. FirstRead(s)
      BY <1>3, <2>1, <2>2 DEF FirstRead
    <2>4. f \in Seq(Call)
      BY <1>3, ShownFrameFacts
    <2>5. called' = f
      <3>1. FrameCalls(Block(blkpos)) \in Seq(Call)
        BY <1>3, FrameFacts
      <3> HIDE DEF FrameCalls
      <3>2. <<>> \o FrameCalls(Block(blkpos)) = FrameCalls(Block(blkpos))
        BY <3>1, ConcatEmptySeq
      <3>3. ShowsFrame(Block(blkpos), Table(blkpos)) <=> Block(s).begin # Table(s)[1] \/ s > 1
        BY <1>4, <2>1 DEF ShowsFrame
      <3> QED
        BY <1>1, <2>1, <3>2, <3>3 DEF FrameShown
    <2>6. f' = FrameShown(s)
      BY <1>1, Zenon DEF FrameShown, FrameCalls, Block, Table
    <2>7. FirstRead(s)'
      BY <1>1, <2>3, Zenon DEF FirstRead, InRange, Limited, Block
    <2> HIDE DEF f, s
    <2>8. called' = f' \o <<>> /\ <<>> \in Seq(Call) /\ ChangesOnly(<<>>)
      <3>1. f \o <<>> = f
        BY <2>4, ConcatEmptySeq
      <3> QED
        BY <1>2, <2>5, <2>6, <3>1, NoMore DEF f
    <2>9. ShownFrom(s)'
      BY <2>7, <2>8, Zenon DEF ShownFrom, f
    <2> QED
      BY <1>1, <2>9, Zenon DEF ReplayInv
  <1>5. CASE secnum # 0
    <2>1. PICK s : ShownFrom(s)
      BY <1>1, <1>5 DEF ReplayInv
    <2>2. called' = called
      BY <1>1, <1>5 DEF ShowsFrame
    <2>3. ShownFrom(s)'
      BY <1>1, <1>2, <2>1, <2>2, ShownSame
    <2> QED
      BY <1>1, <2>3, Zenon DEF ReplayInv
  <1> QED
    BY <1>4, <1>5

(* A change is called back behind the frame.                                *)
LEMMA CallBackReplays ==
  ASSUME LoopInv, LoopInv', ReplayInv, CallBack
  PROVE  ReplayInv'
  <1> DEFINE h0 == Head(tc_head[ti])
             e == [time |-> Table(blkpos)[ti], handle |-> h0,
                   val |-> Block(blkpos).chain[h0][headptr[h0]].val, frame |-> FALSE]
  <1>1. /\ phase = "times" /\ phase' = phase
        /\ file' = file /\ process_mask' = process_mask /\ limit' = limit
        /\ called' = IF Reported(mode, h0) THEN Append(called, e) ELSE called
    BY DEF CallBack, settings
  <1>2. LoopType /\ called \in Seq(Call) /\ called' \in Seq(Call)
    BY Zenon DEF LoopInv, LoopType
  <1>3. PICK s : ShownFrom(s)
    BY <1>1 DEF ReplayInv
  <1>4. ~e.frame
    OBVIOUS
  <1> HIDE DEF e, h0
  <1>5. CASE Reported(mode, h0)
    <2>1. called' = Append(called, e)
      BY <1>1, <1>5
    <2>2. e \in Call
      <3>1. Len(called') = Len(called) + 1 /\ called'[Len(called) + 1] = e /\ Len(called) \in Nat
        BY <1>2, <2>1
      <3> QED
        BY <1>2, <3>1
    <2>3. <<e>> \in Seq(Call) /\ ChangesOnly(<<e>>) /\ called' = called \o <<e>>
      BY <1>2, <1>4, <2>1, <2>2 DEF ChangesOnly
    <2>4. ShownFrom(s)'
      BY <1>1, <1>2, <1>3, <2>3, ShownStays
    <2> QED
      BY <1>1, <2>4, Zenon DEF ReplayInv
  <1>6. CASE ~Reported(mode, h0)
    <2>1. ShownFrom(s)'
      BY <1>1, <1>2, <1>3, <1>6, ShownSame
    <2> QED
      BY <1>1, <2>1, Zenon DEF ReplayInv
  <1> QED
    BY <1>5, <1>6

(* A step inside a section that calls nothing back, or to the next section. *)
LEMMA TimesReplay ==
  ASSUME LoopInv, ReplayInv, NextTime \/ SectionDone
  PROVE  ReplayInv'
  <1>1. /\ phase = "times" /\ file' = file /\ process_mask' = process_mask /\ limit' = limit
        /\ called' = called
        /\ phase' = "sections" => secnum' = secnum + 1
    BY DEF NextTime, SectionDone, TimeDone, settings
  <1>2. LoopType /\ secnum \in Nat
    BY LoopTypeFacts DEF LoopInv, LoopType
  <1>3. PICK s : ShownFrom(s)
    BY <1>1 DEF ReplayInv
  <1>4. ShownFrom(s)'
    BY <1>1, <1>2, <1>3, ShownSame
  <1>5. ~(phase' = "sections" /\ secnum' = 0)
    BY <1>1, <1>2
  <1> QED
    BY <1>4, <1>5, Zenon DEF ReplayInv

(* An iteration starts with nothing called back.                            *)
LEMMA StartReplays ==
  ASSUME NEW m, IterBlocks(m)
  PROVE  ReplayInv'
  <1>1. called' = <<>> /\ blocks_skipped' = FALSE /\ blkpos' = 1 /\ secnum' = 0 /\ phase' = "sections"
    BY DEF IterBlocks
  <1>2. 1 .. blkpos' - 1 = {} /\ ~(blkpos' > 1)
    BY <1>1
  <1>3. \A j \in 1 .. blkpos' - 1 : ~InRange(Block(j))'
    BY <1>2
  <1> QED
    BY <1>1, <1>2, <1>3, Zenon DEF ReplayInv, NothingShown

(* A return.                                                                *)
LastSection(tim) == CHOOSE k \in Covering(tim) : k + 1 \notin Covering(tim)

(* The last section that has a time.                                        *)
LEMMA LastSectionCovers ==
  ASSUME WellFormed(file), NEW tim, Covering(tim) # {}
  PROVE  LastCovering(LastSection(tim), tim)
  <1> DEFINE n == Len(file.blocks)
             S == Covering(tim)
  <1>1. n \in Nat /\ S \in SUBSET (1 .. n)
    BY DEF WellFormed, Covering
  <1> HIDE DEF n, S
  <1>2. S # {}
    BY DEF S
  <1>3. PICK q \in S : \A y \in S : q >= y
    BY <1>1, <1>2, MaxIsIn
  <1>4. q + 1 \notin S
    BY <1>1, <1>3
  <1>5. \E k \in S : k + 1 \notin S
    BY <1>3, <1>4
  <1>6. LastSection(tim) \in S /\ LastSection(tim) + 1 \notin S
    BY <1>5 DEF LastSection, S
  <1> QED
    BY <1>6 DEF LastCovering, S

AllReplayed ==
  \A h \in process_mask \ file.varlen, tim \in 0 .. MaxTime :
    WithinRange(tim) /\ Covering(tim) # {} => Replays(h, tim, ValueIn(LastSection(tim), h, tim))

ReplaysAt(h, tim) ==
  WithinRange(tim) /\ Covering(tim) # {} => Replays(h, tim, ValueIn(LastSection(tim), h, tim))

(* What callbacks say of a time is the same after a return.                 *)
LEMMA ReplayStays ==
  ASSUME file' = file, limit' = limit, called' = called, NEW h, NEW tim
  PROVE  ReplaysAt(h, tim)' <=> ReplaysAt(h, tim)
  <1>1. Covering(tim)' = Covering(tim)
    BY Zenon DEF Covering, Covers, Block
  <1>2. LastSection(tim)' = LastSection(tim)
    BY <1>1, Zenon DEF LastSection
  <1> DEFINE k == LastSection(tim)
  <1>3. ValueIn(k, h, tim)' = ValueIn(k, h, tim)
    BY <1>2, Zenon DEF ValueIn, Block, Table
  <1> DEFINE val == ValueIn(k, h, tim)
  <1>4. InitialKnown(h, val)' <=> InitialKnown(h, val)
    <2> HIDE DEF val
    <2>1. val' = val
      BY <1>3 DEF val
    <2> QED
      BY <2>1, Zenon DEF InitialKnown, Block, Table
  <1>5. WithinRange(tim)' <=> WithinRange(tim)
    BY Zenon DEF WithinRange, Limited
  <1>6. CallsBy(called, h, tim)' = CallsBy(called, h, tim)
    BY Zenon DEF CallsBy
  <1> QED
    BY <1>1, <1>3, <1>4, <1>5, <1>6, Zenon DEF ReplaysAt, Replays

(* The return leaves the callbacks to the viewer.                           *)
LEMMA ReplaysNext ==
  ASSUME AllReplayed, file' = file, limit' = limit, process_mask' = process_mask, called' = called
  PROVE  IterationReplays'
  <1>1. \A h \in process_mask' \ file'.varlen, tim \in 0 .. MaxTime : ReplaysAt(h, tim)'
    <2> SUFFICES ASSUME NEW h \in process_mask' \ file'.varlen, NEW tim \in 0 .. MaxTime
                 PROVE  ReplaysAt(h, tim)'
      OBVIOUS
    <2>1. ReplaysAt(h, tim)
      BY Zenon DEF AllReplayed, ReplaysAt
    <2> QED
      BY <2>1, ReplayStays
  <1> QED
    BY <1>1, Zenon DEF IterationReplays, ReplaysAt, WithinRange, Replays, LastSection, CallsBy

(* All changes of the range, behind the frame, give all values in it.       *)
LEMMA AllShown ==
  ASSUME LoopType, NEW s, ShownFrom(s),
         \A h \in Handle : CallsOf(h) = IF Shown(mode, h) THEN ReadUpTo(mode, Len(file.blocks), h) ELSE <<>>
  PROVE  AllReplayed
  <1> SUFFICES ASSUME NEW h \in process_mask \ file.varlen, NEW tim \in 0 .. MaxTime,
                      WithinRange(tim), Covering(tim) # {}
               PROVE  Replays(h, tim, ValueIn(LastSection(tim), h, tim))
    BY DEF AllReplayed
  <1>1. WellFormed(file) /\ process_mask \subseteq Handle
    BY LoopTypeFacts
  <1>2. tim \in Nat
    BY FilesAssumption
  <1>3. LastCovering(LastSection(tim), tim)
    BY <1>1, LastSectionCovers
  <1>4. Shown(mode, h) /\ h \in Handle
    BY <1>1 DEF Shown, Reported
  <1>5. CallsOf(h) = ReadUpTo(mode, Len(file.blocks), h)
    BY <1>4
  <1> QED
    BY <1>2, <1>3, <1>5, ReplaysTime

(* When the loop ends before a section is read there are no times in the    *)
(* range.                                                                   *)
LEMMA NoneShown ==
  ASSUME LoopType, NothingShown,
         IF blkpos > Len(file.blocks) THEN TRUE ELSE InLaterSection
  PROVE  AllReplayed
  <1> DEFINE n == Len(file.blocks)
  <1>1. /\ WellFormed(file) /\ DOMAIN file.blocks = 1 .. n /\ n \in Nat
        /\ limit \in Limits \cup {Unlimited} /\ blkpos \in 1 .. n + 1
    BY LoopTypeFacts DEF LoopType
  <1> SUFFICES ASSUME NEW tim \in 0 .. MaxTime, WithinRange(tim), NEW k \in Covering(tim) PROVE FALSE
    BY DEF AllReplayed
  <1>2. tim \in Nat /\ k \in 1 .. n /\ Block(k).begin <= tim /\ tim <= Block(k).end
    BY <1>1, FilesAssumption DEF Covering, Covers
  <1>3. Limited => limit.start \in Nat /\ limit.end \in Nat /\ limit.start <= tim /\ tim <= limit.end
    BY <1>1, LimitEnd DEF WithinRange
  <1>4. \A j \in 1 .. n : Block(j).begin \in Nat /\ Block(j).end \in Nat
    BY <1>1, BlockType
  <1>5. InRange(Block(k))
    BY <1>2, <1>3, <1>4 DEF InRange
  <1>6. ~(k <= blkpos - 1)
    BY <1>1, <1>2, <1>5 DEF NothingShown
  <1>7. blkpos \in 1 .. n /\ k \in blkpos .. n
    BY <1>1, <1>2, <1>6
  <1>8. Limited /\ Block(blkpos).begin > limit.end
    BY <1>7 DEF InLaterSection
  <1>9. Block(blkpos).begin <= Block(k).begin
    BY <1>1, <1>7, BeginsGrow
  <1> QED
    BY <1>2, <1>3, <1>4, <1>7, <1>8, <1>9

(* An iteration that leaves the sections gives all values in the range.     *)
LEMMA LeaveReplays ==
  ASSUME LoopInv, ReplayInv, LeaveSections
  PROVE  IterationReplays'
  <1>1. /\ phase = "sections" /\ IterationReturns
        /\ IF blkpos > Len(file.blocks) THEN TRUE ELSE ~InEarlierSection /\ InLaterSection
    BY DEF LeaveSections
  <1>2. /\ LoopType /\ \A h \in Handle : CallsOf(h) = IF Shown(mode, h) THEN CallsSoFar(h) ELSE <<>>
    BY <1>1, Zenon DEF LoopInv
  <1>3. /\ WellFormed(file) /\ Len(file.blocks) \in Nat /\ blkpos \in 1 .. Len(file.blocks) + 1
        /\ limit \in Limits \cup {Unlimited}
    BY <1>2, LoopTypeFacts DEF LoopType
  <1>4. AllReplayed
    <2>1. CASE secnum = 0
      <3>1. NothingShown
        BY <1>1, <2>1 DEF ReplayInv
      <3> QED
        BY <1>1, <1>2, <3>1, NoneShown
    <2>2. CASE secnum # 0
      <3>1. PICK s : ShownFrom(s)
        BY <1>1, <2>2 DEF ReplayInv
      <3>2. \A h \in Handle : CallsOf(h) = IF Shown(mode, h) THEN ReadUpTo(mode, Len(file.blocks), h) ELSE <<>>
        BY SectionsCalled
      <3> QED
        BY <1>2, <3>1, <3>2, AllShown
    <2> QED
      BY <2>1, <2>2
  <1>5. file' = file /\ limit' = limit /\ process_mask' = process_mask /\ called' = called
    BY <1>1 DEF IterationReturns, settings
  <1> QED
    BY <1>4, <1>5, ReplaysNext

(* So does one that has read the last section.                              *)
LEMMA LastReplays ==
  ASSUME LoopInv, ReplayInv, LastSectionDone
  PROVE  IterationReplays'
  <1>1. TimeDone /\ ~MoreTimes /\ IterationReturns /\ secnum + 1 = Len(file.blocks) /\ phase = "times"
    BY DEF LastSectionDone, TimeDone
  <1>2. LoopType
    BY DEF LoopInv
  <1>3. blkpos = Len(file.blocks)
    BY <1>1, <1>2, LoopTypeFacts DEF LoopType
  <1>4. \A h \in Handle : CallsOf(h) = IF Shown(mode, h) THEN ReadUpTo(mode, Len(file.blocks), h) ELSE <<>>
    BY <1>1, <1>3, SectionCalled
  <1>5. PICK s : ShownFrom(s)
    BY <1>1 DEF ReplayInv
  <1>6. AllReplayed
    BY <1>2, <1>4, <1>5, AllShown
  <1>7. file' = file /\ limit' = limit /\ process_mask' = process_mask /\ called' = called
    BY <1>1 DEF IterationReturns, settings
  <1> QED
    BY <1>6, <1>7, ReplaysNext

(* The invariant with what was called back of the frame.                    *)
ViewerInv == ReaderInv /\ ReplayInv /\ IterationReplays

(* Nothing is promised of the values unless an iteration returned.          *)
LEMMA NoReplay == ASSUME result'.call # "iteration" PROVE IterationReplays'
  BY DEF IterationReplays

(* Between iterations nothing is promised of the frame.                     *)
LEMMA IdleReplays == ASSUME phase' \in {"idle", "misread"} PROVE ReplayInv'
  BY DEF ReplayInv

(* An iteration returns.                                                    *)
LEMMA ReturnReplays ==
  ASSUME IterationReturns, IterationReplays'
  PROVE  ReplayInv' /\ IterationReplays'
  <1>1. phase' = "idle"
    BY DEF IterationReturns
  <1> QED
    BY <1>1, IdleReplays

(* A step of an iteration.                                                  *)
LEMMA IterationStep ==
  ASSUME ReaderInv, ReaderInv', ReplayInv, Iteration
  PROVE  ReplayInv' /\ IterationReplays'
  <1>1. LoopInv /\ LoopInv'
    BY Zenon DEF ReaderInv
  <1>2. phase \in {"sections", "times"} => result.call # "iteration"
    <2>1. phase \notin {"idle", "misread"} => result = NoResult
      BY <1>1, Zenon DEF LoopInv, LoopType
    <2> QED
      BY <2>1 DEF NoResult
  <1>3. CASE SkipSection
    <2>1. result' = result /\ phase = "sections"
      BY <1>3 DEF SkipSection
    <2> QED
      BY <1>1, <1>2, <1>3, <2>1, SkipReplays, NoReplay
  <1>4. CASE LoadSection
    <2>1. result' = result /\ phase = "sections"
      BY <1>4 DEF LoadSection
    <2> QED
      BY <1>1, <1>2, <1>4, <2>1, LoadReplays, NoReplay
  <1>5. CASE LeaveSections
    <2>1. IterationReturns
      BY <1>5 DEF LeaveSections
    <2> QED
      BY <1>1, <1>5, <2>1, LeaveReplays, ReturnReplays
  <1>6. CASE CallBack
    <2>1. result' = result /\ phase = "times"
      BY <1>6 DEF CallBack
    <2> QED
      BY <1>1, <1>2, <1>6, <2>1, CallBackReplays, NoReplay
  <1>7. CASE NextTime \/ SectionDone
    <2>1. result' = result /\ phase = "times"
      BY <1>7 DEF NextTime, SectionDone, TimeDone
    <2> QED
      BY <1>1, <1>2, <1>7, <2>1, TimesReplay, NoReplay
  <1>8. CASE LastSectionDone
    <2>1. IterationReturns
      BY <1>8 DEF LastSectionDone
    <2> QED
      BY <1>1, <1>8, <2>1, LastReplays, ReturnReplays
  <1> QED
    BY <1>3, <1>4, <1>5, <1>6, <1>7, <1>8 DEF Iteration

(* No step.                                                                 *)
LEMMA StutterReplays ==
  ASSUME ReaderInv, ReplayInv, IterationReplays, UNCHANGED vars
  PROVE  ReplayInv' /\ IterationReplays'
  <1>1. /\ file' = file /\ phase' = phase /\ process_mask' = process_mask /\ limit' = limit
        /\ blkpos' = blkpos /\ secnum' = secnum /\ blocks_skipped' = blocks_skipped
        /\ called' = called /\ result' = result
    BY DEF vars, settings, locals
  <1>2. LoopType
    BY DEF ReaderInv, LoopInv
  <1>3. NothingShown' <=> NothingShown
    BY <1>1, Zenon DEF NothingShown, InRange, Limited, Block
  <1>4. \A s : ShownFrom(s) => ShownFrom(s)'
    <2> TAKE s
    <2> SUFFICES ASSUME ShownFrom(s) PROVE ShownFrom(s)'
      OBVIOUS
    <2> QED
      BY <1>1, <1>2, ShownSame
  <1>5. ReplayInv'
    BY <1>1, <1>3, <1>4, Zenon DEF ReplayInv
  <1>6. IterationReplays'
    <2>1. CASE result.call = "iteration"
      <3>1. AllReplayed
        BY <2>1, Zenon DEF IterationReplays, AllReplayed, WithinRange, Replays, LastSection, CallsBy
      <3> QED
        BY <1>1, <3>1, ReplaysNext
    <2>2. CASE result.call # "iteration"
      BY <1>1, <2>2, NoReplay
    <2> QED
      BY <2>1, <2>2
  <1> QED
    BY <1>5, <1>6

(* Every step keeps the invariant with the frame.                           *)
LEMMA ViewerStep == ViewerInv /\ [Next]_vars => ViewerInv'
  <1> SUFFICES ASSUME ViewerInv, [Next]_vars PROVE ViewerInv'
    OBVIOUS
  <1>1. ReaderInv /\ ReaderInv' /\ ReplayInv /\ IterationReplays
    BY ReaderStep, Zenon DEF ViewerInv
  <1>2. ASSUME phase' \in {"idle", "misread"}, result'.call # "iteration"
        PROVE  ReplayInv' /\ IterationReplays'
    BY <1>2, IdleReplays, NoReplay
  <1>3. ASSUME NEW mask, SetMask(mask) PROVE ReplayInv' /\ IterationReplays'
    <2>1. phase' = "idle" /\ result'.call # "iteration"
      BY <1>3 DEF SetMask, NoResult
    <2> QED
      BY <1>2, <2>1
  <1>4. ASSUME NEW range \in Limits \cup {Unlimited}, SetTimeRange(range)
        PROVE  ReplayInv' /\ IterationReplays'
    <2>1. phase' = "idle" /\ result'.call # "iteration"
      BY <1>4 DEF SetTimeRange, NoResult
    <2> QED
      BY <1>2, <2>1
  <1>5. ASSUME NEW h \in Handle, NEW tim \in 0 .. MaxTime, GetValueFromHandleAtTime(h, tim)
        PROVE  ReplayInv' /\ IterationReplays'
    BY <1>1, <1>2, <1>5, GetSettles DEF ReaderInv
  <1>6. ASSUME NEW m \in Mode, IterBlocks(m) PROVE ReplayInv' /\ IterationReplays'
    <2>1. result'.call # "iteration"
      BY <1>6 DEF IterBlocks, NoResult
    <2> QED
      BY <1>6, <2>1, StartReplays, NoReplay
  <1>7. ASSUME Iteration PROVE ReplayInv' /\ IterationReplays'
    BY <1>1, <1>7, IterationStep
  <1>8. ASSUME UNCHANGED vars PROVE ReplayInv' /\ IterationReplays'
    BY <1>1, <1>8, StutterReplays
  <1>9. ReplayInv' /\ IterationReplays'
    BY <1>3, <1>4, <1>5, <1>6, <1>7, <1>8
       DEF Next, SetFacProcessMask, ClrFacProcessMask, SetFacProcessMaskAll, ClrFacProcessMaskAll
  <1> QED
    BY <1>1, <1>9, Zenon DEF ViewerInv

(* After fstReaderIterBlocks2 has returned, the latest callback of a masked *)
(* handle has its value at every time of the range, although the frame is   *)
(* shown in front of the first section read only.                           *)
THEOREM ReaderReplays == Spec => []IterationReplays
  <1>1. Init => ViewerInv
    <2> SUFFICES ASSUME Init PROVE ViewerInv
      OBVIOUS
    <2>1. ReaderInv
      BY ReaderInit
    <2>2. phase = "idle" /\ result.call # "iteration"
      BY DEF Init, NoResult
    <2> QED
      BY <2>1, <2>2 DEF ViewerInv, ReplayInv, IterationReplays
  <1>2. ViewerInv /\ [Next]_vars => ViewerInv'
    BY ViewerStep
  <1>3. ViewerInv => IterationReplays
    BY DEF ViewerInv
  <1> QED
    BY <1>1, <1>2, <1>3, PTL DEF Spec
=============================================================================
