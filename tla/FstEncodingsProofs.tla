------------------------- MODULE FstEncodingsProofs -------------------------
(***************************************************************************)
(* Three of the encodings: the flat name of the current scope, for any     *)
(* names and any depth; the header, which the setters and close patch in   *)
(* place: for every size of its fields, nothing they write reaches another *)
(* field or the blocks behind it, and the reader returns what was set; and *)
(* the index of a section's chains, which both readers decode to what was  *)
(* encoded, for any handles and chains.                                    *)
(*                                                                         *)
(* FieldsShown is the invariant of the header: at the offset of each field *)
(* stands what the last setter put there.  A word is written and read byte *)
(* by byte, so what it arrives as is shown from the powers of 256.         *)
(***************************************************************************)
EXTENDS FstScopes, FstHeader, FstChainIndex, FstHierProofs, Induction, SequenceTheorems, TLAPS

(* What an inner name is cut to is the name of the scope around it.         *)
Nested ==
  /\ \A i, j \in 1 .. Len(flat) : i <= j => Len(flat[i]) <= Len(flat[j])
  /\ \A i \in 1 .. Len(flat) - 1 : SubSeq(flat[i + 1], 1, Len(flat[i])) = flat[i]

(* The list of lengths is that of the names given, and what is allocated    *)
(* holds all of them and a 0.                                               *)
Measured ==
  /\ Len(curr_hier) = Len(flat)
  /\ \A i \in 1 .. Len(flat) : curr_hier[i] = Len(flat[i]) /\ curr_hier[i] < alloc

ScopesInv ==
  /\ curr_flat_hier_nam \in Seq(Int) /\ alloc \in Nat
  /\ curr_hier \in Seq(Nat) /\ flat \in Seq(Seq(Int))
  /\ curr_flat_hier_nam = Top(flat, <<>>)
  /\ Measured /\ Nested

----------------------------------------------------------------------------
(* The list without its last element.                                       *)
LEMMA FrontIs ==
  ASSUME NEW S, NEW s \in Seq(S), s # <<>>
  PROVE  /\ Front(s) \in Seq(S) /\ Len(Front(s)) = Len(s) - 1
         /\ \A i \in 1 .. Len(s) - 1 : Front(s)[i] = s[i]
  <1> DEFINE n == Len(s) - 1
  <1>1. n \in Nat /\ \A i \in 1 .. n : s[i] \in S
    <2>1. Len(s) \in Nat \ {0}
      BY EmptySeq, Zenon
    <2> QED
      BY <2>1, ElementOfSeq
  <1> HIDE DEF n
  <1>2. /\ SubSeq(s, 1, n) \in Seq(S)
        /\ Len(SubSeq(s, 1, n)) = n
        /\ \A i \in 1 .. n : SubSeq(s, 1, n)[i] = s[i]
    BY <1>1, SubSeqProperties
  <1> QED
    BY <1>2, Zenon DEF Front, n

LEMMA TopIs ==
  ASSUME NEW S, NEW s \in Seq(S), NEW none
  PROVE  Top(s, none) = IF Len(s) = 0 THEN none ELSE s[Len(s)]
  BY EmptySeq, Zenon, SMT DEF Top

(* A name behind the dot behind another.                                    *)
LEMMA JoinIs ==
  ASSUME NEW outer \in Seq(Int), NEW nam \in Seq(Int), NEW dot \in Int
  PROVE  LET inner == outer \o <<dot>> \o nam IN
         /\ inner \in Seq(Int) /\ Len(inner) = Len(outer) + 1 + Len(nam)
         /\ SubSeq(inner, 1, Len(outer)) = outer
  <1> DEFINE with == outer \o <<dot>>
             inner == with \o nam
  <1>1. <<dot>> \in Seq(Int) /\ Len(<<dot>>) = 1
    OBVIOUS
  <1>2. with \in Seq(Int) /\ Len(with) = Len(outer) + 1
        /\ \A i \in 1 .. Len(outer) : with[i] = outer[i]
    <2>1. Len(outer) \in Nat
      BY LenProperties
    <2> QED
      BY <1>1, <2>1, ConcatProperties
  <1> HIDE DEF with
  <1>3. inner \in Seq(Int) /\ Len(inner) = Len(outer) + 1 + Len(nam)
        /\ \A i \in 1 .. Len(outer) : inner[i] = outer[i]
    <2>1. Len(outer) \in Nat /\ Len(nam) \in Nat
      BY LenProperties
    <2>2. /\ inner \in Seq(Int) /\ Len(inner) = Len(with) + Len(nam)
          /\ \A i \in 1 .. Len(with) + Len(nam) :
               inner[i] = IF i <= Len(with) THEN with[i] ELSE nam[i - Len(with)]
      BY <1>2, ConcatProperties, Zenon
    <2> HIDE DEF inner
    <2> QED
      BY <1>2, <2>1, <2>2
  <1> HIDE DEF inner
  <1>4. SubSeq(inner, 1, Len(outer)) = outer
    <2>1. Len(outer) \in Nat /\ Len(nam) \in Nat
      BY LenProperties
    <2>2. \A i \in 1 .. Len(outer) : inner[i] \in Int
      BY <1>3, <2>1, ElementOfSeq
    <2>3. SubSeq(inner, 1, Len(outer)) \in Seq(Int)
          /\ Len(SubSeq(inner, 1, Len(outer))) = Len(outer)
          /\ \A i \in 1 .. Len(outer) : SubSeq(inner, 1, Len(outer))[i] = outer[i]
      BY <2>1, <2>2, <1>3, SubSeqProperties
    <2> QED
      BY <2>3, SeqEqual
  <1> QED
    BY <1>3, <1>4 DEF inner, with

----------------------------------------------------------------------------
LEMMA ScopesStart == ScopesInit => ScopesInv
  BY DEF ScopesInit, ScopesInv, Measured, Nested, Top

(* The current scope, as the string, the lists and the client know it.      *)
LEMMA CurrentScope ==
  ASSUME ScopesInv
  PROVE  /\ Len(flat) \in Nat /\ Top(flat, <<>>) \in Seq(Int)
         /\ Top(curr_hier, 0) = Len(Top(flat, <<>>))
         /\ Top(curr_hier, 0) \in Nat
         /\ \A i \in 1 .. Len(flat) : Len(flat[i]) <= Top(curr_hier, 0)
  <1>1. /\ flat \in Seq(Seq(Int)) /\ curr_hier \in Seq(Nat) /\ Len(curr_hier) = Len(flat)
        /\ \A i \in 1 .. Len(flat) : curr_hier[i] = Len(flat[i])
    BY Zenon DEF ScopesInv, Measured
  <1>2. Len(flat) \in Nat
    BY <1>1, LenProperties
  <1>3. /\ Top(curr_hier, 0) = IF Len(flat) = 0 THEN 0 ELSE curr_hier[Len(flat)]
        /\ Top(flat, <<>>) = IF Len(flat) = 0 THEN <<>> ELSE flat[Len(flat)]
    BY <1>1, TopIs, Zenon
  <1>4. CASE Len(flat) = 0
    <2>1. Top(flat, <<>>) = <<>> /\ Top(curr_hier, 0) = 0
      BY <1>3, <1>4
    <2>2. <<>> \in Seq(Int) /\ Len(<<>>) = 0
      BY EmptySeq
    <2>3. \A i \in 1 .. Len(flat) : FALSE
      BY <1>4
    <2>4. Len(flat) \in Nat /\ 0 \in Nat
      BY <1>2
    <2> QED
      BY <2>1, <2>2, <2>3, <2>4, Zenon
  <1>5. CASE Len(flat) # 0
    <2>1. Len(flat) \in 1 .. Len(flat)
      BY <1>2, <1>5
    <2>2. flat[Len(flat)] \in Seq(Int) /\ curr_hier[Len(flat)] = Len(flat[Len(flat)])
      BY <2>1, <1>1, ElementOfSeq
    <2>3. Len(flat[Len(flat)]) \in Nat
      BY <2>2, LenProperties
    <2>4. \A i \in 1 .. Len(flat) : Len(flat[i]) <= Len(flat[Len(flat)])
      BY <2>1 DEF ScopesInv, Nested
    <2> QED
      BY <1>2, <1>3, <1>5, <2>2, <2>3, <2>4
  <1> QED
    BY <1>4, <1>5

(* A push: the new name begins with the outer one, and what is allocated    *)
(* holds it.                                                                *)
LEMMA PushKeeps ==
  ASSUME ScopesInv, NEW nam \in ScopeNames, PushScope(nam)
  PROVE  ScopesInv'
  <1> DEFINE outer == Top(flat, <<>>)
             chl == Top(curr_hier, 0)
             inner == IF outer = <<>> THEN nam ELSE outer \o <<Dot>> \o nam
             n == Len(flat)
  <1>1. nam \in Seq(Int) /\ Len(nam) \in Nat /\ Dot \in Int
    BY ScopesAssumption, LenProperties
  <1>2. /\ n \in Nat /\ outer \in Seq(Int) /\ chl = Len(outer) /\ chl \in Nat
        /\ \A i \in 1 .. n : Len(flat[i]) <= chl
    BY CurrentScope, Zenon
  <1>3. outer = <<>> <=> chl = 0
    BY <1>2, EmptySeq
  <1>p. /\ curr_flat_hier_nam' = IF chl > 0 THEN SubSeq(outer, 1, chl) \o <<Dot>> \o nam ELSE nam
        /\ curr_hier' = Append(curr_hier, IF chl > 0 THEN chl + 1 + Len(nam) ELSE Len(nam))
        /\ flat' = Append(flat, inner)
        /\ alloc' = chl + 1 + Len(nam) + 1
    BY Zenon DEF PushScope, Joined, Allocated, ScopesInv
  <1>q. /\ outer = <<>> => inner = nam
        /\ outer # <<>> => inner = outer \o <<Dot>> \o nam
    BY Zenon
  <1>r. n # 0 => outer = flat[n]
    BY TopIs DEF ScopesInv
  <1> HIDE DEF inner, outer, chl
  <1>4. /\ inner \in Seq(Int) /\ SubSeq(inner, 1, chl) = outer
        /\ Len(inner) = IF chl > 0 THEN chl + 1 + Len(nam) ELSE Len(nam)
    <2>1. CASE outer = <<>>
      <3>1. chl = 0 /\ inner = nam /\ SubSeq(inner, 1, 0) = <<>>
        BY <2>1, <1>3, <1>q, SubSeqEmpty
      <3> QED
        BY <2>1, <3>1, <1>1
    <2>2. CASE outer # <<>>
      <3>1. inner = outer \o <<Dot>> \o nam /\ chl > 0
        BY <2>2, <1>2, <1>3, <1>q
      <3>2. /\ inner \in Seq(Int) /\ Len(inner) = Len(outer) + 1 + Len(nam)
            /\ SubSeq(inner, 1, Len(outer)) = outer
        BY <3>1, <1>1, <1>2, JoinIs, Zenon
      <3> QED
        BY <3>1, <3>2, <1>2
    <2> QED
      BY <2>1, <2>2
  <1>5. curr_flat_hier_nam' = inner
    <2>1. SubSeq(outer, 1, chl) = outer
      BY <1>2, SubSeqFull, Zenon
    <2>2. CASE outer = <<>>
      BY <2>2, <1>3, <1>p, <1>q
    <2>3. CASE outer # <<>>
      <3>1. chl > 0
        BY <2>3, <1>2, <1>3
      <3> QED
        BY <2>1, <2>3, <3>1, <1>p, <1>q
    <2> QED
      BY <2>2, <2>3
  <1>6. /\ flat' = Append(flat, inner) /\ curr_hier' = Append(curr_hier, Len(inner))
        /\ alloc' = chl + 1 + Len(nam) + 1
    BY <1>4, <1>p
  <1>7. /\ flat \in Seq(Seq(Int)) /\ curr_hier \in Seq(Nat) /\ Len(curr_hier) = n
        /\ \A i \in 1 .. n : curr_hier[i] = Len(flat[i])
    BY Zenon DEF ScopesInv, Measured
  <1>8. Len(inner) \in Nat /\ chl <= Len(inner) /\ Len(inner) < alloc' /\ chl < alloc' /\ alloc' \in Nat
    BY <1>1, <1>2, <1>4, <1>6
  <1>9. /\ flat' \in Seq(Seq(Int)) /\ Len(flat') = n + 1 /\ flat'[n + 1] = inner
        /\ \A i \in 1 .. n : flat'[i] = flat[i]
    BY <1>4, <1>6, <1>7
  <1>10. /\ curr_hier' \in Seq(Nat) /\ Len(curr_hier') = n + 1 /\ curr_hier'[n + 1] = Len(inner)
         /\ \A i \in 1 .. n : curr_hier'[i] = curr_hier[i]
    BY <1>6, <1>7, <1>8
  <1>n. n = Len(flat)
    OBVIOUS
  <1> HIDE DEF n
  <1>11. Top(flat', <<>>) = inner
    BY <1>2, <1>9, TopIs
  <1>12. \A i \in 1 .. n : Len(flat[i]) \in Nat
    BY <1>7, ElementOfSeq, LenProperties
  <1>13. Measured'
    <2> SUFFICES ASSUME NEW i \in 1 .. n + 1
                 PROVE  curr_hier'[i] = Len(flat'[i]) /\ curr_hier'[i] < alloc'
      BY <1>9, <1>10 DEF Measured
    <2>1. CASE i = n + 1
      BY <2>1, <1>8, <1>9, <1>10
    <2>2. CASE i \in 1 .. n
      <3>1. /\ Len(flat[i]) \in Nat /\ Len(flat[i]) <= chl
            /\ curr_hier'[i] = Len(flat[i]) /\ flat'[i] = flat[i]
        BY <2>2, <1>2, <1>7, <1>9, <1>10, <1>12, <1>n, Zenon
      <3>2. Len(flat[i]) < alloc'
        BY <3>1, <1>2, <1>8
      <3> QED
        BY <3>1, <3>2, Zenon
    <2> QED
      BY <2>1, <2>2, <1>2
  <1>14. Nested'
    <2>1. ASSUME NEW i \in 1 .. n + 1, NEW j \in 1 .. n + 1, i <= j
          PROVE  Len(flat'[i]) <= Len(flat'[j])
      <3>1. CASE j = n + 1
        <4>1. CASE i = n + 1
          BY <3>1, <4>1, <1>8, <1>9
        <4>2. CASE i \in 1 .. n
          <5>1. Len(flat[i]) \in Nat /\ Len(flat[i]) <= chl /\ flat'[i] = flat[i]
            BY <4>2, <1>2, <1>9, <1>12, <1>n, Zenon
          <5>2. Len(flat[i]) <= Len(inner)
            BY <5>1, <1>2, <1>8
          <5> QED
            BY <3>1, <5>1, <5>2, <1>9, Zenon
        <4> QED
          BY <4>1, <4>2, <1>2
      <3>2. CASE j \in 1 .. n
        <4>1. i \in 1 .. n
          BY <3>2, <2>1, <1>2
        <4> QED
          BY <3>2, <4>1, <2>1, <1>9, <1>n DEF ScopesInv, Nested
      <3> QED
        BY <3>1, <3>2, <1>2
    <2>2. ASSUME NEW i \in 1 .. n
          PROVE  SubSeq(flat'[i + 1], 1, Len(flat'[i])) = flat'[i]
      <3>1. CASE i = n
        <4>1. outer = flat[n]
          BY <3>1, <2>2, <1>r, <1>2
        <4> QED
          BY <3>1, <4>1, <1>2, <1>4, <1>9
      <3>2. CASE i \in 1 .. n - 1
        <4>1. i + 1 \in 1 .. n
          BY <3>2, <1>2
        <4> QED
          BY <3>2, <4>1, <1>9, <1>n DEF ScopesInv, Nested
      <3> QED
        BY <3>1, <3>2, <1>2
    <2> QED
      BY <2>1, <2>2, <1>2, <1>9 DEF Nested
  <1> QED
    BY <1>4, <1>5, <1>8, <1>9, <1>10, <1>11, <1>13, <1>14, Zenon DEF ScopesInv

(* A pop: cutting the string at the outer length leaves the outer name.     *)
LEMMA PopKeeps ==
  ASSUME ScopesInv, PopScope
  PROVE  ScopesInv'
  <1> DEFINE n == Len(flat)
  <1>1. /\ flat \in Seq(Seq(Int)) /\ curr_hier \in Seq(Nat) /\ Len(curr_hier) = n
        /\ \A i \in 1 .. n : curr_hier[i] = Len(flat[i]) /\ curr_hier[i] < alloc
        /\ alloc \in Nat
    BY Zenon DEF ScopesInv, Measured
  <1>2. n \in Nat \ {0} /\ curr_hier # <<>> /\ flat # <<>>
    <2>1. Len(curr_hier) \in Nat \ {0}
      BY <1>1, EmptySeq DEF PopScope
    <2> QED
      BY <1>1, <2>1, EmptySeq DEF PopScope
  <1>n. n = Len(flat)
    OBVIOUS
  <1> HIDE DEF n
  <1>3. /\ flat' \in Seq(Seq(Int)) /\ Len(flat') = n - 1
        /\ \A i \in 1 .. n - 1 : flat'[i] = flat[i]
    BY <1>1, <1>2, <1>n, FrontIs DEF PopScope
  <1>4. /\ curr_hier' \in Seq(Nat) /\ Len(curr_hier') = n - 1
        /\ \A i \in 1 .. n - 1 : curr_hier'[i] = curr_hier[i]
    BY <1>1, <1>2, <1>n, FrontIs DEF PopScope
  <1>5. alloc' = alloc
    BY DEF PopScope
  <1>6. curr_flat_hier_nam = flat[n]
    BY <1>1, <1>2, <1>n, TopIs DEF ScopesInv
  <1>7. curr_flat_hier_nam' = Top(flat', <<>>)
    <2>1. curr_flat_hier_nam' = SubSeq(flat[n], 1, IF n = 1 THEN 0 ELSE curr_hier[n - 1])
      BY <1>1, <1>6 DEF PopScope, EndOf
    <2>2. Top(flat', <<>>) = IF n = 1 THEN <<>> ELSE flat'[n - 1]
      BY <1>2, <1>3, TopIs
    <2>3. CASE n = 1
      <3>1. SubSeq(flat[n], 1, 0) = <<>>
        BY SubSeqEmpty
      <3> QED
        BY <2>1, <2>2, <2>3, <3>1
    <2>4. CASE n # 1
      <3>1. n - 1 \in 1 .. n - 1 /\ n - 1 \in 1 .. n /\ (n - 1) + 1 = n
        BY <2>4, <1>2
      <3>2. SubSeq(flat[n], 1, Len(flat[n - 1])) = flat[n - 1]
        BY <3>1, <1>n DEF ScopesInv, Nested
      <3> QED
        BY <2>1, <2>2, <2>4, <3>1, <3>2, <1>1, <1>3
    <2> QED
      BY <2>3, <2>4
  <1>8. Top(flat', <<>>) \in Seq(Int)
    <2>1. Top(flat', <<>>) = IF n = 1 THEN <<>> ELSE flat'[n - 1]
      BY <1>2, <1>3, TopIs
    <2>2. CASE n = 1
      BY <2>1, <2>2, EmptySeq
    <2>3. CASE n # 1
      <3>1. n - 1 \in 1 .. Len(flat')
        BY <2>3, <1>2, <1>3
      <3> QED
        BY <2>1, <2>3, <3>1, <1>3, ElementOfSeq
    <2> QED
      BY <2>2, <2>3
  <1>9. \A i \in 1 .. n - 1 : i \in 1 .. n
    BY <1>2
  <1>10. Measured'
    BY <1>1, <1>3, <1>4, <1>5, <1>9 DEF Measured
  <1>11. Nested'
    <2>1. \A i, j \in 1 .. n - 1 : i <= j => Len(flat'[i]) <= Len(flat'[j])
      BY <1>3, <1>9, <1>n DEF ScopesInv, Nested
    <2>2. ASSUME NEW i \in 1 .. n - 2
          PROVE  SubSeq(flat'[i + 1], 1, Len(flat'[i])) = flat'[i]
      <3>1. i \in 1 .. n - 1 /\ i + 1 \in 1 .. n - 1
        BY <1>2
      <3> QED
        BY <3>1, <1>3, <1>n DEF ScopesInv, Nested
    <2> QED
      BY <2>1, <2>2, <1>2, <1>3 DEF Nested
  <1> QED
    BY <1>1, <1>3, <1>4, <1>5, <1>7, <1>8, <1>10, <1>11, Zenon DEF ScopesInv

LEMMA ResetKeeps ==
  ASSUME ScopesInv, ResetScope
  PROVE  ScopesInv'
  <1>1. curr_hier' = <<>> /\ flat' = <<>> /\ alloc' = alloc
    BY DEF ResetScope
  <1>2. curr_flat_hier_nam' = <<>>
    <2>1. CASE curr_hier = <<>>
      <3>1. Len(flat) = 0
        BY <2>1, EmptySeq DEF ScopesInv, Measured
      <3> QED
        BY <2>1, <3>1, TopIs DEF ScopesInv, ResetScope
    <2> QED
      BY <2>1 DEF ResetScope
  <1> QED
    BY <1>1, <1>2 DEF ScopesInv, Measured, Nested, Top

(* However scopes are opened and closed, the flat name is that of the open  *)
(* ones, and no push or pop writes its terminating 0 behind what the last   *)
(* push allocated (fstReaderPushScope, fstReaderPopScope).                  *)
THEOREM ScopesAlwaysFollow == ScopesSpec => []ScopesFollow
  <1>1. ScopesInv /\ [ScopesNext]_scopesVars => ScopesInv'
    <2> SUFFICES ASSUME ScopesInv, [ScopesNext]_scopesVars PROVE ScopesInv'
      OBVIOUS
    <2>1. CASE UNCHANGED scopesVars
      BY <2>1 DEF scopesVars, ScopesInv, Measured, Nested
    <2> QED
      BY <2>1, PushKeeps, PopKeeps, ResetKeeps, Zenon DEF ScopesNext
  <1>2. ScopesInv => ScopesFollow
    <2> SUFFICES ASSUME ScopesInv PROVE ScopesFollow
      OBVIOUS
    <2>1. Top(curr_hier, 0) = Len(curr_flat_hier_nam)
      BY CurrentScope DEF ScopesInv
    <2> QED
      BY <2>1 DEF ScopesInv, Measured, ScopesFollow
  <1> QED
    BY ScopesStart, <1>1, <1>2, PTL DEF ScopesSpec

----------------------------------------------------------------------------
(* Sequences of anything: of a length, and one appended to another.         *)
Sequence(s) == Len(s) \in Nat /\ s = [i \in 1 .. Len(s) |-> s[i]]
Long(s, n) == n \in Nat /\ Sequence(s) /\ Len(s) = n
Appends(r, s, t) ==
  /\ Sequence(r) /\ Len(r) = Len(s) + Len(t)
  /\ \A i \in 1 .. Len(s) : r[i] = s[i]
  /\ \A i \in 1 .. Len(t) : r[Len(s) + i] = t[i]

(* What is behind the header, element by element; the writer's handle       *)
(* stands at the end of the file between two calls.                         *)
BlocksBehind ==
  /\ Sequence(file) /\ Sequence(blocks)
  /\ Len(file) = HeaderLength + Len(blocks)
  /\ \A i \in 1 .. Len(blocks) : file[HeaderLength + i] = blocks[i]
HeaderInv == BlocksBehind /\ position = Len(file)

----------------------------------------------------------------------------
LEMMA Sized ==
  ASSUME NEW n \in Nat, NEW s, DOMAIN s = 1 .. n, s = [i \in 1 .. n |-> s[i]]
  PROVE  Sequence(s) /\ Len(s) = n
  <1>1. s \in Seq({s[i] : i \in 1 .. n})
    <2>1. s \in [1 .. n -> {s[i] : i \in 1 .. n}]
      OBVIOUS
    <2> QED
      BY <2>1, SeqDef
  <1>2. Len(s) = n
    BY <1>1, LenProperties
  <1> QED
    BY <1>2 DEF Sequence

LEMMA Concatenated ==
  ASSUME NEW s, NEW t, Sequence(s), Sequence(t)
  PROVE  Appends(s \o t, s, t)
  <1> DEFINE S == {s[i] : i \in 1 .. Len(s)} \cup {t[i] : i \in 1 .. Len(t)}
  <1>1. s \in Seq(S)
    <2>1. s \in [1 .. Len(s) -> S]
      BY DEF Sequence
    <2> QED
      BY <2>1, SeqDef DEF Sequence
  <1>2. t \in Seq(S)
    <2>1. t \in [1 .. Len(t) -> S]
      BY DEF Sequence
    <2> QED
      BY <2>1, SeqDef DEF Sequence
  <1> HIDE DEF S
  <1>3. /\ s \o t \in Seq(S) /\ Len(s \o t) = Len(s) + Len(t)
        /\ \A i \in 1 .. Len(s) + Len(t) :
             (s \o t)[i] = IF i <= Len(s) THEN s[i] ELSE t[i - Len(s)]
    BY <1>1, <1>2, ConcatProperties
  <1>4. s \o t = [i \in 1 .. Len(s \o t) |-> (s \o t)[i]]
    BY <1>3, LenProperties
  <1> QED
    BY <1>3, <1>4 DEF Sequence, Appends

(* A patch within the file changes neither its length nor what follows.     *)
LEMMA Overwritten ==
  ASSUME NEW bytes, NEW new, NEW offs \in Nat, Sequence(bytes), Sequence(new),
         offs + Len(new) <= Len(bytes)
  PROVE  /\ Sequence(Over(bytes, offs, new)) /\ Len(Over(bytes, offs, new)) = Len(bytes)
         /\ \A i \in 1 .. Len(bytes) : i > offs + Len(new) => Over(bytes, offs, new)[i] = bytes[i]
  <1> DEFINE over == Over(bytes, offs, new)
  <1>1. /\ DOMAIN over = 1 .. Len(bytes)
        /\ \A i \in 1 .. Len(bytes) : over[i] = IF i \in offs + 1 .. offs + Len(new) THEN new[i - offs] ELSE bytes[i]
        /\ over = [i \in 1 .. Len(bytes) |-> over[i]]
    BY DEF Over, Sequence
  <1> HIDE DEF over
  <1>2. Sequence(over) /\ Len(over) = Len(bytes)
    BY <1>1, Sized DEF Sequence
  <1> QED
    BY <1>1, <1>2 DEF over, Sequence

(* A write at the end of the file appends.                                  *)
LEMMA Appended ==
  ASSUME NEW bytes, NEW new, Sequence(bytes), Sequence(new)
  PROVE  Appends(Over(bytes, Len(bytes), new), bytes, new)
  <1> DEFINE over == Over(bytes, Len(bytes), new)
             n == Len(bytes) + Len(new)
  <1>1. Len(bytes) \in Nat /\ Len(new) \in Nat /\ n \in Nat
    BY DEF Sequence
  <1>2. (IF Len(bytes) + Len(new) > Len(bytes) THEN Len(bytes) + Len(new) ELSE Len(bytes)) = n
    BY <1>1
  <1>3. /\ DOMAIN over = 1 .. n
        /\ \A i \in 1 .. n : over[i] = IF i \in Len(bytes) + 1 .. Len(bytes) + Len(new) THEN new[i - Len(bytes)] ELSE bytes[i]
        /\ over = [i \in 1 .. n |-> over[i]]
    BY <1>2 DEF Over
  <1> HIDE DEF over
  <1>4. Sequence(over) /\ Len(over) = n
    BY <1>1, <1>3, Sized
  <1>5. \A i \in 1 .. Len(bytes) : over[i] = bytes[i]
    BY <1>1, <1>3
  <1>6. \A i \in 1 .. Len(new) : over[Len(bytes) + i] = new[i]
    BY <1>1, <1>3
  <1> QED
    BY <1>4, <1>5, <1>6 DEF over, Appends

LEMMA Extended ==
  ASSUME NEW s, NEW n, NEW t, NEW m, Long(s, n), Long(t, m)
  PROVE  Long(s \o t, n + m)
  <1>1. Sequence(s \o t) /\ Len(s \o t) = Len(s) + Len(t)
    BY Concatenated, Zenon DEF Long, Appends
  <1>2. n + m \in Nat
    BY DEF Long
  <1> QED
    BY <1>1, <1>2, Zenon DEF Long

LEMMA FieldSizes ==
  ASSUME NEW v
  PROVE  /\ Long(Word(v), WordSize) /\ Long(<<v>>, 1) /\ Long(EndTest, WordSize)
         /\ \A size \in Nat : Long(Text(v, size), size)
  <1>1. WordSize \in Nat
    BY HeaderAssumption DEF HeaderAssumption
  <1>2. /\ DOMAIN Word(v) = 1 .. WordSize
        /\ Word(v) = [i \in 1 .. WordSize |-> Word(v)[i]]
    BY DEF Word, WriteWord
  <1>3. ASSUME NEW size \in Nat
        PROVE  DOMAIN Text(v, size) = 1 .. size /\ Text(v, size) = [i \in 1 .. size |-> Text(v, size)[i]]
    BY DEF Text
  <1>4. Sequence(<<v>>) /\ Len(<<v>>) = 1
    BY DEF Sequence
  <1>5. DOMAIN EndTest = 1 .. WordSize /\ EndTest = [i \in 1 .. WordSize |-> EndTest[i]]
    BY DEF EndTest
  <1>6. Sequence(Word(v)) /\ Len(Word(v)) = WordSize
    BY <1>1, <1>2, Sized, Zenon
  <1>7. ASSUME NEW size \in Nat PROVE Sequence(Text(v, size)) /\ Len(Text(v, size)) = size
    BY <1>3, Sized, Zenon
  <1>8. Sequence(EndTest) /\ Len(EndTest) = WordSize
    BY <1>1, <1>5, Sized, Zenon
  <1> QED
    BY <1>1, <1>4, <1>6, <1>7, <1>8 DEF Long

----------------------------------------------------------------------------
LEMMA Offsets ==
  /\ WordSize \in Nat /\ VersionSize \in Nat /\ DateSize \in Nat
  /\ OffsStartTime \in Nat /\ OffsNumScopes \in Nat /\ OffsTimescale \in Nat /\ OffsVersion \in Nat
  /\ OffsDate \in Nat /\ OffsFiletype \in Nat /\ OffsTimezero \in Nat /\ HeaderLength \in Nat
  /\ OffsStartTime + 2 * WordSize <= HeaderLength /\ OffsNumScopes + 4 * WordSize <= HeaderLength
  /\ OffsTimescale + 1 <= HeaderLength /\ OffsVersion + VersionSize <= HeaderLength
  /\ OffsDate + DateSize <= HeaderLength /\ OffsFiletype + 1 <= HeaderLength
  /\ OffsTimezero + WordSize <= HeaderLength
  /\ HeaderLength = 1 + 9 * WordSize + 1 + VersionSize + DateSize + 1 + WordSize
  BY HeaderAssumption DEF HeaderAssumption, OffsStartTime, OffsEndian, OffsMemUsed, OffsNumScopes,
     OffsTimescale, OffsVersion, OffsDate, OffsFiletype, OffsTimezero, HeaderLength

(* Overwriting any part of the header keeps what is behind it.              *)
LEMMA PatchKeeps ==
  ASSUME BlocksBehind, NEW offs \in Nat, NEW new, Sequence(new), offs + Len(new) <= HeaderLength,
         file' = Over(file, offs, new), blocks' = blocks
  PROVE  BlocksBehind' /\ Len(file') = Len(file)
  <1>1. HeaderLength \in Nat /\ Len(blocks) \in Nat /\ Len(new) \in Nat
    BY Offsets DEF BlocksBehind, Sequence
  <1>2. Len(file) = HeaderLength + Len(blocks) /\ offs + Len(new) <= Len(file)
    BY <1>1 DEF BlocksBehind
  <1>3. /\ Sequence(file') /\ Len(file') = Len(file)
        /\ \A i \in 1 .. Len(file) : i > offs + Len(new) => file'[i] = file[i]
    BY <1>2, Overwritten, Zenon DEF BlocksBehind
  <1>4. ASSUME NEW i \in 1 .. Len(blocks) PROVE file'[HeaderLength + i] = blocks[i]
    <2>1. HeaderLength + i \in 1 .. Len(file) /\ HeaderLength + i > offs + Len(new)
      BY <1>1, <1>2
    <2> QED
      BY <2>1, <1>3 DEF BlocksBehind
  <1> QED
    BY <1>3, <1>4 DEF BlocksBehind

----------------------------------------------------------------------------
(* Words: the powers of 256 up to that of a word.                           *)
Powers(p) ==
  /\ p \in [0 .. WordSize -> Nat] /\ p[0] = 1 /\ p[WordSize] = WordModulus
  /\ \A k \in 1 .. WordSize : p[k] = 256 * p[k - 1]
(* They exist.                                                              *)
LEMMA PowersExist == \E p : Powers(p)
  <1>1. WordSize \in Nat
    BY HeaderAssumption DEF HeaderAssumption
  <1> DEFINE step == [k \in 1 .. WordSize |-> [v \in Nat |-> 256 * v]]
             Fits(f) == f = [n \in 0 .. WordSize |-> IF n = 0 THEN 1 ELSE 256 * f[n - 1]]
             power == CHOOSE f : Fits(f)
  <1>2. PICK p : Recurs(p, Nat, 1, step, WordSize)
    <2>1. 1 \in Nat /\ step \in [1 .. WordSize -> [Nat -> Nat]]
      OBVIOUS
    <2> DEFINE one == 1
    <2>2. one \in Nat
      OBVIOUS
    <2> HIDE DEF step, one
    <2>3. \E f : Recurs(f, Nat, one, step, WordSize)
      BY <1>1, <2>1, <2>2, RecursionExists
    <2> QED
      BY <2>3 DEF one
  <1>3. p \in [0 .. WordSize -> Nat] /\ p[0] = 1 /\ \A k \in 1 .. WordSize : p[k] = 256 * p[k - 1]
    <2>1. /\ p \in [0 .. WordSize -> Nat] /\ p[0] = 1
          /\ \A k \in 1 .. WordSize : p[k] = step[k][p[k - 1]]
      BY <1>2, Zenon DEF Recurs
    <2>2. ASSUME NEW k \in 1 .. WordSize PROVE step[k][p[k - 1]] = 256 * p[k - 1]
      <3>1. k - 1 \in 0 .. WordSize
        BY <1>1
      <3> QED
        BY <2>1, <3>1
    <2> QED
      BY <2>1, <2>2
  <1>4. Fits(p)
    <2>1. ASSUME NEW n \in 0 .. WordSize PROVE p[n] = IF n = 0 THEN 1 ELSE 256 * p[n - 1]
      BY <1>1, <1>3
    <2>2. p = [n \in 0 .. WordSize |-> p[n]]
      BY <1>3
    <2> QED
      BY <2>1, <2>2, Zenon
  <1>5. Fits(power)
    BY <1>4, Zenon
  <1>6. WordModulus = power[WordSize]
    BY Zenon DEF WordModulus
  <1> HIDE DEF power
  <1>7. power[0] = 1 /\ \A k \in 1 .. WordSize : power[k] = 256 * power[k - 1]
    BY <1>1, <1>5
  <1>8. \A k \in 0 .. WordSize : power[k] = p[k]
    <2>1. Alike(power, p, WordSize)
      BY <1>3, <1>7, Zenon DEF Alike
    <2> QED
      BY <1>1, <2>1, SameRecursion
  <1>9. p[WordSize] = WordModulus
    BY <1>1, <1>6, <1>8
  <1> QED
    BY <1>3, <1>9, Zenon DEF Powers

(* What is left of a number behind each byte fstWriterUint64 takes off it.  *)
Rests(r, v) ==
  /\ r \in [0 .. WordSize -> Int] /\ r[0] = v
  /\ \A k \in 1 .. WordSize : r[k] = r[k - 1] \div 256
(* The bytes are the rests', the highest first.                             *)
LEMMA WordIs ==
  ASSUME NEW v \in Int
  PROVE  \E r : Rests(r, v) /\ Word(v) = [i \in 1 .. WordSize |-> r[WordSize - i] % 256]
  <1>1. WordSize \in Nat
    BY HeaderAssumption DEF HeaderAssumption
  <1> DEFINE step == [k \in 1 .. WordSize |-> [x \in Int |-> x \div 256]]
             Fits(f) == f = [k \in 0 .. WordSize |-> IF k = 0 THEN v ELSE f[k - 1] \div 256]
             rest == CHOOSE f : Fits(f)
  <1>2. PICK r : Recurs(r, Int, v, step, WordSize)
    <2>1. step \in [1 .. WordSize -> [Int -> Int]]
      OBVIOUS
    <2> HIDE DEF step
    <2> QED
      BY <1>1, <2>1, RecursionExists
  <1>3. Rests(r, v)
    <2>1. /\ r \in [0 .. WordSize -> Int] /\ r[0] = v
          /\ \A k \in 1 .. WordSize : r[k] = step[k][r[k - 1]]
      BY <1>2, Zenon DEF Recurs
    <2>2. ASSUME NEW k \in 1 .. WordSize PROVE step[k][r[k - 1]] = r[k - 1] \div 256
      <3>1. k - 1 \in 0 .. WordSize
        BY <1>1
      <3> QED
        BY <2>1, <3>1
    <2> QED
      BY <2>1, <2>2 DEF Rests
  <1>4. Fits(r)
    <2>1. ASSUME NEW n \in 0 .. WordSize PROVE r[n] = IF n = 0 THEN v ELSE r[n - 1] \div 256
      BY <1>1, <1>3 DEF Rests
    <2>2. r = [n \in 0 .. WordSize |-> r[n]]
      BY <1>3 DEF Rests
    <2> QED
      BY <2>1, <2>2, Zenon
  <1>5. Fits(rest)
    BY <1>4, Zenon
  <1>6. Word(v) = [i \in 1 .. WordSize |-> rest[WordSize - i] % 256]
    BY Zenon DEF Word, WriteWord
  <1> HIDE DEF rest
  <1>7. \A k \in 0 .. WordSize : rest[k] = r[k]
    <2>1. rest[0] = v /\ \A k \in 1 .. WordSize : rest[k] = rest[k - 1] \div 256
      BY <1>1, <1>5
    <2>2. Alike(rest, r, WordSize)
      BY <1>3, <2>1, Zenon DEF Alike, Rests
    <2> QED
      BY <1>1, <2>2, SameRecursion
  <1>8. \A i \in 1 .. WordSize : WordSize - i \in 0 .. WordSize
    BY <1>1
  <1>9. Word(v) = [i \in 1 .. WordSize |-> r[WordSize - i] % 256]
    BY <1>6, <1>7, <1>8, Zenon
  <1> QED
    BY <1>3, <1>9, Zenon

(* What is left in the end: nothing of a number that fits, a sign of one    *)
(* below zero.                                                              *)
LEMMA RestIs ==
  ASSUME NEW v \in Int, NEW r, Rests(r, v), WordModulus \in Nat
  PROVE  /\ v \in 0 .. WordModulus - 1 => r[WordSize] = 0
         /\ v \in -WordModulus .. -1 => r[WordSize] = -1
  <1>1. WordSize \in Nat
    BY HeaderAssumption DEF HeaderAssumption
  <1>2. PICK p : Powers(p)
    BY PowersExist
  <1>3. \A k \in 0 .. WordSize : WordSize - k \in 0 .. WordSize /\ r[k] \in Int /\ p[WordSize - k] \in Nat
    <2>1. \A k \in 0 .. WordSize : WordSize - k \in 0 .. WordSize
      BY <1>1
    <2> QED
      BY <1>2, <2>1 DEF Rests, Powers
  <1>4. ASSUME NEW k \in 1 .. WordSize
        PROVE  /\ k \in 0 .. WordSize /\ k - 1 \in 0 .. WordSize /\ r[k] = r[k - 1] \div 256
               /\ p[WordSize - (k - 1)] = 256 * p[WordSize - k]
    <2>1. k \in 0 .. WordSize /\ k - 1 \in 0 .. WordSize /\ WordSize - (k - 1) \in 1 .. WordSize
          /\ (WordSize - (k - 1)) - 1 = WordSize - k
      BY <1>1
    <2> QED
      BY <1>2, <2>1, Zenon DEF Rests, Powers
  <1>5. r[0] = v /\ p[WordSize - 0] = WordModulus /\ p[WordSize - WordSize] = 1
    BY <1>1, <1>2 DEF Rests, Powers
  <1>6. ASSUME v \in 0 .. WordModulus - 1 PROVE r[WordSize] = 0
    <2> DEFINE S == {k \in Nat : k <= WordSize /\ r[k] \in 0 .. p[WordSize - k] - 1}
    <2>1. 0 \in S
      BY <1>1, <1>3, <1>5, <1>6
    <2>2. ASSUME NEW k \in 1 .. WordSize, k - 1 \in S PROVE k \in S
      <3>1. r[k - 1] \in 0 .. p[WordSize - (k - 1)] - 1 /\ r[k - 1] \in Int /\ p[WordSize - k] \in Nat
            /\ p[WordSize - (k - 1)] = 256 * p[WordSize - k] /\ r[k] = r[k - 1] \div 256
        BY <1>3, <1>4, <2>2
      <3>2. r[k] \in 0 .. p[WordSize - k] - 1
        BY <3>1
      <3> QED
        BY <3>2
    <2> HIDE DEF S
    <2>3. WordSize \in S
      BY <1>1, <2>1, <2>2, BoundedInduction
    <2> QED
      BY <1>5, <2>3 DEF S
  <1>7. ASSUME v \in -WordModulus .. -1 PROVE r[WordSize] = -1
    <2> DEFINE S == {k \in Nat : k <= WordSize /\ r[k] \in -p[WordSize - k] .. -1}
    <2>1. 0 \in S
      BY <1>1, <1>3, <1>5, <1>7
    <2>2. ASSUME NEW k \in 1 .. WordSize, k - 1 \in S PROVE k \in S
      <3>1. r[k - 1] \in -p[WordSize - (k - 1)] .. -1 /\ r[k - 1] \in Int /\ p[WordSize - k] \in Nat
            /\ p[WordSize - (k - 1)] = 256 * p[WordSize - k] /\ r[k] = r[k - 1] \div 256
        BY <1>3, <1>4, <2>2
      <3>2. r[k] \in -p[WordSize - k] .. -1
        BY <3>1
      <3> QED
        BY <3>2
    <2> HIDE DEF S
    <2>3. WordSize \in S
      BY <1>1, <2>1, <2>2, BoundedInduction
    <2> QED
      BY <1>5, <2>3 DEF S
  <1> QED
    BY <1>6, <1>7

(* A byte is added below the others, as long as they fit.                   *)
LEMMA NextByteIs ==
  ASSUME NEW val \in Nat, NEW byte \in Byte
  PROVE  NextByte(val, byte) \in Nat /\ (256 * val < Modulus => NextByte(val, byte) = 256 * val + byte)
  <1>1. Width \in Nat /\ Width > 8
    BY CodecAssumption DEF CodecAssumption
  <1>2. ShiftLeft(val, 8) = (val % (Modulus \div 256)) * 256
    <2>1. ~(8 >= Width) /\ 2^8 = 256
      BY <1>1
    <2> QED
      BY <2>1, Zenon DEF ShiftLeft
  <1>3. Modulus \div 256 \in Nat \ {0} /\ Modulus = 256 * (Modulus \div 256)
    BY ModulusIs
  <1>4. val % (Modulus \div 256) \in Nat
    BY <1>3
  <1>5. 256 * val < Modulus => val < Modulus \div 256
    BY <1>3
  <1>6. val < Modulus \div 256 => val % (Modulus \div 256) = val
    BY <1>3
  <1>7. byte \in Nat
    BY DEF Byte
  <1>8. NextByte(val, byte) = (val % (Modulus \div 256)) * 256 + byte
    BY <1>2, Zenon DEF NextByte
  <1> DEFINE m == val % (Modulus \div 256)
  <1>9. m \in Nat /\ (256 * val < Modulus => m = val) /\ NextByte(val, byte) = m * 256 + byte
    BY <1>4, <1>5, <1>6, <1>8
  <1> HIDE DEF m
  <1> QED
    BY <1>7, <1>9

(* fstReaderUint64, byte by byte.                                           *)
LEMMA WordTrace ==
  ASSUME NEW s \in Bytes
  PROVE  \E acc \in [0 .. Len(s) -> Nat] :
           /\ acc[0] = 0 /\ acc[Len(s)] = ReadWord(s)
           /\ \A k \in 1 .. Len(s) : acc[k] = NextByte(acc[k - 1], s[k])
  <1> DEFINE n == Len(s)
             T == SUBSET (1 .. n)
             zero == 0
             step == [k \in 1 .. n |-> [a \in Nat |-> NextByte(a, s[k])]]
             Fits(f) == f = [t \in T |-> IF t = {} THEN zero ELSE NextByte(f[t \ {Max(t)}], s[Max(t)])]
             f == CHOOSE g : Fits(g)
             acc == [k \in 0 .. n |-> f[1 .. k]]
  <1>1. n \in Nat /\ DOMAIN s = 1 .. n /\ \A k \in 1 .. n : s[k] \in Byte
    BY DEF Bytes
  <1>2. zero \in Nat
    OBVIOUS
  <1>3. step \in [1 .. n -> [Nat -> Nat]]
    BY <1>1, NextByteIs
  <1>4. \A k \in 1 .. n : \A a \in Nat : step[k][a] = NextByte(a, s[k])
    OBVIOUS
  <1>5. ReadWord(s) = f[1 .. n]
    BY <1>1, Zenon DEF ReadWord, FoldLeft, MapThenFoldSet
  <1> HIDE DEF step, n, zero
  <1>6. PICK F \in [T -> Nat] : Folds(F, zero, step, n)
    BY <1>1, <1>2, <1>3, FoldsExist
  <1>7. \A t \in T : t # {} => Max(t) \in 1 .. n /\ t \ {Max(t)} \in T
    BY <1>1, MaxIsIn
  <1>8. \A t \in T : F[t] \in Nat
    OBVIOUS
  <1> HIDE DEF T
  <1>9. ASSUME NEW t \in T
        PROVE  (IF t = {} THEN zero ELSE step[Max(t)][F[t \ {Max(t)}]])
               = (IF t = {} THEN zero ELSE NextByte(F[t \ {Max(t)}], s[Max(t)]))
    BY <1>4, <1>7, <1>8, Zenon
  <1>10. F = [t \in T |-> IF t = {} THEN zero ELSE step[Max(t)][F[t \ {Max(t)}]]]
    BY <1>6, Zenon DEF Folds, T
  <1>11. Fits(F)
    BY <1>9, <1>10, Zenon
  <1>12. Fits(f)
    BY <1>11, Zenon
  <1> HIDE DEF f
  <1>13. f[1 .. 0] = 0
    <2>1. {} \in T /\ 1 .. 0 = {}
      BY <1>1, FrontSets, Zenon DEF T
    <2> QED
      BY <1>12, <2>1, Zenon DEF zero
  <1>14. ASSUME NEW k \in 1 .. n PROVE f[1 .. k] = NextByte(f[1 .. (k - 1)], s[k])
    <2>1. 1 .. k \in T /\ 1 .. k # {} /\ Max(1 .. k) = k /\ (1 .. k) \ {k} = 1 .. (k - 1)
      BY <1>1, FrontSets, Zenon DEF T
    <2>2. f[1 .. k] = NextByte(f[(1 .. k) \ {Max(1 .. k)}], s[Max(1 .. k)])
      BY <1>12, <2>1, Zenon
    <2> QED
      BY <2>1, <2>2, Zenon
  <1>15. /\ acc[0] = 0 /\ acc[n] = ReadWord(s)
         /\ \A k \in 1 .. n : acc[k] = NextByte(acc[k - 1], s[k])
    <2>1. 0 \in 0 .. n /\ n \in 0 .. n /\ \A k \in 1 .. n : k \in 0 .. n /\ k - 1 \in 0 .. n
      BY <1>1
    <2> QED
      BY <1>5, <1>13, <1>14, <2>1, Zenon
  <1>16. \A k \in 0 .. n : acc[k] \in Nat
    <2> HIDE DEF acc
    <2>1. ASSUME NEW k \in 1 .. n, acc[k - 1] \in Nat PROVE acc[k] \in Nat
      <3>1. acc[k] = NextByte(acc[k - 1], s[k]) /\ s[k] \in Byte
        BY <1>1, <1>15
      <3>2. NextByte(acc[k - 1], s[k]) \in Nat
        BY <2>1, <3>1, NextByteIs
      <3> QED
        BY <3>1, <3>2
    <2>2. acc[0] \in Nat
      BY <1>15
    <2> QED
      BY <1>1, <2>1, <2>2, RecursionKeeps, Zenon
  <1>17. acc \in [0 .. n -> Nat]
    BY <1>16
  <1> QED
    BY <1>15, <1>17, Zenon DEF n

(* fstReaderUint64 reads what fstWriterUint64 wrote; a number below zero as *)
(* its complement.                                                          *)
LEMMA WordIsRead ==
  ASSUME NEW v \in Int
  PROVE  /\ WordModulus \in Nat \ {0, 1} /\ WordModulus = 2 * (WordModulus \div 2)
         /\ v \in UnsignedWord => ReadWord(Word(v)) = v
         /\ v \in -WordModulus .. -1 => ReadWord(Word(v)) = v + WordModulus
  <1> DEFINE n == WordSize
  <1>1. n \in Nat /\ n > 1
    BY HeaderAssumption DEF HeaderAssumption
  <1>2. PICK p : Powers(p)
    BY PowersExist
  <1>3. p \in [0 .. n -> Nat] /\ p[0] = 1 /\ p[n] = WordModulus /\ \A k \in 1 .. n : p[k] = 256 * p[k - 1]
    BY <1>2 DEF Powers
  <1>4. \A k \in 0 .. n : p[k] \in Nat /\ p[k] >= 1 /\ p[k] <= WordModulus
    <2> HIDE DEF n
    <2> DEFINE S == {x \in Nat : x >= 1}
    <2>0. ASSUME NEW k \in 1 .. n, p[k - 1] \in S PROVE p[k] \in S
      <3>1. p[k] = 256 * p[k - 1]
        BY <1>3
      <3> QED
        BY <2>0, <3>1
    <2>1. p[0] \in S /\ \A k \in 1 .. n : p[k - 1] \in S => p[k] \in S
      BY <1>1, <1>3, <2>0
    <2> HIDE DEF S
    <2>2. \A k \in 0 .. n : p[k] \in S
      BY <1>1, <2>1, RecursionKeeps
    <2>3. \A k \in 0 .. n : p[k] \in Nat /\ p[k] >= 1
      BY <2>2 DEF S
    <2> DEFINE D == {k \in Nat : k <= n => p[n - k] <= WordModulus}
    <2>4. 0 \in D
      BY <1>1, <1>3
    <2>5. ASSUME NEW k \in 1 .. n, k - 1 \in D PROVE k \in D
      <3>1. /\ n - (k - 1) \in 1 .. n /\ n - k \in 0 .. n /\ (n - (k - 1)) - 1 = n - k
            /\ p[n - (k - 1)] <= WordModulus
        BY <1>1, <2>5
      <3>2. p[n - (k - 1)] = 256 * p[n - k] /\ p[n - k] \in Nat /\ WordModulus \in Nat
        BY <1>1, <1>3, <2>3, <3>1
      <3>3. p[n - k] <= WordModulus
        BY <3>1, <3>2
      <3> QED
        BY <3>3
    <2> HIDE DEF D
    <2>6. 0 .. n \subseteq D
      BY <1>1, <2>4, <2>5, BoundedInduction
    <2>7. ASSUME NEW k \in 0 .. n PROVE p[k] <= WordModulus
      <3>1. n - k \in 0 .. n /\ n - (n - k) = k
        BY <1>1
      <3> QED
        BY <2>6, <3>1 DEF D
    <2> QED
      BY <2>3, <2>7
  <1>5. WordModulus \in Nat \ {0, 1} /\ WordModulus = 2 * (WordModulus \div 2)
    <2>1. n \in 1 .. n /\ n - 1 \in 0 .. n
      BY <1>1
    <2>2. WordModulus = 256 * p[n - 1] /\ p[n - 1] \in Nat /\ p[n - 1] >= 1
      BY <1>3, <1>4, <2>1
    <2> QED
      BY <2>2
  <1>6. PICK r : Rests(r, v) /\ Word(v) = [i \in 1 .. n |-> r[n - i] % 256]
    BY WordIs
  <1>7. Word(v) \in Bytes /\ Len(Word(v)) = n /\ \A i \in 1 .. n : Word(v)[i] = r[n - i] % 256 /\ Word(v)[i] \in Byte
    <2>1. \A i \in 1 .. n : r[n - i] \in Int
      <3>1. \A i \in 1 .. n : n - i \in 0 .. n
        BY <1>1
      <3> QED
        BY <1>6, <3>1 DEF Rests
    <2>2. \A i \in 1 .. n : r[n - i] % 256 \in Byte
      BY <2>1 DEF Byte
    <2>3. Word(v) \in [1 .. n -> Byte]
      BY <1>6, <2>2
    <2>4. Word(v) \in Seq(Byte)
      BY <1>1, <2>3, SeqDef
    <2>5. Len(Word(v)) = n
      BY <1>1, <2>3, <2>4, LenProperties
    <2> QED
      BY <1>6, <2>2, <2>4, <2>5 DEF Bytes
  <1>8. PICK acc \in [0 .. n -> Nat] :
          /\ acc[0] = 0 /\ acc[n] = ReadWord(Word(v))
          /\ \A k \in 1 .. n : acc[k] = NextByte(acc[k - 1], Word(v)[k])
    BY <1>7, WordTrace
  <1>m. WordModulus <= Modulus /\ Modulus \in Nat
    BY HeaderAssumption, ModulusIs DEF HeaderAssumption
  <1> HIDE DEF n
  <1>n. n = WordSize
    BY DEF n
  <1>9. ASSUME NEW k \in 1 .. n, acc[k - 1] < p[k - 1]
        PROVE  acc[k] = 256 * acc[k - 1] + (r[n - k] % 256) /\ acc[k] < p[k]
    <2>1. k - 1 \in 0 .. n /\ k \in 0 .. n
      BY <1>1
    <2>2. acc[k - 1] \in Nat /\ p[k] = 256 * p[k - 1] /\ p[k - 1] \in Nat /\ p[k] <= WordModulus
          /\ Word(v)[k] \in Byte /\ Word(v)[k] = r[n - k] % 256
      BY <1>3, <1>4, <1>7, <1>8, <2>1
    <2>3. 256 * acc[k - 1] < Modulus
      BY <1>5, <1>9, <1>m, <2>2
    <2> DEFINE byte == Word(v)[k]
    <2>4. acc[k] = NextByte(acc[k - 1], byte) /\ byte \in Byte /\ byte \in 0 .. 255 /\ byte = r[n - k] % 256
      BY <1>8, <2>2 DEF Byte
    <2> HIDE DEF byte
    <2>5. acc[k] = 256 * acc[k - 1] + byte
      BY <2>2, <2>3, <2>4, NextByteIs
    <2>6. acc[k] < p[k]
      <3>1. acc[k - 1] \in Nat /\ p[k - 1] \in Nat /\ p[k] = 256 * p[k - 1] /\ byte \in 0 .. 255
            /\ acc[k] = 256 * acc[k - 1] + byte /\ acc[k - 1] < p[k - 1]
        BY <1>9, <2>2, <2>4, <2>5
      <3> DEFINE a == acc[k - 1]
                 q == p[k - 1]
                 x == acc[k]
                 y == p[k]
      <3>2. a \in Nat /\ q \in Nat /\ y = 256 * q /\ byte \in 0 .. 255 /\ x = 256 * a + byte /\ a < q
        BY <3>1
      <3> HIDE DEF a, q, x, y
      <3>3. x < y
        BY <3>2
      <3> QED
        BY <3>3 DEF x, y
    <2> QED
      BY <2>4, <2>5, <2>6
  <1>10. n \in 0 .. n /\ \A k \in 0 .. n : r[k] \in Int /\ acc[k] \in Nat
    <2>1. r \in [0 .. n -> Int]
      BY <1>6, <1>n DEF Rests
    <2> QED
      BY <1>1, <2>1
  <1>11. \A k \in 1 .. n : r[n - k] = 256 * r[n - (k - 1)] + (r[n - k] % 256)
    <2> SUFFICES ASSUME NEW k \in 1 .. n PROVE r[n - k] = 256 * r[n - (k - 1)] + (r[n - k] % 256)
      OBVIOUS
    <2>1. n - (k - 1) \in 1 .. n /\ (n - (k - 1)) - 1 = n - k /\ n - k \in 0 .. n
      BY <1>1
    <2>2. r[n - (k - 1)] = r[n - k] \div 256
      BY <1>6, <2>1 DEF Rests, n
    <2>3. r[n - k] \in Int
      BY <1>10, <2>1
    <2> QED
      BY <2>2, <2>3
  <1> DEFINE Plus(k) == IF r[n] = 0 THEN 0 ELSE p[k]
  <1>12. ASSUME r[n] \in {0, -1} PROVE acc[n] = v + Plus(n)
    <2> DEFINE S == {k \in Nat : k <= n /\ acc[k] < p[k] /\ acc[k] = r[n - k] + Plus(k)}
    <2>1. 0 \in S
      <3>0. n - 0 = n /\ acc[0] = 0 /\ p[0] = 1
        BY <1>1, <1>3, <1>8
      <3>1. r[n] + Plus(0) = 0
        <4>1. CASE r[n] = 0
          BY <4>1
        <4>2. CASE r[n] = -1
          BY <3>0, <4>2
        <4> QED
          BY <1>12, <4>1, <4>2
      <3> QED
        BY <1>1, <3>0, <3>1
    <2>2. ASSUME NEW k \in 1 .. n, k - 1 \in S PROVE k \in S
      <3>1. acc[k - 1] < p[k - 1] /\ acc[k - 1] = r[n - (k - 1)] + Plus(k - 1)
        BY <2>2
      <3>2. acc[k] = 256 * acc[k - 1] + (r[n - k] % 256) /\ acc[k] < p[k]
        BY <1>9, <3>1
      <3>3. n - k \in 0 .. n /\ n - (k - 1) \in 0 .. n /\ k - 1 \in 0 .. n
        BY <1>1
      <3>4. r[n - k] \in Int /\ r[n - (k - 1)] \in Int /\ acc[k - 1] \in Nat /\ p[k - 1] \in Nat
        BY <1>3, <1>10, <3>3
      <3>5. p[k] = 256 * p[k - 1]
        BY <1>3
      <3>6. Plus(k) = 256 * Plus(k - 1) /\ Plus(k - 1) \in Nat
        BY <3>4, <3>5
      <3>7. r[n - k] = 256 * r[n - (k - 1)] + (r[n - k] % 256) /\ r[n - k] % 256 \in Int
        BY <1>11, <3>4
      <3> DEFINE b == r[n - k] % 256
                 x == r[n - (k - 1)]
                 u == Plus(k - 1)
      <3>8. x \in Int /\ u \in Nat /\ b \in Int /\ acc[k - 1] = x + u /\ acc[k] = 256 * acc[k - 1] + b
            /\ r[n - k] = 256 * x + b /\ Plus(k) = 256 * u
        BY <3>1, <3>2, <3>4, <3>6, <3>7
      <3> HIDE DEF Plus, b, x, u
      <3>9. acc[k] = r[n - k] + Plus(k)
        BY <3>8
      <3> QED
        BY <3>2, <3>9
    <2> HIDE DEF S, Plus
    <2>3. n \in S
      <3>1. 0 .. n \subseteq S
        BY <1>1, <2>1, <2>2, BoundedInduction
      <3> QED
        BY <1>10, <3>1
    <2>4. acc[n] = r[n - n] + Plus(n) /\ n - n = 0 /\ r[0] = v
      BY <1>1, <1>6, <2>3 DEF S, Rests
    <2> QED
      BY <2>4
  <1>13. v \in 0 .. WordModulus - 1 => r[n] = 0
    BY <1>5, <1>6, RestIs DEF n
  <1>14. v \in -WordModulus .. -1 => r[n] = -1
    BY <1>5, <1>6, RestIs DEF n
  <1>15. ASSUME v \in UnsignedWord PROVE ReadWord(Word(v)) = v
    <2>1. r[n] = 0
      BY <1>13, <1>15 DEF UnsignedWord
    <2> QED
      BY <1>3, <1>5, <1>8, <1>12, <2>1
  <1>16. ASSUME v \in -WordModulus .. -1 PROVE ReadWord(Word(v)) = v + WordModulus
    <2>1. r[n] = -1
      BY <1>14, <1>16
    <2> QED
      BY <1>3, <1>5, <1>8, <1>12, <2>1
  <1> QED
    BY <1>5, <1>15, <1>16

----------------------------------------------------------------------------
(* The fields of the header, in the order in which they follow each other:  *)
(* two times, the order of doubles, the memory, four counts, the rest.      *)
Starts ==
  <<OffsStartTime, OffsStartTime + WordSize, OffsEndian, OffsMemUsed,
    OffsNumScopes, OffsNumScopes + WordSize, OffsNumScopes + 2 * WordSize, OffsNumScopes + 3 * WordSize,
    OffsTimescale, OffsVersion, OffsDate, OffsFiletype, OffsTimezero>>
Sizes == <<WordSize, WordSize, WordSize, WordSize, WordSize, WordSize, WordSize, WordSize,
           1, VersionSize, DateSize, 1, WordSize>>
Filling(t) ==
  <<Word(t.times[1]), Word(t.times[2]), EndTest, Word(t.mem),
    Word(t.counts[1]), Word(t.counts[2]), Word(t.counts[3]), Word(t.counts[4]),
    <<TimescaleByte(t.timescale)>>, Text(t.version, VersionSize), Text(t.date, DateSize),
    <<t.filetype>>, Word(t.timezero)>>

(* What stands at an offset; and what every field of the header is to show. *)
Shows(bytes, offs, s) == \A i \in 1 .. Len(s) : bytes[offs + i] = s[i]
FieldsShown == \A k \in 1 .. 13 : Shows(file, Starts[k], Filling(told)[k])

(* They follow each other without a gap.                                    *)
LEMMA LayoutIs ==
  /\ \A k \in 1 .. 13 : Starts[k] \in Nat /\ Sizes[k] \in Nat
  /\ \A k \in 1 .. 12 : Starts[k + 1] = Starts[k] + Sizes[k]
  /\ Starts[1] = 1 + WordSize /\ Starts[13] + Sizes[13] = HeaderLength /\ HeaderLength \in Nat
  <1>1. WordSize \in Nat /\ VersionSize \in Nat /\ DateSize \in Nat
    BY HeaderAssumption DEF HeaderAssumption
  <1>2. \A k \in 1 .. 13 : k \in {1, 2, 3, 4, 5, 6, 7, 8, 9, 10, 11, 12, 13}
    OBVIOUS
  <1>3. \A k \in 1 .. 12 : k \in {1, 2, 3, 4, 5, 6, 7, 8, 9, 10, 11, 12}
    OBVIOUS
  <1> USE DEF OffsStartTime, OffsEndian, OffsMemUsed, OffsNumScopes, OffsTimescale, OffsVersion,
              OffsDate, OffsFiletype, OffsTimezero, HeaderLength
  <1>4. \A k \in 1 .. 13 : Starts[k] \in Nat /\ Sizes[k] \in Nat
    BY <1>1, <1>2 DEF Starts, Sizes
  <1>5. \A k \in 1 .. 12 : Starts[k + 1] = Starts[k] + Sizes[k]
    BY <1>1, <1>3 DEF Starts, Sizes
  <1> QED
    BY <1>1, <1>4, <1>5 DEF Starts, Sizes

(* The fields do not overlap, and are inside the header.                    *)
LEMMA FieldsApart ==
  /\ \A j, k \in 1 .. 13 : j < k => Starts[j] + Sizes[j] <= Starts[k]
  /\ \A k \in 1 .. 13 : Starts[k] + Sizes[k] <= HeaderLength
  <1> DEFINE S == {d \in Nat : \A j \in 1 .. 13 : j + d <= 12 => Starts[j] + Sizes[j] <= Starts[j + d + 1]}
  <1>1. 0 \in S
    <2>1. \A j \in 1 .. 13 : j + 0 <= 12 => j \in 1 .. 12 /\ j + 0 + 1 = j + 1
      OBVIOUS
    <2> QED
      BY <2>1, LayoutIs
  <1>2. ASSUME NEW d \in 1 .. 12, d - 1 \in S PROVE d \in S
    <2> SUFFICES ASSUME NEW j \in 1 .. 13, j + d <= 12 PROVE Starts[j] + Sizes[j] <= Starts[j + d + 1]
      OBVIOUS
    <2>1. j + (d - 1) <= 12 /\ j + (d - 1) + 1 = j + d /\ j + d \in 1 .. 12 /\ j + d \in 1 .. 13 /\ j + d + 1 \in 1 .. 13
      BY <1>2
    <2>2. Starts[j] + Sizes[j] <= Starts[j + d]
      BY <1>2, <2>1
    <2>3. Starts[j + d + 1] = Starts[j + d] + Sizes[j + d]
      BY <2>1, LayoutIs
    <2>4. Starts[j] \in Nat /\ Sizes[j] \in Nat /\ Starts[j + d] \in Nat /\ Sizes[j + d] \in Nat
      BY <2>1, LayoutIs
    <2> QED
      BY <2>2, <2>3, <2>4
  <1> HIDE DEF S
  <1>3. 0 .. 12 \subseteq S
    BY <1>1, <1>2, BoundedInduction
  <1>4. ASSUME NEW j \in 1 .. 13, NEW k \in 1 .. 13, j < k PROVE Starts[j] + Sizes[j] <= Starts[k]
    <2>1. (k - j) - 1 \in 0 .. 12 /\ j + ((k - j) - 1) <= 12 /\ j + ((k - j) - 1) + 1 = k
      BY <1>4
    <2> QED
      BY <1>3, <2>1 DEF S
  <1>5. ASSUME NEW k \in 1 .. 13 PROVE Starts[k] + Sizes[k] <= HeaderLength
    <2>1. CASE k = 13
      BY <2>1, LayoutIs
    <2>2. CASE k # 13
      <3>1. Starts[k] + Sizes[k] <= Starts[13]
        BY <1>4, <2>2
      <3>2. Starts[k] \in Nat /\ Sizes[k] \in Nat /\ Starts[13] \in Nat /\ Sizes[13] \in Nat
        BY LayoutIs
      <3> QED
        BY <3>1, <3>2, LayoutIs
    <2> QED
      BY <2>1, <2>2
  <1> QED
    BY <1>4, <1>5

(* What fills a field has its size.                                         *)
LEMMA FillingFits ==
  ASSUME NEW t
  PROVE  \A k \in 1 .. 13 : Long(Filling(t)[k], Sizes[k])
  <1>1. VersionSize \in Nat /\ DateSize \in Nat
    BY HeaderAssumption DEF HeaderAssumption
  <1>2. \A v : Long(Word(v), WordSize) /\ Long(<<v>>, 1) /\ Long(EndTest, WordSize)
    BY FieldSizes, Zenon
  <1>3. \A v : Long(Text(v, VersionSize), VersionSize) /\ Long(Text(v, DateSize), DateSize)
    BY <1>1, FieldSizes, Zenon
  <1>4. \A k \in 1 .. 13 : k \in {1, 2, 3, 4, 5, 6, 7, 8, 9, 10, 11, 12, 13}
    OBVIOUS
  <1> DEFINE f == Filling(t)
  <1>5. /\ Long(f[1], Sizes[1]) /\ Long(f[2], Sizes[2]) /\ Long(f[3], Sizes[3]) /\ Long(f[4], Sizes[4])
        /\ Long(f[5], Sizes[5]) /\ Long(f[6], Sizes[6]) /\ Long(f[7], Sizes[7]) /\ Long(f[8], Sizes[8])
        /\ Long(f[9], Sizes[9]) /\ Long(f[10], Sizes[10]) /\ Long(f[11], Sizes[11])
        /\ Long(f[12], Sizes[12]) /\ Long(f[13], Sizes[13])
    <2>1. /\ f[1] = Word(t.times[1]) /\ f[2] = Word(t.times[2]) /\ f[3] = EndTest /\ f[4] = Word(t.mem)
          /\ f[5] = Word(t.counts[1]) /\ f[6] = Word(t.counts[2]) /\ f[7] = Word(t.counts[3]) /\ f[8] = Word(t.counts[4])
          /\ f[9] = <<TimescaleByte(t.timescale)>> /\ f[10] = Text(t.version, VersionSize)
          /\ f[11] = Text(t.date, DateSize) /\ f[12] = <<t.filetype>> /\ f[13] = Word(t.timezero)
      BY DEF Filling
    <2>2. /\ Sizes[1] = WordSize /\ Sizes[2] = WordSize /\ Sizes[3] = WordSize /\ Sizes[4] = WordSize
          /\ Sizes[5] = WordSize /\ Sizes[6] = WordSize /\ Sizes[7] = WordSize /\ Sizes[8] = WordSize
          /\ Sizes[9] = 1 /\ Sizes[10] = VersionSize /\ Sizes[11] = DateSize /\ Sizes[12] = 1 /\ Sizes[13] = WordSize
      BY DEF Sizes
    <2> QED
      BY <1>2, <1>3, <2>1, <2>2, Zenon
  <1> HIDE DEF f
  <1> QED
    BY <1>4, <1>5 DEF f

(* A part of the file shows what was written there last.                    *)
LEMMA OverShows ==
  ASSUME NEW bytes, NEW new, NEW offs \in Nat, Sequence(bytes), Sequence(new),
         offs + Len(new) <= Len(bytes)
  PROVE  /\ Sequence(Over(bytes, offs, new)) /\ Len(Over(bytes, offs, new)) = Len(bytes)
         /\ Shows(Over(bytes, offs, new), offs, new)
         /\ \A o \in Nat : \A s :
              /\ Sequence(s) /\ o + Len(s) <= Len(bytes) /\ Shows(bytes, o, s)
              /\ o + Len(s) <= offs \/ offs + Len(new) <= o
              => Shows(Over(bytes, offs, new), o, s)
  <1> DEFINE over == Over(bytes, offs, new)
             n == Len(bytes)
             m == Len(new)
  <1>1. n \in Nat /\ m \in Nat /\ offs + m <= n /\ (IF offs + m > n THEN offs + m ELSE n) = n
    BY DEF Sequence
  <1>2. \A i \in 1 .. n : over[i] = IF i \in offs + 1 .. offs + m THEN new[i - offs] ELSE bytes[i]
    BY <1>1 DEF Over
  <1>3. Sequence(over) /\ Len(over) = n
    BY Overwritten
  <1> HIDE DEF over
  <1>4. Shows(over, offs, new)
    <2> SUFFICES ASSUME NEW i \in 1 .. m PROVE over[offs + i] = new[i]
      BY DEF Shows
    <2>1. offs + i \in 1 .. n /\ offs + i \in offs + 1 .. offs + m /\ (offs + i) - offs = i
      BY <1>1
    <2> QED
      BY <1>2, <2>1
  <1>5. ASSUME NEW o \in Nat, NEW s, Sequence(s), o + Len(s) <= n, Shows(bytes, o, s),
               o + Len(s) <= offs \/ offs + m <= o
        PROVE  Shows(over, o, s)
    <2> SUFFICES ASSUME NEW i \in 1 .. Len(s) PROVE over[o + i] = s[i]
      BY DEF Shows
    <2>1. Len(s) \in Nat
      BY <1>5 DEF Sequence
    <2>2. o + i \in 1 .. n /\ o + i \notin offs + 1 .. offs + m
      BY <1>1, <1>5, <2>1
    <2>3. bytes[o + i] = s[i]
      BY <1>5 DEF Shows
    <2> QED
      BY <1>2, <2>2, <2>3
  <1> QED
    BY <1>3, <1>4, <1>5 DEF over

(* What stands in a file stands there when something is appended.           *)
LEMMA AppendShows ==
  ASSUME NEW bytes, NEW new, NEW r, Sequence(bytes), Appends(r, bytes, new)
  PROVE  /\ \A o \in Nat : \A s : Sequence(s) /\ o + Len(s) <= Len(bytes) /\ Shows(bytes, o, s) => Shows(r, o, s)
         /\ Shows(r, Len(bytes), new)
  <1>1. Shows(r, Len(bytes), new)
    BY DEF Shows, Appends
  <1>2. ASSUME NEW o \in Nat, NEW s, Sequence(s), o + Len(s) <= Len(bytes), Shows(bytes, o, s)
        PROVE  Shows(r, o, s)
    <2> SUFFICES ASSUME NEW i \in 1 .. Len(s) PROVE r[o + i] = s[i]
      BY DEF Shows
    <2>1. Len(s) \in Nat /\ Len(bytes) \in Nat
      BY <1>2 DEF Sequence
    <2>2. o + i \in 1 .. Len(bytes)
      BY <1>2, <2>1
    <2> QED
      BY <1>2, <2>2 DEF Shows, Appends
  <1> QED
    BY <1>1, <1>2

(* Two strings one behind the other, each of them in its place.             *)
LEMMA BothShow ==
  ASSUME NEW bytes, NEW offs \in Nat, NEW s, NEW t, Sequence(s), Sequence(t), Shows(bytes, offs, s \o t)
  PROVE  Shows(bytes, offs, s) /\ Shows(bytes, offs + Len(s), t)
  <1>1. Appends(s \o t, s, t)
    BY Concatenated
  <1>2. Len(s) \in Nat /\ Len(t) \in Nat /\ Len(s \o t) = Len(s) + Len(t)
    BY <1>1 DEF Appends, Sequence
  <1>3. ASSUME NEW i \in 1 .. Len(s) PROVE bytes[offs + i] = s[i]
    <2>1. i \in 1 .. Len(s \o t)
      BY <1>2
    <2> QED
      BY <1>1, <2>1 DEF Shows, Appends
  <1>4. ASSUME NEW i \in 1 .. Len(t) PROVE bytes[(offs + Len(s)) + i] = t[i]
    <2>1. Len(s) + i \in 1 .. Len(s \o t) /\ (offs + Len(s)) + i = offs + (Len(s) + i)
      BY <1>2
    <2>2. bytes[offs + (Len(s) + i)] = (s \o t)[Len(s) + i]
      BY <2>1 DEF Shows
    <2> QED
      BY <1>1, <2>1, <2>2 DEF Appends
  <1> QED
    BY <1>3, <1>4 DEF Shows

(* What stands at an offset is what is read there.                          *)
LEMMA ShownIsRead ==
  ASSUME NEW bytes, NEW offs \in Nat, NEW s, Sequence(s), Shows(bytes, offs, s)
  PROVE  SubSeq(bytes, offs + 1, offs + Len(s)) = s
  <1> DEFINE n == Len(s)
             sub == SubSeq(bytes, offs + 1, offs + n)
  <1>1. n \in Nat /\ s = [i \in 1 .. n |-> s[i]]
    BY DEF Sequence
  <1>2. sub = [i \in 1 .. (1 + (offs + n) - (offs + 1)) |-> bytes[i + (offs + 1) - 1]]
    BY <1>1, SMT
  <1>3. 1 + (offs + n) - (offs + 1) = n /\ \A i \in 1 .. n : i + (offs + 1) - 1 = offs + i
    BY <1>1
  <1>4. \A i \in 1 .. n : bytes[offs + i] = s[i]
    BY DEF Shows
  <1> HIDE DEF sub, n
  <1>5. sub = [i \in 1 .. n |-> s[i]]
    BY <1>2, <1>3, <1>4
  <1> QED
    BY <1>1, <1>5 DEF sub, n

(* What the setters and close may be told.                                  *)
Told ==
  [version : CString, date : CString, timescale : -128 .. 127, filetype : Nat,
   timezero : -(WordModulus \div 2) .. (WordModulus \div 2) - 1,
   times : UnsignedWord \X UnsignedWord,
   counts : UnsignedWord \X UnsignedWord \X UnsignedWord \X UnsignedWord, mem : UnsignedWord]
ToldType == told \in Told
FieldsInv == HeaderInv /\ FieldsShown /\ ToldType

(* The first k fields are written.                                          *)
Written(bytes, k, t) ==
  /\ Sequence(bytes) /\ Len(bytes) = IF k = 13 THEN HeaderLength ELSE Starts[k + 1]
  /\ \A i \in 1 .. k : Shows(bytes, Starts[i], Filling(t)[i])
(* One field more.                                                          *)
LEMMA OneMoreWritten ==
  ASSUME NEW bytes, NEW t, NEW k \in 1 .. 13, Written(bytes, k - 1, t)
  PROVE  Written(bytes \o Filling(t)[k], k, t)
  <1> DEFINE new == Filling(t)[k]
             r == bytes \o new
  <1>0. k - 1 # 13 /\ (k - 1) + 1 = k /\ \A i \in 1 .. k - 1 : i \in 1 .. 13 /\ i < k
    OBVIOUS
  <1>1. Sequence(bytes) /\ Len(bytes) = Starts[k] /\ \A i \in 1 .. k - 1 : Shows(bytes, Starts[i], Filling(t)[i])
    BY <1>0, Zenon DEF Written
  <1>2. Sequence(new) /\ Len(new) = Sizes[k]
    BY FillingFits, Zenon DEF Long
  <1> HIDE DEF new
  <1>3. Appends(r, bytes, new)
    BY <1>1, <1>2, Concatenated
  <1> HIDE DEF r
  <1>4. Sequence(r) /\ Len(r) = IF k = 13 THEN HeaderLength ELSE Starts[k + 1]
    <2>1. Sequence(r) /\ Len(r) = Starts[k] + Sizes[k]
      BY <1>1, <1>2, <1>3, Zenon DEF Appends
    <2>2. k # 13 => k \in 1 .. 12
      OBVIOUS
    <2> QED
      BY <2>1, <2>2, LayoutIs, Zenon
  <1>5. ASSUME NEW i \in 1 .. k PROVE Shows(r, Starts[i], Filling(t)[i])
    <2>1. CASE i = k
      <3>1. Shows(r, Len(bytes), new)
        BY <1>1, <1>3, AppendShows, Zenon
      <3> QED
        BY <1>1, <2>1, <3>1, Zenon DEF new
    <2>2. CASE i # k
      <3>1. i \in 1 .. k - 1 /\ i \in 1 .. 13
        BY <2>2
      <3>2. Sequence(Filling(t)[i]) /\ Len(Filling(t)[i]) = Sizes[i]
        BY <3>1, FillingFits, Zenon DEF Long
      <3>3. Starts[i] \in Nat /\ Starts[i] + Len(Filling(t)[i]) <= Len(bytes)
        BY <1>0, <1>1, <3>1, <3>2, LayoutIs, FieldsApart, Zenon
      <3> QED
        BY <1>1, <1>3, <3>1, <3>2, <3>3, AppendShows, Zenon
    <2> QED
      BY <2>1, <2>2
  <1> QED
    BY <1>4, <1>5, Zenon DEF Written, r, new

(* What fstWriterCreate is told, and writes.                                *)
Fresh(mem) ==
  [version |-> DefaultVersion, date |-> DefaultDate, timescale |-> -9, filetype |-> 0, timezero |-> 0,
   times |-> <<0, 0>>, counts |-> <<0, 0, 0, 0>>, mem |-> mem]
(* It is as long as the offsets say, and shows what was told.               *)
LEMMA HeaderWritten ==
  ASSUME NEW mem
  PROVE  Written(EmitHdrBytes(mem), 13, Fresh(mem))
  <1> DEFINE t == Fresh(mem)
             f == Filling(t)
             s0 == <<FST_BL_HDR>> \o Word(HeaderLength - 1)
             s1 == s0 \o f[1]
             s2 == s1 \o f[2]
             s3 == s2 \o f[3]
             s4 == s3 \o f[4]
             s5 == s4 \o f[5]
             s6 == s5 \o f[6]
             s7 == s6 \o f[7]
             s8 == s7 \o f[8]
             s9 == s8 \o f[9]
             s10 == s9 \o f[10]
             s11 == s10 \o f[11]
             s12 == s11 \o f[12]
             s13 == s12 \o f[13]
  <1>1. EmitHdrBytes(mem) = s13
    <2>1. /\ f[1] = Word(0) /\ f[2] = Word(0) /\ f[3] = EndTest /\ f[4] = Word(mem)
          /\ f[5] = Word(0) /\ f[6] = Word(0) /\ f[7] = Word(0) /\ f[8] = Word(0)
          /\ f[9] = <<TimescaleByte(-9)>> /\ f[10] = Text(DefaultVersion, VersionSize)
          /\ f[11] = Text(DefaultDate, DateSize) /\ f[12] = <<0>> /\ f[13] = Word(0)
      BY DEF Filling, Fresh
    <2> HIDE DEF f
    <2> QED
      BY <2>1, Zenon DEF EmitHdrBytes
  <1>2. Written(s0, 0, t)
    <2>1. Long(s0, 1 + WordSize)
      BY FieldSizes, Extended, Zenon
    <2>2. Starts[0 + 1] = 1 + WordSize
      BY LayoutIs
    <2> QED
      BY <2>1, <2>2 DEF Written, Long
  <1> HIDE DEF t, s0
  <1>3. \A k \in 1 .. 13 : \A bytes : Written(bytes, k - 1, t) => Written(bytes \o f[k], k, t)
    BY OneMoreWritten
  <1> HIDE DEF f
  <1>4. /\ \A bytes : Written(bytes, 0, t) => Written(bytes \o f[1], 1, t)
        /\ \A bytes : Written(bytes, 1, t) => Written(bytes \o f[2], 2, t)
        /\ \A bytes : Written(bytes, 2, t) => Written(bytes \o f[3], 3, t)
        /\ \A bytes : Written(bytes, 3, t) => Written(bytes \o f[4], 4, t)
        /\ \A bytes : Written(bytes, 4, t) => Written(bytes \o f[5], 5, t)
        /\ \A bytes : Written(bytes, 5, t) => Written(bytes \o f[6], 6, t)
        /\ \A bytes : Written(bytes, 6, t) => Written(bytes \o f[7], 7, t)
        /\ \A bytes : Written(bytes, 7, t) => Written(bytes \o f[8], 8, t)
        /\ \A bytes : Written(bytes, 8, t) => Written(bytes \o f[9], 9, t)
        /\ \A bytes : Written(bytes, 9, t) => Written(bytes \o f[10], 10, t)
        /\ \A bytes : Written(bytes, 10, t) => Written(bytes \o f[11], 11, t)
        /\ \A bytes : Written(bytes, 11, t) => Written(bytes \o f[12], 12, t)
        /\ \A bytes : Written(bytes, 12, t) => Written(bytes \o f[13], 13, t)
    <2>1. /\ 0 = 1 - 1 /\ 1 = 2 - 1 /\ 2 = 3 - 1 /\ 3 = 4 - 1 /\ 4 = 5 - 1 /\ 5 = 6 - 1 /\ 6 = 7 - 1
          /\ 7 = 8 - 1 /\ 8 = 9 - 1 /\ 9 = 10 - 1 /\ 10 = 11 - 1 /\ 11 = 12 - 1 /\ 12 = 13 - 1
          /\ {1, 2, 3, 4, 5, 6, 7, 8, 9, 10, 11, 12, 13} \subseteq 1 .. 13
      OBVIOUS
    <2> QED
      BY <1>3, <2>1, Zenon
  <1>5. Written(s4, 4, t)
    BY <1>2, <1>4, Zenon
  <1> HIDE DEF s4
  <1>6. Written(s8, 8, t)
    BY <1>4, <1>5, Zenon
  <1> HIDE DEF s8
  <1>7. Written(s13, 13, t)
    BY <1>4, <1>6, Zenon
  <1> HIDE DEF s13
  <1> QED
    BY <1>1, <1>7, Zenon DEF t

(* The fields, and the place of the handle, in the beginning.               *)
LEMMA HeaderStart == HeaderInit => FieldsInv
  <1> SUFFICES ASSUME HeaderInit PROVE FieldsInv
    OBVIOUS
  <1>1. told = Fresh(1) /\ file = EmitHdrBytes(1)
    BY Zenon DEF HeaderInit, Fresh
  <1>2. Written(file, 13, told)
    BY <1>1, HeaderWritten, Zenon
  <1>3. FieldsShown
    BY <1>2, Zenon DEF Written, FieldsShown
  <1>4. Sequence(file) /\ Len(file) = HeaderLength /\ HeaderLength \in Nat
    BY <1>2, LayoutIs, Zenon DEF Written
  <1>5. Sequence(blocks) /\ Len(blocks) = 0
    BY DEF HeaderInit, Sequence
  <1>6. HeaderInv
    BY <1>4, <1>5 DEF HeaderInit, HeaderInv, BlocksBehind
  <1>7. ToldType
    <2>1. DefaultVersion \in CString /\ DefaultDate \in CString
      BY HeaderAssumption DEF HeaderAssumption
    <2>2. WordModulus \in Nat \ {0, 1} /\ WordModulus = 2 * (WordModulus \div 2)
      BY WordIsRead
    <2>3. 0 \in UnsignedWord /\ 1 \in UnsignedWord /\ 0 \in -(WordModulus \div 2) .. (WordModulus \div 2) - 1
      BY <2>2 DEF UnsignedWord
    <2> QED
      BY <1>1, <2>1, <2>3 DEF Fresh, ToldType, Told
  <1> QED
    BY <1>3, <1>6, <1>7 DEF FieldsInv

(* A setter's field is inside the header, and it brings the handle back.    *)
LEMMA SetterKeeps ==
  ASSUME HeaderInv, NEW offs \in Nat, NEW new, NEW n, Long(new, n), offs + n <= HeaderLength,
         Patch(offs, new), UNCHANGED blocks
  PROVE  HeaderInv'
  <1>1. Sequence(new) /\ offs + Len(new) <= HeaderLength
    BY DEF Long
  <1> QED
    BY <1>1, PatchKeeps, Zenon DEF HeaderInv, Patch

LEMMA SettersKeep ==
  ASSUME HeaderInv,
         \/ \E s \in HeaderTexts : SetDate(s) \/ SetVersion(s)
         \/ \E filetype \in FileTypes : SetFileType(filetype)
         \/ \E ts \in TimescaleExps : SetTimescale(ts)
         \/ \E tim \in Timezeros : SetTimezero(tim)
  PROVE  HeaderInv'
  <1>1. ASSUME NEW s \in HeaderTexts, SetDate(s) PROVE HeaderInv'
    BY <1>1, Offsets, FieldSizes, SetterKeeps, Zenon DEF SetDate
  <1>2. ASSUME NEW s \in HeaderTexts, SetVersion(s) PROVE HeaderInv'
    BY <1>2, Offsets, FieldSizes, SetterKeeps, Zenon DEF SetVersion
  <1>3. ASSUME NEW filetype \in FileTypes, SetFileType(filetype) PROVE HeaderInv'
    <2>1. CASE filetype <= FST_FT_MAX
      BY <1>3, <2>1, Offsets, FieldSizes, SetterKeeps, Zenon DEF SetFileType
    <2>2. CASE ~(filetype <= FST_FT_MAX)
      BY <1>3, <2>2 DEF SetFileType, HeaderInv, BlocksBehind, Sequence
    <2> QED
      BY <2>1, <2>2
  <1>4. ASSUME NEW ts \in TimescaleExps, SetTimescale(ts) PROVE HeaderInv'
    BY <1>4, Offsets, FieldSizes, SetterKeeps, Zenon DEF SetTimescale
  <1>5. ASSUME NEW tim \in Timezeros, SetTimezero(tim) PROVE HeaderInv'
    BY <1>5, Offsets, FieldSizes, SetterKeeps, Zenon DEF SetTimezero
  <1> QED
    BY <1>1, <1>2, <1>3, <1>4, <1>5

LEMMA BlockKeeps ==
  ASSUME HeaderInv, EmitBlock
  PROVE  HeaderInv'
  <1> DEFINE new == <<255, patches>>
             n == Len(file)
             m == Len(blocks)
  <1>1. Sequence(new) /\ Len(new) = 2
    BY DEF Sequence
  <1>2. /\ Sequence(file) /\ Sequence(blocks) /\ n \in Nat /\ m \in Nat /\ HeaderLength \in Nat
        /\ n = HeaderLength + m /\ position = n
        /\ \A i \in 1 .. m : file[HeaderLength + i] = blocks[i]
    BY Offsets DEF HeaderInv, BlocksBehind, Sequence
  <1>3. file' = Over(file, Len(file), new) /\ blocks' = blocks \o new /\ position' = n + 2
    BY <1>2 DEF EmitBlock
  <1> HIDE DEF new
  <1>4. /\ Sequence(file') /\ Len(file') = n + 2
        /\ \A i \in 1 .. n : file'[i] = file[i]
        /\ \A i \in 1 .. 2 : file'[n + i] = new[i]
    <2>0. Sequence(file) /\ Sequence(new)
      BY <1>1, <1>2
    <2>1. Appends(file', file, new)
      BY <1>3, <2>0, Appended, Zenon
    <2> QED
      BY <2>1, <1>1 DEF Appends
  <1>5. /\ Sequence(blocks') /\ Len(blocks') = m + 2
        /\ \A i \in 1 .. m : blocks'[i] = blocks[i]
        /\ \A i \in 1 .. 2 : blocks'[m + i] = new[i]
    <2>0. Sequence(blocks) /\ Sequence(new)
      BY <1>1, <1>2
    <2>1. Appends(blocks', blocks, new)
      BY <1>3, <2>0, Concatenated, Zenon
    <2> QED
      BY <2>1, <1>1 DEF Appends
  <1> HIDE DEF n, m
  <1>6. ASSUME NEW i \in 1 .. m + 2 PROVE file'[HeaderLength + i] = blocks'[i]
    <2>1. CASE i <= m
      <3>1. HeaderLength + i \in 1 .. n /\ i \in 1 .. m
        BY <1>2, <2>1
      <3> QED
        BY <3>1, <1>2, <1>4, <1>5
    <2>2. CASE i > m
      <3>1. /\ i - m \in 1 .. 2 /\ HeaderLength + i = n + (i - m) /\ i = m + (i - m)
        BY <1>2, <2>2
      <3> QED
        BY <3>1, <1>4, <1>5
    <2> QED
      BY <1>2, <2>1, <2>2
  <1> QED
    <2>1. Len(file') = HeaderLength + Len(blocks') /\ position' = Len(file')
      BY <1>2, <1>3, <1>4, <1>5
    <2>2. \A i \in 1 .. Len(blocks') : file'[HeaderLength + i] = blocks'[i]
      BY <1>5, <1>6
    <2>3. Sequence(file') /\ Sequence(blocks')
      BY <1>4, <1>5, Zenon
    <2> QED
      BY <2>1, <2>2, <2>3, Zenon DEF HeaderInv, BlocksBehind

LEMMA CloseKeeps ==
  ASSUME HeaderInv, NEW times, NEW counts, NEW native, CloseHeader(times, counts, native)
  PROVE  HeaderInv'
  <1> DEFINE ts == Word(times[1]) \o Word(times[2])
             c2 == Word(counts[1]) \o Word(counts[2])
             c3 == c2 \o Word(counts[3])
             c4 == c3 \o Word(counts[4])
             timed == Over(file, OffsStartTime, ts)
  <1>1. Long(ts, WordSize + WordSize)
    BY FieldSizes, Extended, Zenon
  <1>2. Long(c2, WordSize + WordSize)
    BY FieldSizes, Extended, Zenon
  <1>3. Long(c3, WordSize + WordSize + WordSize)
    <2> HIDE DEF c2
    <2> QED BY <1>2, FieldSizes, Extended, Zenon
  <1>4. Long(c4, WordSize + WordSize + WordSize + WordSize)
    <2> HIDE DEF c3
    <2> QED BY <1>3, FieldSizes, Extended, Zenon
  <1>5. file' = Over(timed, OffsNumScopes, c4) /\ UNCHANGED <<blocks, position>>
    BY DEF CloseHeader
  <1> HIDE DEF ts, c4
  <1>6. /\ Sequence(file) /\ Sequence(blocks) /\ Len(blocks) \in Nat /\ HeaderLength \in Nat
        /\ Len(file) = HeaderLength + Len(blocks) /\ position = Len(file)
        /\ \A i \in 1 .. Len(blocks) : file[HeaderLength + i] = blocks[i]
    BY Offsets DEF HeaderInv, BlocksBehind, Sequence
  <1>s. Len(ts) = WordSize + WordSize /\ Len(c4) = WordSize + WordSize + WordSize + WordSize
    BY <1>1, <1>4, Zenon DEF Long
  <1>t. OffsStartTime \in Nat /\ Sequence(ts) /\ OffsStartTime + Len(ts) <= HeaderLength
    <2>1. OffsStartTime + (WordSize + WordSize) <= HeaderLength
      BY Offsets
    <2> QED
      BY <1>1, <1>s, <2>1, Offsets, Zenon DEF Long
  <1>c. OffsNumScopes \in Nat /\ Sequence(c4) /\ OffsNumScopes + Len(c4) <= HeaderLength
    <2>1. OffsNumScopes + (WordSize + WordSize + WordSize + WordSize) <= HeaderLength
      BY Offsets
    <2> QED
      BY <1>4, <1>s, <2>1, Offsets, Zenon DEF Long
  <1>7. /\ Sequence(timed) /\ Len(timed) = Len(file)
        /\ \A i \in 1 .. Len(file) : i > OffsStartTime + Len(ts) => timed[i] = file[i]
    <2>1. OffsStartTime + Len(ts) <= Len(file)
      BY <1>t, <1>6 DEF Sequence
    <2> QED
      BY <1>t, <1>6, <2>1, Overwritten, Zenon
  <1> HIDE DEF timed
  <1>8. /\ Sequence(file') /\ Len(file') = Len(timed)
        /\ \A i \in 1 .. Len(timed) : i > OffsNumScopes + Len(c4) => file'[i] = timed[i]
    <2>1. OffsNumScopes + Len(c4) <= Len(timed)
      BY <1>c, <1>6, <1>7 DEF Sequence
    <2> QED
      BY <1>c, <1>5, <1>7, <2>1, Overwritten, Zenon
  <1>9. ASSUME NEW i \in 1 .. Len(blocks) PROVE file'[HeaderLength + i] = blocks[i]
    <2>1. /\ HeaderLength + i \in 1 .. Len(file)
          /\ HeaderLength + i > OffsStartTime + Len(ts) /\ HeaderLength + i > OffsNumScopes + Len(c4)
      BY <1>t, <1>c, <1>6 DEF Sequence
    <2> QED
      BY <2>1, <1>6, <1>7, <1>8
  <1> QED
    BY <1>5, <1>6, <1>7, <1>8, <1>9 DEF HeaderInv, BlocksBehind

LEMMA BehindIsBlocks == HeaderInv => BlocksStay
  <1> SUFFICES ASSUME HeaderInv PROVE BlocksStay
    OBVIOUS
  <1> DEFINE m == Len(blocks)
             sub == SubSeq(file, HeaderLength + 1, Len(file))
  <1>1. /\ Sequence(file) /\ blocks = [i \in 1 .. m |-> blocks[i]] /\ m \in Nat /\ HeaderLength \in Nat
        /\ Len(file) = HeaderLength + m
        /\ \A i \in 1 .. m : file[HeaderLength + i] = blocks[i]
    BY Offsets DEF HeaderInv, BlocksBehind, Sequence
  <1>2. sub = [i \in 1 .. m |-> file[HeaderLength + i]]
    <2>1. sub = [i \in 1 .. (1 + Len(file) - (HeaderLength + 1)) |-> file[i + (HeaderLength + 1) - 1]]
      BY <1>1, SMT
    <2>2. 1 + Len(file) - (HeaderLength + 1) = m
      BY <1>1
    <2>3. \A i \in 1 .. m : i + (HeaderLength + 1) - 1 = HeaderLength + i
      BY <1>1
    <2> QED
      BY <2>1, <2>2, <2>3
  <1> HIDE DEF m, sub
  <1>3. sub = blocks
    BY <1>1, <1>2
  <1> QED
    BY <1>3 DEF sub, BlocksStay

----------------------------------------------------------------------------
(* Of what is told, a setter changes one field of the last five.            *)
LEMMA FillingStays ==
  ASSUME NEW t, NEW u, NEW j \in 9 .. 13,
         t.times = u.times, t.mem = u.mem, t.counts = u.counts,
         j # 9 => t.timescale = u.timescale,
         j # 10 => t.version = u.version,
         j # 11 => t.date = u.date,
         j # 12 => t.filetype = u.filetype,
         j # 13 => t.timezero = u.timezero
  PROVE  \A k \in 1 .. 13 : k # j => Filling(t)[k] = Filling(u)[k]
  <1>1. \A k \in 1 .. 13 : k \in {1, 2, 3, 4, 5, 6, 7, 8, 9, 10, 11, 12, 13}
    OBVIOUS
  <1> QED
    BY <1>1 DEF Filling

(* Writing over the fields from one to another leaves the others.           *)
LEMMA OthersShown ==
  ASSUME NEW bytes, Sequence(bytes), HeaderLength <= Len(bytes),
         NEW j \in 1 .. 13, NEW m \in 1 .. 13, j <= m, NEW new, Sequence(new),
         Starts[j] + Len(new) = Starts[m] + Sizes[m]
  PROVE  /\ Sequence(Over(bytes, Starts[j], new)) /\ Len(Over(bytes, Starts[j], new)) = Len(bytes)
         /\ Shows(Over(bytes, Starts[j], new), Starts[j], new)
         /\ \A k \in 1 .. 13 : \A s :
              (k < j \/ m < k) /\ Long(s, Sizes[k]) /\ Shows(bytes, Starts[k], s)
              => Shows(Over(bytes, Starts[j], new), Starts[k], s)
  <1>0. \A k \in 1 .. 13 : Starts[k] \in Nat /\ Sizes[k] \in Nat /\ Starts[k] + Sizes[k] <= HeaderLength
    BY LayoutIs, FieldsApart, Zenon
  <1>1. HeaderLength \in Nat /\ Len(bytes) \in Nat /\ Len(new) \in Nat
    BY LayoutIs, Zenon DEF Sequence
  <1>2. Starts[j] \in Nat /\ Starts[j] + Len(new) <= Len(bytes)
    <2>1. /\ Starts[j] \in Nat /\ Starts[m] \in Nat /\ Sizes[m] \in Nat
          /\ Starts[m] + Sizes[m] <= HeaderLength
      BY <1>0, Zenon
    <2> QED
      BY <1>1, <2>1
  <1>3. /\ Sequence(Over(bytes, Starts[j], new)) /\ Len(Over(bytes, Starts[j], new)) = Len(bytes)
        /\ Shows(Over(bytes, Starts[j], new), Starts[j], new)
        /\ \A o \in Nat : \A s :
             /\ Sequence(s) /\ o + Len(s) <= Len(bytes) /\ Shows(bytes, o, s)
             /\ o + Len(s) <= Starts[j] \/ Starts[j] + Len(new) <= o
             => Shows(Over(bytes, Starts[j], new), o, s)
    BY <1>2, OverShows, Zenon
  <1>4. ASSUME NEW k \in 1 .. 13, NEW s, k < j \/ m < k, Long(s, Sizes[k]), Shows(bytes, Starts[k], s)
        PROVE  Shows(Over(bytes, Starts[j], new), Starts[k], s)
    <2>1. Sequence(s) /\ Len(s) = Sizes[k]
      BY <1>4, Zenon DEF Long
    <2>2. Starts[k] \in Nat /\ Starts[k] + Len(s) <= Len(bytes)
      <3>1. Starts[k] \in Nat /\ Sizes[k] \in Nat /\ Starts[k] + Sizes[k] <= HeaderLength
        BY <1>0, Zenon
      <3> QED
        BY <1>1, <2>1, <3>1
    <2>3. Starts[k] + Len(s) <= Starts[j] \/ Starts[j] + Len(new) <= Starts[k]
      <3>1. CASE k < j
        BY <2>1, <3>1, FieldsApart, Zenon
      <3>2. CASE m < k
        BY <3>2, FieldsApart, Zenon
      <3> QED
        BY <1>4, <3>1, <3>2
    <2> QED
      BY <1>3, <1>4, <2>1, <2>2, <2>3, Zenon
  <1> QED
    BY <1>3, <1>4, Zenon

(* Writing a field anew.                                                    *)
LEMMA PatchShows ==
  ASSUME HeaderInv, FieldsShown, NEW j \in 1 .. 13, NEW new, new = Filling(told')[j],
         file' = Over(file, Starts[j], new),
         \A k \in 1 .. 13 : k # j => Filling(told')[k] = Filling(told)[k]
  PROVE  FieldsShown'
  <1>1. Sequence(file) /\ HeaderLength <= Len(file)
    <2>1. Len(blocks) \in Nat /\ HeaderLength \in Nat
      BY Offsets DEF HeaderInv, BlocksBehind, Sequence
    <2> QED
      BY <2>1 DEF HeaderInv, BlocksBehind
  <1>2. j \in Nat /\ j <= j /\ Sequence(new) /\ Starts[j] + Len(new) = Starts[j] + Sizes[j]
    <2>1. Long(new, Sizes[j])
      BY FillingFits
    <2> QED
      BY <2>1 DEF Long
  <1>3. /\ Shows(file', Starts[j], new)
        /\ \A k \in 1 .. 13 : \A s :
             (k < j \/ j < k) /\ Long(s, Sizes[k]) /\ Shows(file, Starts[k], s)
             => Shows(file', Starts[k], s)
    BY <1>1, <1>2, OthersShown, Zenon
  <1>4. ASSUME NEW k \in 1 .. 13 PROVE Shows(file', Starts[k], Filling(told')[k])
    <2>1. CASE k = j
      BY <1>3, <2>1
    <2>2. CASE k # j
      <3>1. (k < j \/ j < k) /\ Filling(told')[k] = Filling(told)[k]
        BY <2>2
      <3>2. Long(Filling(told)[k], Sizes[k])
        BY FillingFits
      <3>3. Shows(file, Starts[k], Filling(told)[k])
        BY DEF FieldsShown
      <3> QED
        BY <1>3, <3>1, <3>2, <3>3, Zenon
    <2> QED
      BY <2>1, <2>2
  <1> QED
    BY <1>4 DEF FieldsShown

(* Each setter writes the field that it tells.                              *)
LEMMA ToldSetters ==
  ASSUME ToldType,
         \/ \E s \in HeaderTexts : SetDate(s) \/ SetVersion(s)
         \/ \E filetype \in FileTypes : SetFileType(filetype)
         \/ \E ts \in TimescaleExps : SetTimescale(ts)
         \/ \E tim \in Timezeros : SetTimezero(tim)
  PROVE  FieldsShown /\ HeaderInv => FieldsShown' 
  <1> SUFFICES ASSUME FieldsShown, HeaderInv PROVE FieldsShown'
    OBVIOUS
  <1>0. /\ Starts[9] = OffsTimescale /\ Starts[10] = OffsVersion /\ Starts[11] = OffsDate
        /\ Starts[12] = OffsFiletype /\ Starts[13] = OffsTimezero
    BY DEF Starts
  <1>t. \A t : /\ Filling(t)[9] = <<TimescaleByte(t.timescale)>> /\ Filling(t)[10] = Text(t.version, VersionSize)
               /\ Filling(t)[11] = Text(t.date, DateSize) /\ Filling(t)[12] = <<t.filetype>>
               /\ Filling(t)[13] = Word(t.timezero)
    BY DEF Filling
  <1>1. ASSUME NEW s \in HeaderTexts, SetDate(s) PROVE FieldsShown'
    <2>1. \A k \in 1 .. 13 : k # 11 => Filling(told')[k] = Filling(told)[k]
      BY <1>1, FillingStays DEF SetDate, ToldType, Told
    <2>2. told'.date = s
      BY <1>1 DEF SetDate, ToldType, Told
    <2>3. file' = Over(file, Starts[11], Text(s, DateSize)) /\ Text(s, DateSize) = Filling(told')[11]
      BY <1>0, <1>1, <1>t, <2>2, Zenon DEF SetDate, Patch
    <2> QED
      BY <2>1, <2>3, PatchShows
  <1>2. ASSUME NEW s \in HeaderTexts, SetVersion(s) PROVE FieldsShown'
    <2>1. \A k \in 1 .. 13 : k # 10 => Filling(told')[k] = Filling(told)[k]
      BY <1>2, FillingStays DEF SetVersion, ToldType, Told
    <2>2. told'.version = s
      BY <1>2 DEF SetVersion, ToldType, Told
    <2>3. file' = Over(file, Starts[10], Text(s, VersionSize)) /\ Text(s, VersionSize) = Filling(told')[10]
      BY <1>0, <1>2, <1>t, <2>2, Zenon DEF SetVersion, Patch
    <2> QED
      BY <2>1, <2>3, PatchShows
  <1>3. ASSUME NEW filetype \in FileTypes, SetFileType(filetype) PROVE FieldsShown'
    <2>1. CASE filetype <= FST_FT_MAX
      <3>0. told' = [told EXCEPT !.filetype = filetype] /\ file' = Over(file, OffsFiletype, <<filetype>>)
        BY <1>3, <2>1, Zenon DEF SetFileType, Patch
      <3>1. \A k \in 1 .. 13 : k # 12 => Filling(told')[k] = Filling(told)[k]
        BY <3>0, FillingStays DEF ToldType, Told
      <3>2. told'.filetype = filetype
        BY <3>0 DEF ToldType, Told
      <3>3. file' = Over(file, Starts[12], <<filetype>>) /\ <<filetype>> = Filling(told')[12]
        BY <1>0, <1>t, <3>0, <3>2, Zenon
      <3> QED
        BY <3>1, <3>3, PatchShows
    <2>2. CASE ~(filetype <= FST_FT_MAX)
      <3>1. file' = file /\ told' = told
        BY <1>3, <2>2, Zenon DEF SetFileType
      <3> QED
        BY <3>1, Zenon DEF FieldsShown, Shows
    <2> QED
      BY <2>1, <2>2
  <1>4. ASSUME NEW ts \in TimescaleExps, SetTimescale(ts) PROVE FieldsShown'
    <2>1. \A k \in 1 .. 13 : k # 9 => Filling(told')[k] = Filling(told)[k]
      BY <1>4, FillingStays DEF SetTimescale, ToldType, Told
    <2>2. told'.timescale = ts
      BY <1>4 DEF SetTimescale, ToldType, Told
    <2>3. file' = Over(file, Starts[9], <<TimescaleByte(ts)>>) /\ <<TimescaleByte(ts)>> = Filling(told')[9]
      BY <1>0, <1>4, <1>t, <2>2, Zenon DEF SetTimescale, Patch
    <2> QED
      BY <2>1, <2>3, PatchShows
  <1>5. ASSUME NEW tim \in Timezeros, SetTimezero(tim) PROVE FieldsShown'
    <2>1. \A k \in 1 .. 13 : k # 13 => Filling(told')[k] = Filling(told)[k]
      BY <1>5, FillingStays DEF SetTimezero, ToldType, Told
    <2>2. told'.timezero = tim
      BY <1>5 DEF SetTimezero, ToldType, Told
    <2>3. file' = Over(file, Starts[13], Word(tim)) /\ Word(tim) = Filling(told')[13]
      BY <1>0, <1>5, <1>t, <2>2, Zenon DEF SetTimezero, Patch
    <2> QED
      BY <2>1, <2>3, PatchShows
  <1> QED
    BY <1>1, <1>2, <1>3, <1>4, <1>5

(* The types of what is told are kept.                                      *)
LEMMA ToldKept ==
  ASSUME ToldType, HeaderNext
  PROVE  ToldType'
  <1>0. /\ HeaderTexts \subseteq CString /\ TimescaleExps \subseteq -128 .. 127 /\ FileTypes \subseteq Nat
        /\ Timezeros \subseteq -(WordModulus \div 2) .. (WordModulus \div 2) - 1
        /\ Closings \subseteq [times : UnsignedWord \X UnsignedWord,
                               counts : UnsignedWord \X UnsignedWord \X UnsignedWord \X UnsignedWord]
    BY HeaderAssumption DEF HeaderAssumption
  <1>1. ASSUME NEW s \in HeaderTexts, SetDate(s) \/ SetVersion(s) PROVE ToldType'
    BY <1>0, <1>1 DEF SetDate, SetVersion, ToldType, Told
  <1>2. ASSUME NEW filetype \in FileTypes, SetFileType(filetype) PROVE ToldType'
    BY <1>0, <1>2 DEF SetFileType, ToldType, Told
  <1>3. ASSUME NEW ts \in TimescaleExps, SetTimescale(ts) PROVE ToldType'
    BY <1>0, <1>3 DEF SetTimescale, ToldType, Told
  <1>4. ASSUME NEW tim \in Timezeros, SetTimezero(tim) PROVE ToldType'
    BY <1>0, <1>4 DEF SetTimezero, ToldType, Told
  <1>5. ASSUME EmitBlock PROVE ToldType'
    BY <1>5 DEF EmitBlock, ToldType, Told
  <1>6. ASSUME NEW c \in Closings, NEW native \in BOOLEAN, CloseHeader(c.times, c.counts, native) PROVE ToldType'
    BY <1>0, <1>6 DEF CloseHeader, ToldType, Told
  <1> QED
    BY <1>1, <1>2, <1>3, <1>4, <1>5, <1>6, Zenon DEF HeaderNext

(* A block is written behind the fields.                                    *)
LEMMA BlockShows ==
  ASSUME HeaderInv, FieldsShown, EmitBlock
  PROVE  FieldsShown'
  <1> DEFINE new == <<255, patches>>
  <1>1. Sequence(new) /\ Sequence(file) /\ HeaderLength <= Len(file) /\ HeaderLength \in Nat /\ Len(file) \in Nat
    <2>1. Len(blocks) \in Nat /\ HeaderLength \in Nat
      BY Offsets DEF HeaderInv, BlocksBehind, Sequence
    <2> QED
      BY <2>1 DEF HeaderInv, BlocksBehind, Sequence
  <1>2. file' = Over(file, Len(file), new) /\ told' = told
    BY DEF EmitBlock, HeaderInv
  <1> HIDE DEF new
  <1>3. Appends(file', file, new)
    BY <1>1, <1>2, Appended, Zenon
  <1>4. ASSUME NEW k \in 1 .. 13 PROVE Shows(file', Starts[k], Filling(told)[k])
    <2>1. Sequence(Filling(told)[k]) /\ Len(Filling(told)[k]) = Sizes[k]
      BY FillingFits, Zenon DEF Long
    <2>2. Starts[k] \in Nat /\ Sizes[k] \in Nat /\ Starts[k] + Sizes[k] <= HeaderLength
      BY LayoutIs, FieldsApart, Zenon
    <2>3. Starts[k] + Len(Filling(told)[k]) <= Len(file)
      BY <1>1, <2>1, <2>2
    <2>4. Shows(file, Starts[k], Filling(told)[k])
      BY Zenon DEF FieldsShown
    <2> QED
      BY <1>1, <1>3, <2>1, <2>2, <2>3, <2>4, AppendShows, Zenon
  <1> QED
    BY <1>2, <1>4, Zenon DEF FieldsShown

(* Close writes the two times and the four counts, and nothing else.        *)
LEMMA CloseShows ==
  ASSUME HeaderInv, FieldsShown, ToldType, NEW times, NEW counts, NEW native,
         CloseHeader(times, counts, native)
  PROVE  FieldsShown'
  <1> DEFINE W(v) == Word(v)
             ts == W(times[1]) \o W(times[2])
             c2 == W(counts[1]) \o W(counts[2])
             c3 == c2 \o W(counts[3])
             c4 == c3 \o W(counts[4])
             timed == Over(file, Starts[1], ts)
             f == Filling(told')
  <1>0. WordSize \in Nat
    BY HeaderAssumption DEF HeaderAssumption
  <1>1. /\ Starts[1] = OffsStartTime /\ Starts[2] = OffsStartTime + WordSize
        /\ Starts[5] = OffsNumScopes /\ Starts[6] = OffsNumScopes + WordSize
        /\ Starts[7] = OffsNumScopes + 2 * WordSize /\ Starts[8] = OffsNumScopes + 3 * WordSize
        /\ Sizes[2] = WordSize /\ Sizes[8] = WordSize
    BY DEF Starts, Sizes
  <1>2. OffsStartTime \in Nat /\ OffsNumScopes \in Nat
    BY <1>0 DEF OffsStartTime, OffsNumScopes, OffsMemUsed, OffsEndian
  <1>3. /\ f[1] = W(times[1]) /\ f[2] = W(times[2]) /\ f[5] = W(counts[1]) /\ f[6] = W(counts[2])
        /\ f[7] = W(counts[3]) /\ f[8] = W(counts[4])
        /\ \A k \in {3, 4} \cup 9 .. 13 : f[k] = Filling(told)[k]
    <2>1. told' = [told EXCEPT !.times = times, !.counts = counts]
      BY Zenon DEF CloseHeader
    <2>2. /\ told'.times = times /\ told'.counts = counts /\ told'.mem = told.mem /\ told'.timescale = told.timescale
          /\ told'.version = told.version /\ told'.date = told.date /\ told'.filetype = told.filetype
          /\ told'.timezero = told.timezero
      BY <2>1 DEF ToldType, Told
    <2>3. \A k \in {3, 4} \cup 9 .. 13 : k \in {3, 4, 9, 10, 11, 12, 13}
      OBVIOUS
    <2> QED
      BY <2>2, <2>3 DEF Filling
  <1>4. file' = Over(timed, Starts[5], c4)
    BY <1>1, Zenon DEF CloseHeader
  <1>5. \A v : Long(W(v), WordSize)
    BY FieldSizes, Zenon
  <1> HIDE DEF f, W
  <1>6. Long(ts, WordSize + WordSize)
    BY <1>5, Extended, Zenon
  <1>7. Long(c2, WordSize + WordSize)
    BY <1>5, Extended, Zenon
  <1>8. Long(c3, WordSize + WordSize + WordSize)
    <2> HIDE DEF c2
    <2> QED BY <1>5, <1>7, Extended, Zenon
  <1>9. Long(c4, WordSize + WordSize + WordSize + WordSize)
    <2> HIDE DEF c3
    <2> QED BY <1>5, <1>8, Extended, Zenon
  <1>10. Sequence(file) /\ HeaderLength <= Len(file)
    <2>1. Len(blocks) \in Nat /\ HeaderLength \in Nat
      BY Offsets DEF HeaderInv, BlocksBehind, Sequence
    <2> QED
      BY <2>1 DEF HeaderInv, BlocksBehind
  <1>p. \A offs \in Nat : \A bytes : Shows(bytes, offs, ts) =>
          Shows(bytes, offs, W(times[1])) /\ Shows(bytes, offs + WordSize, W(times[2]))
    BY <1>5, BothShow, Zenon DEF Long
  <1>q. \A offs \in Nat : \A bytes : Shows(bytes, offs, c4) =>
          /\ Shows(bytes, offs, W(counts[1])) /\ Shows(bytes, offs + WordSize, W(counts[2]))
          /\ Shows(bytes, offs + (WordSize + WordSize), W(counts[3]))
          /\ Shows(bytes, offs + (WordSize + WordSize + WordSize), W(counts[4]))
    <2> SUFFICES ASSUME NEW offs \in Nat, NEW bytes, Shows(bytes, offs, c4)
                 PROVE  /\ Shows(bytes, offs, W(counts[1])) /\ Shows(bytes, offs + WordSize, W(counts[2]))
                        /\ Shows(bytes, offs + (WordSize + WordSize), W(counts[3]))
                        /\ Shows(bytes, offs + (WordSize + WordSize + WordSize), W(counts[4]))
      BY Zenon
    <2>1. Shows(bytes, offs, c3) /\ Shows(bytes, offs + (WordSize + WordSize + WordSize), W(counts[4]))
      <3> HIDE DEF c3
      <3> QED BY <1>5, <1>8, BothShow, Zenon DEF Long
    <2>2. Shows(bytes, offs, c2) /\ Shows(bytes, offs + (WordSize + WordSize), W(counts[3]))
      <3> HIDE DEF c2
      <3> QED BY <1>5, <1>7, <2>1, BothShow, Zenon DEF Long
    <2>3. Shows(bytes, offs, W(counts[1])) /\ Shows(bytes, offs + WordSize, W(counts[2]))
      BY <1>5, <2>2, BothShow, Zenon DEF Long
    <2> QED
      BY <2>1, <2>2, <2>3
  <1> HIDE DEF ts, c4
  <1>11. /\ Sequence(timed) /\ HeaderLength <= Len(timed) /\ Shows(timed, Starts[1], ts)
         /\ \A k \in 1 .. 13 : \A s :
              (k < 1 \/ 2 < k) /\ Long(s, Sizes[k]) /\ Shows(file, Starts[k], s) => Shows(timed, Starts[k], s)
    <2>1. Sequence(ts) /\ Starts[1] + Len(ts) = Starts[2] + Sizes[2]
      BY <1>0, <1>1, <1>2, <1>6 DEF Long
    <2>2. 1 \in 1 .. 13 /\ 2 \in 1 .. 13 /\ 1 <= 2
      OBVIOUS
    <2> QED
      BY <1>10, <2>1, <2>2, OthersShown, Zenon
  <1> HIDE DEF timed
  <1>12. /\ Shows(file', Starts[5], c4)
         /\ \A k \in 1 .. 13 : \A s :
              (k < 5 \/ 8 < k) /\ Long(s, Sizes[k]) /\ Shows(timed, Starts[k], s) => Shows(file', Starts[k], s)
    <2>1. Sequence(c4) /\ Starts[5] + Len(c4) = Starts[8] + Sizes[8]
      BY <1>0, <1>1, <1>2, <1>9 DEF Long
    <2>2. 5 \in 1 .. 13 /\ 8 \in 1 .. 13 /\ 5 <= 8
      OBVIOUS
    <2> QED
      BY <1>4, <1>11, <2>1, <2>2, OthersShown, Zenon
  <1>13. Shows(file', Starts[1], f[1]) /\ Shows(file', Starts[2], f[2])
    <2>1. Shows(timed, Starts[1], W(times[1])) /\ Shows(timed, Starts[2], W(times[2]))
      BY <1>1, <1>2, <1>11, <1>p, Zenon
    <2>2. Long(W(times[1]), Sizes[1]) /\ Long(W(times[2]), Sizes[2]) /\ 1 \in 1 .. 13 /\ 2 \in 1 .. 13 /\ 1 < 5 /\ 2 < 5
      BY <1>5 DEF Sizes
    <2> QED
      BY <1>3, <1>12, <2>1, <2>2, Zenon
  <1>14. /\ Shows(file', Starts[5], f[5]) /\ Shows(file', Starts[6], f[6])
         /\ Shows(file', Starts[7], f[7]) /\ Shows(file', Starts[8], f[8])
    <2>1. 2 * WordSize = WordSize + WordSize /\ 3 * WordSize = WordSize + WordSize + WordSize
      BY <1>0
    <2> QED
      BY <1>1, <1>2, <1>3, <1>12, <1>q, <2>1, Zenon
  <1>15. ASSUME NEW k \in {3, 4} \cup 9 .. 13 PROVE Shows(file', Starts[k], f[k])
    <2>1. k \in 1 .. 13 /\ 2 < k /\ (k < 5 \/ 8 < k)
      OBVIOUS
    <2>2. Long(Filling(told)[k], Sizes[k])
      BY <2>1, FillingFits, Zenon
    <2>3. Shows(file, Starts[k], Filling(told)[k])
      BY <2>1, Zenon DEF FieldsShown
    <2> QED
      BY <1>3, <1>11, <1>12, <2>1, <2>2, <2>3, Zenon
  <1>16. \A k \in 1 .. 13 : k \in {3, 4} \cup 9 .. 13 \/ k = 1 \/ k = 2 \/ k = 5 \/ k = 6 \/ k = 7 \/ k = 8
    OBVIOUS
  <1> QED
    BY <1>13, <1>14, <1>15, <1>16, Zenon DEF FieldsShown, f

----------------------------------------------------------------------------
(* What fstReaderInit makes of each kind of field.                          *)
(* A string is cut to its field, and ends where the field's zeros begin.    *)
LEMMA TextIsCut ==
  ASSUME NEW size \in Nat, NEW s \in CString, NEW bytes, NEW offs \in Nat, Shows(bytes, offs, Text(s, size))
  PROVE  ReadText(bytes, offs, size) = Cut(s, size)
  <1> DEFINE n == Len(s)
             field == SubSeq(bytes, offs + 1, offs + size)
             t == Text(s, size)
             ends == {i \in 1 .. size : field[i] = 0}
  <1>0. s \in Seq(1 .. 255) /\ \A i \in 1 .. n : s[i] \in 1 .. 255
    <2>1. s \in Seq(1 .. 255)
      BY DEF CString
    <2> QED
      BY <2>1, LenProperties, ElementOfSeq
  <1>1. n \in Nat
    BY <1>0, LenProperties
  <1>2. Sequence(t) /\ Len(t) = size /\ \A i \in 1 .. size : t[i] = IF i <= n THEN s[i] ELSE 0
    <2>1. Long(t, size)
      BY FieldSizes, Zenon
    <2> QED
      BY <2>1, Zenon DEF Long, Text
  <1>3. field = t
    BY <1>2, ShownIsRead, Zenon
  <1>4. t \in Seq(0 .. 255)
    <2> HIDE DEF t, n
    <2>1. ASSUME NEW i \in 1 .. size PROVE t[i] \in 0 .. 255
      <3>1. t[i] = IF i <= n THEN s[i] ELSE 0
        BY <1>2, Zenon
      <3>2. CASE i <= n
        <4>1. s[i] \in 1 .. 255
          BY <1>0, <1>1, <3>2
        <4> QED
          BY <3>1, <3>2, <4>1
      <3>3. CASE ~(i <= n)
        BY <3>1, <3>3
      <3> QED
        BY <3>2, <3>3
    <2>2. t \in [1 .. size -> 0 .. 255]
      BY <1>2, <2>1 DEF Sequence
    <2> QED
      BY <2>2, SeqDef
  <1> HIDE DEF t, n
  <1>5. ends = {i \in 1 .. size : i > n}
    <2>1. ASSUME NEW i \in 1 .. size PROVE field[i] = 0 <=> i > n
      <3>1. field[i] = IF i <= n THEN s[i] ELSE 0
        BY <1>2, <1>3, Zenon
      <3>2. CASE i <= n
        <4>1. s[i] \in 1 .. 255
          BY <1>0, <1>1, <3>2
        <4> QED
          BY <1>1, <3>1, <3>2, <4>1
      <3>3. CASE ~(i <= n)
        BY <1>1, <3>1, <3>3
      <3> QED
        BY <3>2, <3>3
    <2> QED
      BY <2>1
  <1>6. ReadText(bytes, offs, size) =
          IF ends = {} THEN field ELSE SubSeq(field, 1, (CHOOSE i \in ends : \A j \in ends : i <= j) - 1)
    BY Zenon DEF ReadText
  <1> HIDE DEF ends, field
  <1>n. n = Len(s)
    BY DEF n
  <1>7. CASE n < size
    <2>1. n + 1 \in ends /\ ends # {} /\ \A j \in ends : n + 1 <= j
      <3>1. \A i : i \in ends <=> i \in 1 .. size /\ i > n
        BY <1>5
      <3>2. n + 1 \in 1 .. size /\ n + 1 > n
        BY <1>1, <1>7
      <3>3. n + 1 \in ends
        BY <3>1, <3>2, Zenon
      <3>4. ASSUME NEW j \in ends PROVE n + 1 <= j
        <4>1. j \in 1 .. size /\ j > n
          BY <3>1, Zenon
        <4> QED
          BY <1>1, <4>1
      <3> QED
        BY <3>3, <3>4
    <2>2. (CHOOSE i \in ends : \A j \in ends : i <= j) = n + 1
      <3>1. \A i \in ends : i \in Nat
        BY <1>5
      <3>2. \A i \in ends : (\A j \in ends : i <= j) => i = n + 1
        BY <1>1, <2>1, <3>1
      <3> QED
        BY <2>1, <3>2
    <2>3. ReadText(bytes, offs, size) = SubSeq(t, 1, n)
      <3>1. ReadText(bytes, offs, size) = SubSeq(t, 1, (n + 1) - 1)
        BY <1>3, <1>6, <2>1, <2>2, Zenon
      <3>2. (n + 1) - 1 = n
        BY <1>1
      <3> QED
        BY <3>1, <3>2
    <2>4. SubSeq(t, 1, n) = s
      <3>1. ASSUME NEW i \in 1 .. n PROVE t[i] = s[i] /\ t[i] \in 0 .. 255
        <4>1. i \in 1 .. size /\ i <= n /\ s[i] \in 1 .. 255
          BY <1>0, <1>1, <1>7
        <4>2. t[i] = s[i]
          BY <1>2, <4>1, Zenon
        <4> QED
          BY <4>1, <4>2
      <3>2. /\ SubSeq(t, 1, n) \in Seq(0 .. 255) /\ Len(SubSeq(t, 1, n)) = n
            /\ \A i \in 1 .. n : SubSeq(t, 1, n)[i] = t[i]
        BY <1>1, <1>4, <3>1, SubSeqProperties
      <3>3. s \in Seq(0 .. 255)
        BY <1>0
      <3> QED
        BY <1>n, <3>1, <3>2, <3>3, SeqEqual
    <2>5. Cut(s, size) = s
      BY <1>1, <1>7, <1>n DEF Cut
    <2> QED
      BY <2>3, <2>4, <2>5
  <1>8. CASE ~(n < size)
    <2>1. ends = {}
      BY <1>1, <1>5, <1>8
    <2>2. ReadText(bytes, offs, size) = t
      BY <1>3, <1>6, <2>1
    <2>3. /\ SubSeq(s, 1, size) \in Seq(1 .. 255) /\ Len(SubSeq(s, 1, size)) = size
          /\ \A i \in 1 .. size : SubSeq(s, 1, size)[i] = s[i]
      <3>1. \A i \in 1 .. size : s[i] \in 1 .. 255
        BY <1>0, <1>1, <1>8
      <3> QED
        BY <1>0, <3>1, SubSeqProperties
    <2>4. SubSeq(s, 1, size) = t
      <3>1. SubSeq(s, 1, size) \in Seq(0 .. 255)
        BY <2>3
      <3>2. \A i \in 1 .. size : t[i] = s[i]
        BY <1>1, <1>2, <1>8
      <3> QED
        BY <1>2, <1>4, <2>3, <3>1, <3>2, SeqEqual
    <2>5. Cut(s, size) = SubSeq(s, 1, size)
      <3>1. CASE n = size
        <4>1. SubSeq(s, 1, n) = s
          BY <1>0, <1>n, SubSeqFull, Zenon
        <4> QED
          BY <1>n, <3>1, <4>1 DEF Cut
      <3>2. CASE n # size
        BY <1>1, <1>8, <1>n, <3>2 DEF Cut
      <3> QED
        BY <3>1, <3>2
    <2> QED
      BY <2>2, <2>4, <2>5
  <1> QED
    BY <1>7, <1>8

(* The time scale is a signed byte, the time zero a signed word.            *)
LEMMA ScaleIsRead == \A ts \in -128 .. 127 : SignedByte(TimescaleByte(ts)) = ts
  BY DEF SignedByte, TimescaleByte

LEMMA SignIsRead ==
  \A v \in -(WordModulus \div 2) .. (WordModulus \div 2) - 1 : ReadSigned(ReadWord(Word(v))) = v
  <1> SUFFICES ASSUME NEW v \in -(WordModulus \div 2) .. (WordModulus \div 2) - 1
               PROVE  ReadSigned(ReadWord(Word(v))) = v
    OBVIOUS
  <1> DEFINE half == WordModulus \div 2
             r == ReadWord(Word(v))
  <1>1. /\ WordModulus \in Nat \ {0, 1} /\ WordModulus = 2 * half /\ half \in Nat /\ v \in Int
        /\ v \in -half .. half - 1
    BY WordIsRead
  <1>2. /\ v \in UnsignedWord => r = v
        /\ v \in -WordModulus .. -1 => r = v + WordModulus
    BY <1>1, WordIsRead
  <1>3. ReadSigned(r) = IF r >= half THEN r - WordModulus ELSE r
    BY Zenon DEF ReadSigned
  <1> HIDE DEF half, r
  <1>4. CASE v >= 0
    <2>1. v \in UnsignedWord
      BY <1>1, <1>4 DEF UnsignedWord
    <2>2. r = v
      BY <1>2, <2>1
    <2> QED
      BY <1>1, <1>3, <2>2 DEF r
  <1>5. CASE v < 0
    <2>1. v \in -WordModulus .. -1
      BY <1>1, <1>5
    <2>2. r = v + WordModulus
      BY <1>2, <2>1
    <2>3. r >= half /\ r - WordModulus = v
      BY <1>1, <2>2
    <2> QED
      BY <1>3, <2>3 DEF r
  <1> QED
    BY <1>1, <1>4, <1>5

(* The bytes of the double are not their own reverse.                       *)
LEMMA OrdersDiffer == EndTest # Reverse(EndTest)
  <1>1. WordSize \in Nat /\ WordSize > 1
    BY HeaderAssumption DEF HeaderAssumption
  <1>2. Len(EndTest) = WordSize /\ EndTest[1] = 1 /\ EndTest[WordSize] = WordSize
    <2>1. Long(EndTest, WordSize)
      BY FieldSizes, Zenon
    <2> QED
      BY <1>1, <2>1 DEF EndTest, Long
  <1>3. Reverse(EndTest)[1] = EndTest[(Len(EndTest) - 1) + 1] /\ (WordSize - 1) + 1 = WordSize
    BY <1>1, <1>2 DEF Reverse
  <1> QED
    BY <1>1, <1>2, <1>3

(* What the getters return is what was told.                                *)
ReadsBack(read, native, t) ==
  /\ read.opened /\ read.double_endian_match = native
  /\ read.version = Cut(t.version, VersionSize) /\ read.date = Cut(t.date, DateSize)
  /\ read.timescale = t.timescale /\ read.filetype = t.filetype /\ read.timezero = t.timezero
  /\ read.times = t.times /\ read.counts = t.counts /\ read.mem = t.mem
  /\ read.num_alias = t.counts[2] - t.counts[3]
  /\ read.incomplete = (t.times = <<0, 0>>)
(* fstReaderInit reads back what the fields show.                           *)
LEMMA HeaderIsRead ==
  ASSUME NEW bytes, NEW t \in Told, NEW native \in BOOLEAN,
         \A k \in 1 .. 13 : Shows(bytes, Starts[k], Filling(t)[k])
  PROVE  ReadsBack(ReadHeader(bytes, native), native, t)
  <1>1. /\ t.version \in CString /\ t.date \in CString /\ t.timescale \in -128 .. 127 /\ t.filetype \in Nat
        /\ t.timezero \in -(WordModulus \div 2) .. (WordModulus \div 2) - 1
        /\ t.times[1] \in UnsignedWord /\ t.times[2] \in UnsignedWord /\ t.times = <<t.times[1], t.times[2]>>
        /\ t.counts[1] \in UnsignedWord /\ t.counts[2] \in UnsignedWord
        /\ t.counts[3] \in UnsignedWord /\ t.counts[4] \in UnsignedWord
        /\ t.counts = <<t.counts[1], t.counts[2], t.counts[3], t.counts[4]>> /\ t.mem \in UnsignedWord
    BY DEF Told
  <1>2. WordSize \in Nat /\ VersionSize \in Nat /\ DateSize \in Nat
    BY HeaderAssumption DEF HeaderAssumption
  <1>3. /\ Shows(bytes, OffsStartTime, Word(t.times[1])) /\ Shows(bytes, OffsStartTime + WordSize, Word(t.times[2]))
        /\ Shows(bytes, OffsEndian, EndTest) /\ Shows(bytes, OffsMemUsed, Word(t.mem))
        /\ Shows(bytes, OffsNumScopes, Word(t.counts[1])) /\ Shows(bytes, OffsNumScopes + WordSize, Word(t.counts[2]))
        /\ Shows(bytes, OffsNumScopes + 2 * WordSize, Word(t.counts[3]))
        /\ Shows(bytes, OffsNumScopes + 3 * WordSize, Word(t.counts[4]))
        /\ Shows(bytes, OffsTimescale, <<TimescaleByte(t.timescale)>>)
        /\ Shows(bytes, OffsVersion, Text(t.version, VersionSize)) /\ Shows(bytes, OffsDate, Text(t.date, DateSize))
        /\ Shows(bytes, OffsFiletype, <<t.filetype>>) /\ Shows(bytes, OffsTimezero, Word(t.timezero))
    <2> DEFINE f == Filling(t)
    <2>1. /\ f[1] = Word(t.times[1]) /\ f[2] = Word(t.times[2]) /\ f[3] = EndTest /\ f[4] = Word(t.mem)
          /\ f[5] = Word(t.counts[1]) /\ f[6] = Word(t.counts[2]) /\ f[7] = Word(t.counts[3]) /\ f[8] = Word(t.counts[4])
          /\ f[9] = <<TimescaleByte(t.timescale)>> /\ f[10] = Text(t.version, VersionSize)
          /\ f[11] = Text(t.date, DateSize) /\ f[12] = <<t.filetype>> /\ f[13] = Word(t.timezero)
      BY DEF Filling
    <2>2. /\ Starts[1] = OffsStartTime /\ Starts[2] = OffsStartTime + WordSize /\ Starts[3] = OffsEndian
          /\ Starts[4] = OffsMemUsed /\ Starts[5] = OffsNumScopes /\ Starts[6] = OffsNumScopes + WordSize
          /\ Starts[7] = OffsNumScopes + 2 * WordSize /\ Starts[8] = OffsNumScopes + 3 * WordSize
          /\ Starts[9] = OffsTimescale /\ Starts[10] = OffsVersion /\ Starts[11] = OffsDate
          /\ Starts[12] = OffsFiletype /\ Starts[13] = OffsTimezero
      BY DEF Starts
    <2>3. \A k \in {1, 2, 3, 4, 5, 6, 7, 8, 9, 10, 11, 12, 13} : Shows(bytes, Starts[k], f[k])
      OBVIOUS
    <2> HIDE DEF f
    <2>4. /\ Shows(bytes, Starts[1], f[1]) /\ Shows(bytes, Starts[2], f[2]) /\ Shows(bytes, Starts[3], f[3])
          /\ Shows(bytes, Starts[4], f[4]) /\ Shows(bytes, Starts[5], f[5]) /\ Shows(bytes, Starts[6], f[6])
          /\ Shows(bytes, Starts[7], f[7]) /\ Shows(bytes, Starts[8], f[8]) /\ Shows(bytes, Starts[9], f[9])
          /\ Shows(bytes, Starts[10], f[10]) /\ Shows(bytes, Starts[11], f[11]) /\ Shows(bytes, Starts[12], f[12])
          /\ Shows(bytes, Starts[13], f[13])
      BY <2>3
    <2> QED
      BY <2>1, <2>2, <2>4, Zenon
  <1>4. /\ OffsStartTime \in Nat /\ OffsStartTime + WordSize \in Nat /\ OffsEndian \in Nat /\ OffsMemUsed \in Nat
        /\ OffsNumScopes \in Nat /\ OffsNumScopes + WordSize \in Nat /\ OffsNumScopes + 2 * WordSize \in Nat
        /\ OffsNumScopes + 3 * WordSize \in Nat /\ OffsVersion \in Nat /\ OffsDate \in Nat /\ OffsTimezero \in Nat
    BY <1>2 DEF OffsStartTime, OffsEndian, OffsMemUsed, OffsNumScopes, OffsTimescale, OffsVersion, OffsDate,
                OffsFiletype, OffsTimezero
  <1>5. \A offs \in Nat : \A v : Shows(bytes, offs, Word(v)) => ReadWordAt(bytes, offs) = ReadWord(Word(v))
    <2> SUFFICES ASSUME NEW offs \in Nat, NEW v, Shows(bytes, offs, Word(v))
                 PROVE  ReadWordAt(bytes, offs) = ReadWord(Word(v))
      BY Zenon
    <2>1. Sequence(Word(v)) /\ Len(Word(v)) = WordSize
      BY FieldSizes, Zenon DEF Long
    <2>2. SubSeq(bytes, offs + 1, offs + WordSize) = Word(v)
      BY <2>1, ShownIsRead, Zenon
    <2> QED
      BY <2>2, Zenon DEF ReadWordAt
  <1>6. \A v \in UnsignedWord : ReadWord(Word(v)) = v
    BY WordIsRead DEF UnsignedWord
  <1>7. /\ ReadWordAt(bytes, OffsStartTime) = t.times[1] /\ ReadWordAt(bytes, OffsStartTime + WordSize) = t.times[2]
        /\ ReadWordAt(bytes, OffsMemUsed) = t.mem
        /\ ReadWordAt(bytes, OffsNumScopes) = t.counts[1] /\ ReadWordAt(bytes, OffsNumScopes + WordSize) = t.counts[2]
        /\ ReadWordAt(bytes, OffsNumScopes + 2 * WordSize) = t.counts[3]
        /\ ReadWordAt(bytes, OffsNumScopes + 3 * WordSize) = t.counts[4]
    BY <1>1, <1>3, <1>4, <1>5, <1>6, Zenon
  <1>8. ReadSigned(ReadWordAt(bytes, OffsTimezero)) = t.timezero
    BY <1>1, <1>3, <1>4, <1>5, SignIsRead, Zenon
  <1>9. /\ ReadText(bytes, OffsVersion, VersionSize) = Cut(t.version, VersionSize)
        /\ ReadText(bytes, OffsDate, DateSize) = Cut(t.date, DateSize)
    BY <1>1, <1>2, <1>3, <1>4, TextIsCut, Zenon
  <1>10. bytes[OffsTimescale + 1] = TimescaleByte(t.timescale) /\ bytes[OffsFiletype + 1] = t.filetype
    BY <1>3 DEF Shows
  <1>11. SubSeq(bytes, OffsEndian + 1, OffsEndian + WordSize) = EndTest
    <2>1. Sequence(EndTest) /\ Len(EndTest) = WordSize
      BY FieldSizes, Zenon DEF Long
    <2> QED
      BY <1>3, <1>4, <2>1, ShownIsRead, Zenon
  <1> DEFINE own == IF native THEN EndTest ELSE Reverse(EndTest)
             counts == [i \in 1 .. 4 |-> ReadWordAt(bytes, OffsNumScopes + (i - 1) * WordSize)]
  <1>12. ~(EndTest # own /\ Reverse(EndTest) # own) /\ (EndTest = own) = native
    BY OrdersDiffer
  <1>13. counts = t.counts
    <2>1. /\ 0 * WordSize = 0 /\ 1 * WordSize = WordSize /\ OffsNumScopes + 0 = OffsNumScopes
          /\ 1 - 1 = 0 /\ 2 - 1 = 1 /\ 3 - 1 = 2 /\ 4 - 1 = 3
      BY <1>2, <1>4
    <2>2. counts[1] = t.counts[1] /\ counts[2] = t.counts[2] /\ counts[3] = t.counts[3] /\ counts[4] = t.counts[4]
      BY <1>7, <2>1
    <2>3. DOMAIN counts = 1 .. 4
      OBVIOUS
    <2>4. counts = <<counts[1], counts[2], counts[3], counts[4]>>
      <3>1. counts = [i \in 1 .. 4 |-> counts[i]]
        OBVIOUS
      <3> HIDE DEF counts
      <3> QED
        BY <3>1
    <2> HIDE DEF counts
    <2> QED
      BY <1>1, <2>2, <2>4, Zenon
  <1> DEFINE read == [opened |-> TRUE, double_endian_match |-> EndTest = own,
                      incomplete |-> t.times[1] = 0 /\ t.times[2] = 0,
                      times |-> <<t.times[1], t.times[2]>>, mem |-> t.mem,
                      counts |-> t.counts, num_alias |-> t.counts[2] - t.counts[3],
                      timescale |-> SignedByte(TimescaleByte(t.timescale)),
                      version |-> Cut(t.version, VersionSize), date |-> Cut(t.date, DateSize),
                      filetype |-> t.filetype, timezero |-> t.timezero]
  <1>14. ReadHeader(bytes, native) = read
    BY <1>7, <1>8, <1>9, <1>10, <1>11, <1>12, <1>13, Zenon DEF ReadHeader
  <1>15. (t.times[1] = 0 /\ t.times[2] = 0) = (t.times = <<0, 0>>)
    BY <1>1
  <1>16. SignedByte(TimescaleByte(t.timescale)) = t.timescale
    BY <1>1, ScaleIsRead, Zenon
  <1> HIDE DEF own
  <1> QED
    BY <1>1, <1>12, <1>14, <1>15, <1>16 DEF ReadsBack

(* No step leaves them.                                                     *)
LEMMA HeaderKept == FieldsInv /\ HeaderReads /\ [HeaderNext]_headerVars => (FieldsInv /\ HeaderReads)'
  <1> SUFFICES ASSUME FieldsInv, HeaderReads, [HeaderNext]_headerVars PROVE (FieldsInv /\ HeaderReads)'
    OBVIOUS
  <1>1. HeaderInv /\ FieldsShown /\ ToldType
    BY DEF FieldsInv
  <1>2. CASE UNCHANGED headerVars
    <2>1. file' = file /\ position' = position /\ blocks' = blocks /\ told' = told /\ header' = header
      BY <1>2 DEF headerVars
    <2>2. HeaderInv' /\ FieldsShown' /\ ToldType'
      BY <1>1, <2>1, Zenon DEF HeaderInv, BlocksBehind, Sequence, FieldsShown, Shows, ToldType
    <2>3. HeaderReads'
      BY <2>1, Zenon DEF HeaderReads
    <2> QED
      BY <2>2, <2>3, Zenon DEF FieldsInv
  <1>3. ASSUME \/ \E s \in HeaderTexts : SetDate(s) \/ SetVersion(s)
               \/ \E filetype \in FileTypes : SetFileType(filetype)
               \/ \E ts \in TimescaleExps : SetTimescale(ts)
               \/ \E tim \in Timezeros : SetTimezero(tim)
        PROVE  (FieldsInv /\ HeaderReads)'
    <2>1. HeaderInv' /\ FieldsShown'
      BY <1>1, <1>3, SettersKeep, ToldSetters, Zenon
    <2>2. ToldType'
      BY <1>1, <1>3, ToldKept, Zenon DEF HeaderNext
    <2>3. header' = <<>>
      BY <1>3, Zenon DEF SetDate, SetVersion, SetFileType, SetTimescale, SetTimezero, PatchCall
    <2> QED
      BY <2>1, <2>2, <2>3, Zenon DEF FieldsInv, HeaderReads
  <1>4. ASSUME EmitBlock PROVE (FieldsInv /\ HeaderReads)'
    <2>1. HeaderInv' /\ FieldsShown'
      BY <1>1, <1>4, BlockKeeps, BlockShows, Zenon
    <2>2. ToldType'
      BY <1>1, <1>4, ToldKept, Zenon DEF HeaderNext
    <2>3. header' = <<>>
      BY <1>4, Zenon DEF EmitBlock, PatchCall
    <2> QED
      BY <2>1, <2>2, <2>3, Zenon DEF FieldsInv, HeaderReads
  <1>5. ASSUME NEW c \in Closings, NEW native \in BOOLEAN, CloseHeader(c.times, c.counts, native)
        PROVE  (FieldsInv /\ HeaderReads)'
    <2>1. HeaderInv' /\ FieldsShown'
      BY <1>1, <1>5, CloseKeeps, CloseShows, Zenon
    <2>2. ToldType'
      BY <1>1, <1>5, ToldKept, Zenon DEF HeaderNext
    <2>3. header' = [native |-> native, read |-> ReadHeader(file', native)]
      BY <1>5, Zenon DEF CloseHeader
    <2>4. header'.native = native /\ header'.read = ReadHeader(file', native)
      BY <2>3
    <2>5. \A k \in 1 .. 13 : Shows(file', Starts[k], Filling(told')[k])
      BY <2>1, Zenon DEF FieldsShown
    <2>6. told' \in Told
      BY <2>2, Zenon DEF ToldType
    <2>7. HeaderReads'
      <3>1. ReadsBack(header'.read, header'.native, told')
        BY <2>4, <2>5, <2>6, HeaderIsRead, Zenon
      <3> QED
        BY <3>1, Zenon DEF HeaderReads, ReadsBack
    <2> QED
      BY <2>1, <2>2, <2>7, Zenon DEF FieldsInv
  <1> QED
    BY <1>2, <1>3, <1>4, <1>5, Zenon DEF HeaderNext

(* Whatever the setters are called with, in any order and between any       *)
(* blocks, and whatever close finds, the reader returns what each field was *)
(* last set to, strings cut to their fields, and tells the two orders of    *)
(* the bytes of a double apart (fstReaderInit, the getters).                *)
THEOREM HeaderAlwaysReads == HeaderSpec => []HeaderReads
  <1>1. HeaderInit => HeaderReads
    BY DEF HeaderInit, HeaderReads
  <1> QED
    BY HeaderStart, HeaderKept, <1>1, PTL DEF HeaderSpec

(* Whatever is set, in any order, between the blocks the writer emits, and  *)
(* however long the fields are, the blocks are what was emitted: no setter  *)
(* moves the place of the next one, none and not close writes over one.     *)
THEOREM BlocksAlwaysStay == HeaderSpec => []BlocksStay
  <1>0. HeaderInit => HeaderInv
    BY HeaderStart, Zenon DEF FieldsInv
  <1>1. HeaderInv /\ [HeaderNext]_headerVars => HeaderInv'
    <2> SUFFICES ASSUME HeaderInv, [HeaderNext]_headerVars PROVE HeaderInv'
      OBVIOUS
    <2>1. CASE UNCHANGED headerVars
      BY <2>1 DEF headerVars, HeaderInv, BlocksBehind, Sequence
    <2> QED
      BY <2>1, SettersKeep, BlockKeeps, CloseKeeps, Zenon DEF HeaderNext
  <1> QED
    BY <1>0, <1>1, BehindIsBlocks, PTL DEF HeaderSpec

----------------------------------------------------------------------------
(* The states of the folds.                                                 *)
IndexEntry == [zeros : Nat, shval : Int]
EncState == [out : Seq(IndexEntry), zerocnt : Nat, prevpos : Int, prev_alias : Int]
Table == [0 .. N -> Int]
DecState == [pos : Table, len : Table, pidx : Nat, idx : Nat, pval : Int, prev_alias : Int]

EncodeStart == [out |-> <<>>, zerocnt |-> 0, prevpos |-> 0, prev_alias |-> 0]
DecodeStart(t) == [pos |-> t.pos, len |-> t.len, pidx |-> t.pidx, idx |-> 0, pval |-> 0, prev_alias |-> 0]
TablesType == [pos : Table, len : Table, pidx : Nat]

(* The fields of a reader's tables while they are decoded.                  *)
LEMMA DecStateIs ==
  ASSUME NEW r \in DecState
  PROVE  /\ r.pos \in Table /\ r.len \in Table /\ r.pidx \in Nat /\ r.idx \in Nat
         /\ r.pval \in Int /\ r.prev_alias \in Int
         /\ r = [pos |-> r.pos, len |-> r.len, pidx |-> r.pidx, idx |-> r.idx,
                 pval |-> r.pval, prev_alias |-> r.prev_alias]
         /\ \A i \in 0 .. N : r.pos[i] \in Int /\ r.len[i] \in Int
  BY DEF DecState, Table

(* What a slot without a chain makes of the encoder, and what one with.     *)
LEMMA EncodeSlotIs ==
  ASSUME NEW acc \in EncState, NEW slot \in Int
  PROVE  LET next   == EncodeSlot(acc, slot)
             before == IF acc.zerocnt > 0 THEN Append(acc.out, Run(acc.zerocnt)) ELSE acc.out
             number == IF slot > 0 THEN slot - acc.prevpos
                       ELSE IF slot # acc.prev_alias THEN slot ELSE 0
         IN /\ next \in EncState /\ before \in Seq(IndexEntry) /\ Number(number) \in IndexEntry
            /\ slot = 0 => /\ next.out = acc.out /\ next.zerocnt = acc.zerocnt + 1
                           /\ next.prevpos = acc.prevpos /\ next.prev_alias = acc.prev_alias
            /\ slot # 0 => /\ next.out = Append(before, Number(number)) /\ next.zerocnt = 0
                           /\ next.prevpos = (IF slot > 0 THEN slot ELSE acc.prevpos)
                           /\ next.prev_alias = (IF slot > 0 THEN acc.prev_alias ELSE slot)
  <1> DEFINE next   == EncodeSlot(acc, slot)
             before == IF acc.zerocnt > 0 THEN Append(acc.out, Run(acc.zerocnt)) ELSE acc.out
             number == IF slot > 0 THEN slot - acc.prevpos
                       ELSE IF slot # acc.prev_alias THEN slot ELSE 0
  <1>1. /\ acc.out \in Seq(IndexEntry) /\ acc.zerocnt \in Nat /\ acc.prevpos \in Int /\ acc.prev_alias \in Int
        /\ acc = [out |-> acc.out, zerocnt |-> acc.zerocnt, prevpos |-> acc.prevpos, prev_alias |-> acc.prev_alias]
    BY DEF EncState
  <1>2. Run(acc.zerocnt) \in IndexEntry
    BY <1>1 DEF Run, IndexEntry
  <1>3. number \in Int
    BY <1>1
  <1>4. Number(number) \in IndexEntry
    BY <1>3 DEF Number, IndexEntry
  <1>5. before \in Seq(IndexEntry)
    BY <1>1, <1>2
  <1>6. CASE slot = 0
    <2>1. next = [acc EXCEPT !.zerocnt = acc.zerocnt + 1]
      BY <1>6, Zenon DEF EncodeSlot
    <2>2. next = [out |-> acc.out, zerocnt |-> acc.zerocnt + 1, prevpos |-> acc.prevpos, prev_alias |-> acc.prev_alias]
      BY <1>1, <2>1
    <2> HIDE DEF next
    <2>3. next \in EncState
      BY <1>1, <2>2 DEF EncState
    <2> QED
      <3>1. /\ next.out = acc.out /\ next.zerocnt = acc.zerocnt + 1
            /\ next.prevpos = acc.prevpos /\ next.prev_alias = acc.prev_alias
        BY <2>2
      <3> QED
        BY <1>4, <1>5, <1>6, <2>3, <3>1, Zenon DEF next
  <1>7. CASE slot # 0
    <2>1. next = [out |-> Append(before, Number(number)), zerocnt |-> 0,
                  prevpos |-> IF slot > 0 THEN slot ELSE acc.prevpos,
                  prev_alias |-> IF slot > 0 THEN acc.prev_alias ELSE slot]
      BY <1>7, Zenon DEF EncodeSlot, NextPrev
    <2> HIDE DEF next, before, number
    <2>2. Append(before, Number(number)) \in Seq(IndexEntry)
      BY <1>4, <1>5
    <2>3. next \in EncState
      BY <1>1, <2>1, <2>2 DEF EncState
    <2> QED
      <3>1. /\ next.out = Append(before, Number(number)) /\ next.zerocnt = 0
            /\ next.prevpos = (IF slot > 0 THEN slot ELSE acc.prevpos)
            /\ next.prev_alias = (IF slot > 0 THEN acc.prev_alias ELSE slot)
        BY <2>1
      <3> QED
        BY <1>4, <1>5, <1>7, <2>3, <3>1, Zenon DEF next, before, number
  <1> QED
    BY <1>6, <1>7

(* A step of the encoder keeps its type.                                    *)
LEMMA EncodeSlotType ==
  ASSUME NEW acc \in EncState, NEW slot \in Int
  PROVE  EncodeSlot(acc, slot) \in EncState
  BY EncodeSlotIs, Zenon

(* What a run of handles without chains makes of a reader's tables.         *)
LEMMA DecodeZerosIs ==
  ASSUME NEW r \in DecState, NEW zeros \in Nat
  PROVE  LET q == DecodeZeros(r, zeros)
         IN /\ q \in DecState /\ q.idx = r.idx + zeros /\ q.len = r.len /\ q.pidx = r.pidx
            /\ q.pval = r.pval /\ q.prev_alias = r.prev_alias
            /\ \A i \in 0 .. N : q.pos[i] = IF i \in r.idx .. r.idx + zeros - 1 THEN 0 ELSE r.pos[i]
  <1> DEFINE q == DecodeZeros(r, zeros)
             pos == [i \in 0 .. N |-> IF i \in r.idx .. r.idx + zeros - 1 THEN 0 ELSE r.pos[i]]
  <1>1. q = [r EXCEPT !.pos = pos, !.idx = r.idx + zeros]
    BY Zenon DEF DecodeZeros
  <1>2. pos \in Table /\ \A i \in 0 .. N : pos[i] = IF i \in r.idx .. r.idx + zeros - 1 THEN 0 ELSE r.pos[i]
    BY DecStateIs DEF Table
  <1> HIDE DEF q, pos
  <1>3. q = [pos |-> pos, len |-> r.len, pidx |-> r.pidx, idx |-> r.idx + zeros,
             pval |-> r.pval, prev_alias |-> r.prev_alias]
    BY <1>1 DEF DecState
  <1>4. q \in DecState
    BY <1>2, <1>3, DecStateIs DEF DecState
  <1>5. /\ q.pos = pos /\ q.idx = r.idx + zeros /\ q.len = r.len /\ q.pidx = r.pidx
        /\ q.pval = r.pval /\ q.prev_alias = r.prev_alias
    BY <1>3
  <1> QED
    BY <1>2, <1>4, <1>5, Zenon DEF q

(* What a position makes of them: also the length of the chain before it.   *)
LEMMA DecodePositionIs ==
  ASSUME NEW r \in DecState, NEW shval \in Int
  PROVE  LET q == DecodePosition(r, shval)
         IN /\ q \in DecState /\ q.idx = r.idx + 1 /\ q.pidx = r.idx
            /\ q.pval = r.pval + shval /\ q.prev_alias = r.prev_alias
            /\ \A i \in 0 .. N : q.pos[i] = IF i = r.idx THEN r.pval + shval ELSE r.pos[i]
            /\ \A i \in 0 .. N : q.len[i] = IF i = r.pidx /\ r.idx # 0
                                            THEN (r.pval + shval) - q.pos[i] ELSE r.len[i]
  <1> DEFINE q == DecodePosition(r, shval)
             pval == r.pval + shval
             pos == [r.pos EXCEPT ![r.idx] = pval]
             len == IF r.idx = 0 THEN r.len ELSE [r.len EXCEPT ![r.pidx] = pval - pos[r.pidx]]
  <1>1. q = [r EXCEPT !.pval = pval, !.pos = pos, !.len = len, !.pidx = r.idx, !.idx = r.idx + 1]
    BY Zenon DEF DecodePosition
  <1>2. pval \in Int
    BY DecStateIs
  <1> HIDE DEF q, pval
  <1>3. pos \in Table /\ \A i \in 0 .. N : pos[i] = IF i = r.idx THEN pval ELSE r.pos[i]
    BY <1>2, DecStateIs DEF Table
  <1> HIDE DEF pos
  <1>4. /\ len \in Table
        /\ \A i \in 0 .. N : len[i] = IF i = r.pidx /\ r.idx # 0 THEN pval - pos[i] ELSE r.len[i]
    <2>1. CASE r.idx = 0
      BY <2>1, DecStateIs
    <2>2. CASE r.idx # 0
      <3> DEFINE l == [r.len EXCEPT ![r.pidx] = pval - pos[r.pidx]]
      <3>1. r.len \in Table /\ \A i \in 0 .. N : pos[i] \in Int
        BY <1>3, DecStateIs DEF Table
      <3>2. l = [i \in 0 .. N |-> IF i = r.pidx THEN pval - pos[r.pidx] ELSE r.len[i]]
        BY <3>1 DEF Table
      <3> HIDE DEF l
      <3>3. \A i \in 0 .. N : l[i] = IF i = r.pidx THEN pval - pos[i] ELSE r.len[i]
        BY <3>2
      <3>4. \A i \in 0 .. N : l[i] \in Int
        BY <1>2, <3>1, <3>3, DecStateIs
      <3>5. l \in Table
        BY <3>2, <3>4 DEF Table
      <3>6. len = l
        BY <2>2, Zenon DEF l
      <3> QED
        BY <2>2, <3>3, <3>5, <3>6, Zenon
    <2> QED
      BY <2>1, <2>2
  <1> HIDE DEF len
  <1>5. q = [pos |-> pos, len |-> len, pidx |-> r.idx, idx |-> r.idx + 1,
             pval |-> pval, prev_alias |-> r.prev_alias]
    BY <1>1 DEF DecState
  <1>6. q \in DecState
    BY <1>2, <1>3, <1>4, <1>5, DecStateIs DEF DecState
  <1>7. /\ q.pos = pos /\ q.len = len /\ q.idx = r.idx + 1 /\ q.pidx = r.idx
        /\ q.pval = pval /\ q.prev_alias = r.prev_alias
    BY <1>5
  <1> QED
    <2>1. \A i \in 0 .. N : q.pos[i] = IF i = r.idx THEN pval ELSE r.pos[i]
      BY <1>3, <1>7, Zenon
    <2>2. \A i \in 0 .. N : q.len[i] = IF i = r.pidx /\ r.idx # 0 THEN pval - q.pos[i] ELSE r.len[i]
      BY <1>4, <1>7, Zenon
    <2> QED
      BY <1>6, <1>7, <2>1, <2>2, Zenon DEF q, pval

(* What an alias makes of them.                                             *)
LEMMA DecodeAliasIs ==
  ASSUME NEW r \in DecState, NEW shval \in Int
  PROVE  LET q == DecodeAlias(r, shval)
             alias == IF shval < 0 THEN shval ELSE r.prev_alias
         IN /\ q \in DecState /\ q.idx = r.idx + 1 /\ q.pidx = r.pidx
            /\ q.pval = r.pval /\ q.prev_alias = alias
            /\ \A i \in 0 .. N : /\ q.pos[i] = IF i = r.idx THEN 0 ELSE r.pos[i]
                                 /\ q.len[i] = IF i = r.idx THEN alias ELSE r.len[i]
  <1> DEFINE q == DecodeAlias(r, shval)
             alias == IF shval < 0 THEN shval ELSE r.prev_alias
             pos == [r.pos EXCEPT ![r.idx] = 0]
             len == [r.len EXCEPT ![r.idx] = alias]
  <1>1. q = [r EXCEPT !.pos = pos, !.len = len, !.prev_alias = alias, !.idx = r.idx + 1]
    BY Zenon DEF DecodeAlias
  <1>2. alias \in Int
    BY DecStateIs
  <1> HIDE DEF q, alias
  <1>3. /\ pos \in Table /\ len \in Table
        /\ \A i \in 0 .. N : /\ pos[i] = IF i = r.idx THEN 0 ELSE r.pos[i]
                             /\ len[i] = IF i = r.idx THEN alias ELSE r.len[i]
    <2>1. r.pos \in Table /\ r.len \in Table
      BY DecStateIs, Zenon
    <2>3. \A i \in 0 .. N : pos[i] = IF i = r.idx THEN 0 ELSE r.pos[i]
      BY <2>1 DEF Table
    <2>4. \A i \in 0 .. N : len[i] = IF i = r.idx THEN alias ELSE r.len[i]
      BY <2>1 DEF Table
    <2>5. pos = [i \in 0 .. N |-> pos[i]] /\ len = [i \in 0 .. N |-> len[i]]
      BY <2>1 DEF Table
    <2>6. \A i \in 0 .. N : pos[i] \in Int /\ len[i] \in Int
      BY <1>2, <2>3, <2>4, DecStateIs
    <2> HIDE DEF pos, len
    <2>2. pos \in Table /\ len \in Table
      BY <2>5, <2>6 DEF Table
    <2> QED
      BY <2>2, <2>3, <2>4, Zenon
  <1> HIDE DEF pos, len
  <1>4. q = [pos |-> pos, len |-> len, pidx |-> r.pidx, idx |-> r.idx + 1,
             pval |-> r.pval, prev_alias |-> alias]
    BY <1>1 DEF DecState
  <1>5. q \in DecState
    BY <1>2, <1>3, <1>4, DecStateIs DEF DecState
  <1>6. /\ q.pos = pos /\ q.len = len /\ q.idx = r.idx + 1 /\ q.pidx = r.pidx
        /\ q.pval = r.pval /\ q.prev_alias = alias
    BY <1>4
  <1> QED
    BY <1>3, <1>5, <1>6, Zenon DEF q, alias

(* So does an entry, for the tables.                                        *)
LEMMA DecodeEntryType ==
  ASSUME NEW r \in DecState, NEW e \in IndexEntry
  PROVE  DecodeEntry(r, e) \in DecState
  <1>1. e.zeros \in Nat /\ e.shval \in Int
    BY DEF IndexEntry
  <1>2. /\ DecodeZeros(r, e.zeros) \in DecState /\ DecodePosition(r, e.shval) \in DecState
        /\ DecodeAlias(r, e.shval) \in DecState
    BY <1>1, DecodeZerosIs, DecodePositionIs, DecodeAliasIs, Zenon
  <1> QED
    BY <1>2, Zenon DEF DecodeEntry

(* What the last loop makes of the tables, at one index.                    *)
LEMMA ResolveAliasIs ==
  ASSUME NEW r \in DecState, NEW i \in 0 .. N
  PROVE  LET q == ResolveAlias(r, i)
             v32 == -r.len[i] - 1
         IN /\ q \in DecState
            /\ r.len[i] < 0 /\ r.pos[i] = 0 /\ v32 < i =>
                 /\ v32 \in 0 .. N
                 /\ \A j \in 0 .. N : /\ q.pos[j] = IF j = i THEN r.pos[v32] ELSE r.pos[j]
                                      /\ q.len[j] = IF j = i THEN r.len[v32] ELSE r.len[j]
            /\ ~(r.len[i] < 0 /\ r.pos[i] = 0 /\ v32 < i) => q = r
            /\ q.pidx = r.pidx
  <1> DEFINE q == ResolveAlias(r, i)
             v32 == -r.len[i] - 1
             taken == r.len[i] < 0 /\ r.pos[i] = 0 /\ v32 < i
  <1>1. CASE ~taken
    BY <1>1, Zenon DEF ResolveAlias
  <1>2. CASE taken
    <2> DEFINE pos == [r.pos EXCEPT ![i] = r.pos[v32]]
               len == [r.len EXCEPT ![i] = r.len[v32]]
    <2>1. v32 \in 0 .. N
      BY <1>2, DecStateIs, IndexAssumption DEF IndexAssumption
    <2>2. q = [r EXCEPT !.pos = pos, !.len = len]
      BY <1>2, Zenon DEF ResolveAlias
    <2>3. r.pos[v32] \in Int /\ r.len[v32] \in Int
      BY <2>1, DecStateIs, Zenon
    <2> HIDE DEF q, v32
    <2>4. /\ pos \in Table /\ len \in Table
          /\ \A j \in 0 .. N : /\ pos[j] = IF j = i THEN r.pos[v32] ELSE r.pos[j]
                               /\ len[j] = IF j = i THEN r.len[v32] ELSE r.len[j]
      BY <2>3, DecStateIs DEF Table
    <2> HIDE DEF pos, len
    <2>5. q = [pos |-> pos, len |-> len, pidx |-> r.pidx, idx |-> r.idx,
               pval |-> r.pval, prev_alias |-> r.prev_alias]
      BY <2>2 DEF DecState
    <2>6. q \in DecState
      BY <2>4, <2>5, DecStateIs DEF DecState
    <2>7. q.pos = pos /\ q.len = len /\ q.pidx = r.pidx
      BY <2>5
    <2> QED
      BY <1>2, <2>1, <2>4, <2>6, <2>7, Zenon DEF q, v32
  <1> QED
    BY <1>1, <1>2, Zenon

(* So does an index of the last loop.                                       *)
LEMMA ResolveAliasType ==
  ASSUME NEW r \in DecState, NEW i \in 0 .. N
  PROVE  ResolveAlias(r, i) \in DecState
  BY ResolveAliasIs, Zenon

(* The encoder, slot by slot.                                               *)
LEMMA EncodeTrace ==
  ASSUME NEW s \in Seq(Int)
  PROVE  \E acc \in [0 .. Len(s) -> EncState] :
           /\ acc[0] = EncodeStart
           /\ \A k \in 1 .. Len(s) : acc[k] = EncodeSlot(acc[k - 1], s[k])
           /\ acc[Len(s)] = FoldLeft(EncodeSlot, EncodeStart, s)
  <1> DEFINE n == Len(s)
             T == SUBSET (1 .. n)
             step == [k \in 1 .. n |-> [a \in EncState |-> EncodeSlot(a, s[k])]]
             Fits(f) == f = [t \in T |-> IF t = {} THEN EncodeStart
                                         ELSE EncodeSlot(f[t \ {Max(t)}], s[Max(t)])]
             f == CHOOSE g : Fits(g)
             acc == [k \in 0 .. n |-> f[1 .. k]]
  <1>1. n \in Nat /\ DOMAIN s = 1 .. n /\ \A k \in 1 .. n : s[k] \in Int
    OBVIOUS
  <1>2. EncodeStart \in EncState
    BY DEF EncodeStart, EncState
  <1>3. step \in [1 .. n -> [EncState -> EncState]]
    BY <1>1, EncodeSlotType
  <1>4. \A k \in 1 .. n : \A a \in EncState : step[k][a] = EncodeSlot(a, s[k])
    OBVIOUS
  <1> HIDE DEF step, n
  <1>5. PICK F \in [T -> EncState] : Folds(F, EncodeStart, step, n)
    BY <1>1, <1>2, <1>3, FoldsExist
  <1>6. \A t \in T : t # {} => Max(t) \in 1 .. n /\ t \ {Max(t)} \in T
    BY <1>1, MaxIsIn
  <1>7. \A t \in T : F[t] \in EncState
    OBVIOUS
  <1> HIDE DEF T
  <1>8. ASSUME NEW t \in T
        PROVE  (IF t = {} THEN EncodeStart ELSE step[Max(t)][F[t \ {Max(t)}]])
               = (IF t = {} THEN EncodeStart ELSE EncodeSlot(F[t \ {Max(t)}], s[Max(t)]))
    BY <1>4, <1>6, <1>7, Zenon
  <1>9. F = [t \in T |-> IF t = {} THEN EncodeStart ELSE step[Max(t)][F[t \ {Max(t)}]]]
    BY <1>5, Zenon DEF Folds, T
  <1>10. Fits(F)
    BY <1>8, <1>9, Zenon
  <1>11. Fits(f)
    BY <1>10, Zenon
  <1>12. FoldLeft(EncodeSlot, EncodeStart, s) = f[1 .. n]
    BY <1>1, Zenon DEF FoldLeft, MapThenFoldSet, T
  <1> HIDE DEF f
  <1>13. f[1 .. 0] = EncodeStart
    <2>1. {} \in T /\ 1 .. 0 = {}
      BY <1>1, FrontSets, Zenon DEF T
    <2> QED
      BY <1>11, <2>1, Zenon
  <1>14. ASSUME NEW k \in 1 .. n PROVE f[1 .. k] = EncodeSlot(f[1 .. (k - 1)], s[k])
    <2>1. 1 .. k \in T /\ 1 .. k # {} /\ Max(1 .. k) = k /\ (1 .. k) \ {k} = 1 .. (k - 1)
      BY <1>1, FrontSets, Zenon DEF T
    <2>2. f[1 .. k] = EncodeSlot(f[(1 .. k) \ {Max(1 .. k)}], s[Max(1 .. k)])
      BY <1>11, <2>1, Zenon
    <2> QED
      BY <2>1, <2>2, Zenon
  <1>15. /\ acc[0] = EncodeStart /\ acc[n] = FoldLeft(EncodeSlot, EncodeStart, s)
         /\ \A k \in 1 .. n : acc[k] = EncodeSlot(acc[k - 1], s[k])
    <2>1. 0 \in 0 .. n /\ n \in 0 .. n /\ \A k \in 1 .. n : k \in 0 .. n /\ k - 1 \in 0 .. n
      BY <1>1
    <2> QED
      BY <1>12, <1>13, <1>14, <2>1, Zenon
  <1>16. \A k \in 0 .. n : acc[k] \in EncState
    <2> HIDE DEF acc
    <2>1. \A k \in 1 .. n : acc[k - 1] \in EncState => acc[k] \in EncState
      BY <1>1, <1>15, EncodeSlotType, Zenon
    <2> QED
      BY <1>1, <1>2, <1>15, <2>1, RecursionKeeps, Zenon
  <1>17. acc \in [0 .. n -> EncState]
    BY <1>16
  <1> QED
    BY <1>15, <1>17, Zenon DEF n

(* A reader of the index, entry by entry.                                   *)
LEMMA DecodeTrace ==
  ASSUME NEW base \in DecState, NEW s \in Seq(IndexEntry)
  PROVE  \E acc \in [0 .. Len(s) -> DecState] :
           /\ acc[0] = base
           /\ \A k \in 1 .. Len(s) : acc[k] = DecodeEntry(acc[k - 1], s[k])
           /\ acc[Len(s)] = FoldLeft(DecodeEntry, base, s)
  <1> DEFINE n == Len(s)
             T == SUBSET (1 .. n)
             step == [k \in 1 .. n |-> [a \in DecState |-> DecodeEntry(a, s[k])]]
             Fits(f) == f = [t \in T |-> IF t = {} THEN base
                                         ELSE DecodeEntry(f[t \ {Max(t)}], s[Max(t)])]
             f == CHOOSE g : Fits(g)
             acc == [k \in 0 .. n |-> f[1 .. k]]
  <1>1. n \in Nat /\ DOMAIN s = 1 .. n /\ \A k \in 1 .. n : s[k] \in IndexEntry
    OBVIOUS
  <1>2. base \in DecState
    OBVIOUS
  <1>3. step \in [1 .. n -> [DecState -> DecState]]
    BY <1>1, DecodeEntryType
  <1>4. \A k \in 1 .. n : \A a \in DecState : step[k][a] = DecodeEntry(a, s[k])
    OBVIOUS
  <1> HIDE DEF step, n
  <1>5. PICK F \in [T -> DecState] : Folds(F, base, step, n)
    BY <1>1, <1>2, <1>3, FoldsExist
  <1>6. \A t \in T : t # {} => Max(t) \in 1 .. n /\ t \ {Max(t)} \in T
    BY <1>1, MaxIsIn
  <1>7. \A t \in T : F[t] \in DecState
    OBVIOUS
  <1> HIDE DEF T
  <1>8. ASSUME NEW t \in T
        PROVE  (IF t = {} THEN base ELSE step[Max(t)][F[t \ {Max(t)}]])
               = (IF t = {} THEN base ELSE DecodeEntry(F[t \ {Max(t)}], s[Max(t)]))
    BY <1>4, <1>6, <1>7, Zenon
  <1>9. F = [t \in T |-> IF t = {} THEN base ELSE step[Max(t)][F[t \ {Max(t)}]]]
    BY <1>5, Zenon DEF Folds, T
  <1>10. Fits(F)
    BY <1>8, <1>9, Zenon
  <1>11. Fits(f)
    BY <1>10, Zenon
  <1>12. FoldLeft(DecodeEntry, base, s) = f[1 .. n]
    BY <1>1, Zenon DEF FoldLeft, MapThenFoldSet, T
  <1> HIDE DEF f
  <1>13. f[1 .. 0] = base
    <2>1. {} \in T /\ 1 .. 0 = {}
      BY <1>1, FrontSets, Zenon DEF T
    <2> QED
      BY <1>11, <2>1, Zenon
  <1>14. ASSUME NEW k \in 1 .. n PROVE f[1 .. k] = DecodeEntry(f[1 .. (k - 1)], s[k])
    <2>1. 1 .. k \in T /\ 1 .. k # {} /\ Max(1 .. k) = k /\ (1 .. k) \ {k} = 1 .. (k - 1)
      BY <1>1, FrontSets, Zenon DEF T
    <2>2. f[1 .. k] = DecodeEntry(f[(1 .. k) \ {Max(1 .. k)}], s[Max(1 .. k)])
      BY <1>11, <2>1, Zenon
    <2> QED
      BY <2>1, <2>2, Zenon
  <1>15. /\ acc[0] = base /\ acc[n] = FoldLeft(DecodeEntry, base, s)
         /\ \A k \in 1 .. n : acc[k] = DecodeEntry(acc[k - 1], s[k])
    <2>1. 0 \in 0 .. n /\ n \in 0 .. n /\ \A k \in 1 .. n : k \in 0 .. n /\ k - 1 \in 0 .. n
      BY <1>1
    <2> QED
      BY <1>12, <1>13, <1>14, <2>1, Zenon
  <1>16. \A k \in 0 .. n : acc[k] \in DecState
    <2> HIDE DEF acc
    <2>1. \A k \in 1 .. n : acc[k - 1] \in DecState => acc[k] \in DecState
      BY <1>1, <1>15, DecodeEntryType, Zenon
    <2> QED
      BY <1>1, <1>2, <1>15, <2>1, RecursionKeeps, Zenon
  <1>17. acc \in [0 .. n -> DecState]
    BY <1>16
  <1> QED
    BY <1>15, <1>17, Zenon DEF n

(* The loop behind, index by index.                                         *)
LEMMA ResolveTrace ==
  ASSUME NEW base \in DecState, NEW s \in Seq(0 .. N)
  PROVE  \E acc \in [0 .. Len(s) -> DecState] :
           /\ acc[0] = base
           /\ \A k \in 1 .. Len(s) : acc[k] = ResolveAlias(acc[k - 1], s[k])
           /\ acc[Len(s)] = FoldLeft(ResolveAlias, base, s)
  <1> DEFINE n == Len(s)
             T == SUBSET (1 .. n)
             step == [k \in 1 .. n |-> [a \in DecState |-> ResolveAlias(a, s[k])]]
             Fits(f) == f = [t \in T |-> IF t = {} THEN base
                                         ELSE ResolveAlias(f[t \ {Max(t)}], s[Max(t)])]
             f == CHOOSE g : Fits(g)
             acc == [k \in 0 .. n |-> f[1 .. k]]
  <1>1. n \in Nat /\ DOMAIN s = 1 .. n /\ \A k \in 1 .. n : s[k] \in 0 .. N
    BY ElementOfSeq, LenProperties, Zenon
  <1>2. base \in DecState
    OBVIOUS
  <1>3. step \in [1 .. n -> [DecState -> DecState]]
    BY <1>1, ResolveAliasType
  <1>4. \A k \in 1 .. n : \A a \in DecState : step[k][a] = ResolveAlias(a, s[k])
    OBVIOUS
  <1> HIDE DEF step, n
  <1>5. PICK F \in [T -> DecState] : Folds(F, base, step, n)
    BY <1>1, <1>2, <1>3, FoldsExist
  <1>6. \A t \in T : t # {} => Max(t) \in 1 .. n /\ t \ {Max(t)} \in T
    BY <1>1, MaxIsIn
  <1>7. \A t \in T : F[t] \in DecState
    OBVIOUS
  <1> HIDE DEF T
  <1>8. ASSUME NEW t \in T
        PROVE  (IF t = {} THEN base ELSE step[Max(t)][F[t \ {Max(t)}]])
               = (IF t = {} THEN base ELSE ResolveAlias(F[t \ {Max(t)}], s[Max(t)]))
    BY <1>4, <1>6, <1>7, Zenon
  <1>9. F = [t \in T |-> IF t = {} THEN base ELSE step[Max(t)][F[t \ {Max(t)}]]]
    BY <1>5, Zenon DEF Folds, T
  <1>10. Fits(F)
    BY <1>8, <1>9, Zenon
  <1>11. Fits(f)
    BY <1>10, Zenon
  <1>12. FoldLeft(ResolveAlias, base, s) = f[1 .. n]
    BY <1>1, Zenon DEF FoldLeft, MapThenFoldSet, T
  <1> HIDE DEF f
  <1>13. f[1 .. 0] = base
    <2>1. {} \in T /\ 1 .. 0 = {}
      BY <1>1, FrontSets, Zenon DEF T
    <2> QED
      BY <1>11, <2>1, Zenon
  <1>14. ASSUME NEW k \in 1 .. n PROVE f[1 .. k] = ResolveAlias(f[1 .. (k - 1)], s[k])
    <2>1. 1 .. k \in T /\ 1 .. k # {} /\ Max(1 .. k) = k /\ (1 .. k) \ {k} = 1 .. (k - 1)
      BY <1>1, FrontSets, Zenon DEF T
    <2>2. f[1 .. k] = ResolveAlias(f[(1 .. k) \ {Max(1 .. k)}], s[Max(1 .. k)])
      BY <1>11, <2>1, Zenon
    <2> QED
      BY <2>1, <2>2, Zenon
  <1>15. /\ acc[0] = base /\ acc[n] = FoldLeft(ResolveAlias, base, s)
         /\ \A k \in 1 .. n : acc[k] = ResolveAlias(acc[k - 1], s[k])
    <2>1. 0 \in 0 .. n /\ n \in 0 .. n /\ \A k \in 1 .. n : k \in 0 .. n /\ k - 1 \in 0 .. n
      BY <1>1
    <2> QED
      BY <1>12, <1>13, <1>14, <2>1, Zenon
  <1>16. \A k \in 0 .. n : acc[k] \in DecState
    <2> HIDE DEF acc
    <2>1. \A k \in 1 .. n : acc[k - 1] \in DecState => acc[k] \in DecState
      BY <1>1, <1>15, ResolveAliasType, Zenon
    <2> QED
      BY <1>1, <1>2, <1>15, <2>1, RecursionKeeps, Zenon
  <1>17. acc \in [0 .. n -> DecState]
    BY <1>16
  <1> QED
    BY <1>15, <1>17, Zenon DEF n

(* One more entry is decoded into the tables of those before.               *)
LEMMA DecodeMore ==
  ASSUME NEW base \in DecState, NEW s \in Seq(IndexEntry), NEW e \in IndexEntry
  PROVE  /\ FoldLeft(DecodeEntry, base, <<>>) = base
         /\ FoldLeft(DecodeEntry, base, s) \in DecState
         /\ FoldLeft(DecodeEntry, base, Append(s, e)) = DecodeEntry(FoldLeft(DecodeEntry, base, s), e)
  <1> DEFINE n == Len(s)
             t == Append(s, e)
  <1>1. PICK f \in [0 .. n -> DecState] :
          /\ f[0] = base /\ \A k \in 1 .. n : f[k] = DecodeEntry(f[k - 1], s[k])
          /\ f[n] = FoldLeft(DecodeEntry, base, s)
    BY DecodeTrace, Zenon
  <1>2. t \in Seq(IndexEntry) /\ Len(t) = n + 1 /\ t[n + 1] = e /\ n \in Nat /\ \A k \in 1 .. n : t[k] = s[k]
    OBVIOUS
  <1> HIDE DEF t
  <1>3. PICK g \in [0 .. Len(t) -> DecState] :
          /\ g[0] = base /\ \A k \in 1 .. Len(t) : g[k] = DecodeEntry(g[k - 1], t[k])
          /\ g[Len(t)] = FoldLeft(DecodeEntry, base, t)
    BY <1>2, DecodeTrace, Zenon
  <1> HIDE DEF n
  <1>4. ASSUME NEW k \in 1 .. n, f[k - 1] = g[k - 1] PROVE f[k] = g[k]
    <2>1. k \in 1 .. Len(t)
      BY <1>2
    <2> QED
      BY <1>1, <1>2, <1>3, <1>4, <2>1, Zenon
  <1>5. Alike(f, g, n)
    BY <1>1, <1>3, <1>4, Zenon DEF Alike
  <1>6. n \in 0 .. n
    BY <1>2
  <1>7. f[n] = g[n]
    <2>1. n \in Nat
      BY <1>2
    <2>2. \A k \in 0 .. n : f[k] = g[k]
      BY <1>5, <2>1, SameRecursion
    <2> QED
      BY <1>6, <2>2, Zenon
  <1>8. g[n + 1] = DecodeEntry(g[n], e)
    <2>1. n + 1 \in 1 .. Len(t) /\ (n + 1) - 1 = n
      BY <1>2
    <2> QED
      BY <1>2, <1>3, <2>1, Zenon
  <1>9. FoldLeft(DecodeEntry, base, s) \in DecState
    <2>1. n \in 0 .. n
      BY <1>2
    <2> QED
      BY <1>1, <2>1
  <1>10. FoldLeft(DecodeEntry, base, <<>>) = base
    <2>1. <<>> \in Seq(IndexEntry) /\ Len(<<>>) = 0
      OBVIOUS
    <2>2. PICK h \in [0 .. Len(<<>>) -> DecState] :
            h[0] = base /\ h[Len(<<>>)] = FoldLeft(DecodeEntry, base, <<>>)
      BY <2>1, DecodeTrace, Zenon
    <2> QED
      BY <2>1, <2>2, Zenon
  <1> QED
    BY <1>1, <1>2, <1>3, <1>7, <1>8, <1>9, <1>10, Zenon DEF t

(* The first handle with a chain is the first one with it for itself, too.  *)
LEMMA FirstWithIs ==
  ASSUME NEW n \in 0 .. N, NEW c \in Contents(n), NEW h \in 1 .. n
  PROVE  /\ FirstWith(c, h) \in 1 .. h /\ c[FirstWith(c, h)] = c[h]
         /\ FirstWith(c, FirstWith(c, h)) = FirstWith(c, h)
  <1> DEFINE First(g, k) == g \in 1 .. k /\ c[g] = c[k] /\ \A f \in 1 .. g - 1 : c[f] # c[k]
             T == {k \in Nat : k \in 1 .. h /\ c[k] = c[h]}
  <1>0. n \in Nat /\ h \in Nat /\ h \in 1 .. h
    BY IndexAssumption DEF IndexAssumption
  <1>1. PICK g \in T : \A k \in T : g <= k
    <2>1. T \in SUBSET Nat /\ h \in T
      BY <1>0
    <2> QED
      BY <2>1, LeastElement
  <1>2. First(g, h)
    <2>1. \A f \in 1 .. g - 1 : f \in Nat /\ f \in 1 .. h /\ ~(g <= f)
      BY <1>0, <1>1
    <2> QED
      BY <1>1, <2>1
  <1>3. FirstWith(c, h) = CHOOSE k : k \in 1 .. h /\ c[k] = c[h] /\ \A f \in 1 .. k - 1 : c[f] # c[h]
    BY DEF FirstWith
  <1> DEFINE w == FirstWith(c, h)
  <1>4. First(w, h)
    BY <1>2, <1>3, Zenon
  <1>5. First(w, w)
    BY <1>0, <1>4
  <1>6. ASSUME NEW x, First(x, w) PROVE x = w
    <2>1. x \in 1 .. w /\ w \in 1 .. h /\ c[x] = c[h]
      BY <1>4, <1>6
    <2>2. x \notin 1 .. w - 1
      BY <1>4, <2>1
    <2> HIDE DEF w
    <2> QED
      BY <2>1, <2>2
  <1>7. FirstWith(c, w) = CHOOSE k : First(k, w)
    BY Zenon DEF FirstWith
  <1> HIDE DEF w
  <1>8. FirstWith(c, w) = w
    <2>1. First(FirstWith(c, w), w)
      BY <1>5, <1>7, Zenon
    <2> QED
      BY <1>6, <2>1, Zenon
  <1> QED
    BY <1>4, <1>8, Zenon DEF w

(* The bytes a handle adds to the section.                                  *)
Added(c, h) == IF Original(c, h) THEN Size(c[h]) ELSE 0
(* A handle adds the size of its chain, or nothing.                         *)
LEMMA AddedIs ==
  ASSUME NEW n \in 0 .. N, NEW c \in Contents(n), NEW h \in 1 .. n
  PROVE  /\ Added(c, h) \in Nat
         /\ c[h] # NoChain => c[h] \in Chain /\ Size(c[h]) \in Nat /\ Size(c[h]) >= 2
  <1>1. c[h] \in Chain \cup {NoChain}
    BY DEF Contents
  <1>2. \A x \in Chain : Size(x) \in Nat /\ Size(x) >= 2
    BY IndexAssumption, Zenon DEF IndexAssumption
  <1> QED
    BY <1>1, <1>2, Zenon DEF Added, Original

(* The positions, one handle after the other.                               *)
LEMMA PositionTrace ==
  ASSUME NEW n \in 0 .. N, NEW c \in Contents(n), NEW m \in 0 .. n
  PROVE  \E acc \in [0 .. m -> Nat] :
           /\ acc[0] = 1
           /\ \A k \in 1 .. m : acc[k] = acc[k - 1] + Added(c, k)
           /\ acc[m] = Position(c, m + 1)
  <1> DEFINE Step(pos, g) == IF Original(c, g) THEN pos + Size(c[g]) ELSE pos
             T == SUBSET (1 .. m)
             s == [g \in 1 .. (m + 1) - 1 |-> g]
             step == [k \in 1 .. m |-> [a \in Nat |-> a + Added(c, k)]]
             Fits(f) == f = [t \in T |-> IF t = {} THEN 1 ELSE Step(f[t \ {Max(t)}], s[Max(t)])]
             f == CHOOSE g : Fits(g)
             acc == [k \in 0 .. m |-> f[1 .. k]]
  <1>1. m \in Nat /\ (m + 1) - 1 = m /\ \A k \in 1 .. m : k \in 1 .. n
    BY IndexAssumption DEF IndexAssumption
  <1>2. DOMAIN s = 1 .. m /\ \A k \in 1 .. m : s[k] = k
    BY <1>1
  <1>3. \A k \in 1 .. m : Added(c, k) \in Nat
    BY <1>1, AddedIs, Zenon
  <1>4. step \in [1 .. m -> [Nat -> Nat]]
    BY <1>3
  <1>5. \A k \in 1 .. m : \A a \in Nat : step[k][a] = a + Added(c, k)
    OBVIOUS
  <1>6. \A k \in 1 .. m : \A a \in Nat : Step(a, s[k]) = a + Added(c, k)
    <2> TAKE k \in 1 .. m
    <2> TAKE a \in Nat
    <2> HIDE DEF s
    <2>1. s[k] = k
      BY <1>2, Zenon
    <2>2. CASE Original(c, k)
      BY <2>1, <2>2, Zenon DEF Added
    <2>3. CASE ~Original(c, k)
      <3>1. Added(c, k) = 0
        BY <2>3, Zenon DEF Added
      <3>2. Step(a, s[k]) = a
        BY <2>1, <2>3, Zenon
      <3> QED
        BY <3>1, <3>2
    <2> QED
      BY <2>2, <2>3, Zenon
  <1> HIDE DEF step, s
  <1>7. PICK F \in [T -> Nat] : Folds(F, 1, step, m)
    <2>1. 1 \in Nat
      OBVIOUS
    <2> QED
      BY <1>1, <1>4, <2>1, FoldsExist
  <1>8. \A t \in T : t # {} => Max(t) \in 1 .. m /\ t \ {Max(t)} \in T
    BY <1>1, MaxIsIn
  <1>9. \A t \in T : F[t] \in Nat
    OBVIOUS
  <1> HIDE DEF T, Step
  <1>10. ASSUME NEW t \in T
         PROVE  (IF t = {} THEN 1 ELSE step[Max(t)][F[t \ {Max(t)}]])
                = (IF t = {} THEN 1 ELSE Step(F[t \ {Max(t)}], s[Max(t)]))
    <2>1. CASE t # {}
      <3>1. Max(t) \in 1 .. m /\ F[t \ {Max(t)}] \in Nat
        BY <1>8, <1>9, <2>1, Zenon
      <3>2. step[Max(t)][F[t \ {Max(t)}]] = F[t \ {Max(t)}] + Added(c, Max(t))
        BY <1>5, <3>1, Zenon
      <3>3. Step(F[t \ {Max(t)}], s[Max(t)]) = F[t \ {Max(t)}] + Added(c, Max(t))
        BY <1>6, <3>1, Zenon
      <3> QED
        BY <3>2, <3>3, Zenon
    <2> QED
      BY <2>1, Zenon
  <1>11. F = [t \in T |-> IF t = {} THEN 1 ELSE step[Max(t)][F[t \ {Max(t)}]]]
    BY <1>7, Zenon DEF Folds, T
  <1>12. Fits(F)
    BY <1>10, <1>11, Zenon
  <1>13. Fits(f)
    BY <1>12, Zenon
  <1>14. Position(c, m + 1) = f[1 .. m]
    BY <1>2, Zenon DEF Position, FoldLeft, MapThenFoldSet, T, Step, s
  <1> HIDE DEF f
  <1>15. f[1 .. 0] = 1
    <2>1. {} \in T /\ 1 .. 0 = {}
      BY <1>1, FrontSets, Zenon DEF T
    <2> QED
      BY <1>13, <2>1, Zenon
  <1>16. ASSUME NEW k \in 1 .. m PROVE f[1 .. k] = Step(f[1 .. (k - 1)], s[k])
    <2>1. 1 .. k \in T /\ 1 .. k # {} /\ Max(1 .. k) = k /\ (1 .. k) \ {k} = 1 .. (k - 1)
      BY <1>1, FrontSets, Zenon DEF T
    <2>2. f[1 .. k] = Step(f[(1 .. k) \ {Max(1 .. k)}], s[Max(1 .. k)])
      BY <1>13, <2>1, Zenon
    <2> QED
      BY <2>1, <2>2, Zenon
  <1>17. /\ acc[0] = 1 /\ acc[m] = Position(c, m + 1)
         /\ \A k \in 1 .. m : acc[k] = Step(acc[k - 1], s[k])
    <2>1. 0 \in 0 .. m /\ m \in 0 .. m /\ \A k \in 1 .. m : k \in 0 .. m /\ k - 1 \in 0 .. m
      BY <1>1
    <2> QED
      BY <1>14, <1>15, <1>16, <2>1, Zenon
  <1>18. \A k \in 0 .. m : acc[k] \in Nat
    <2> HIDE DEF acc
    <2>1. acc[0] \in Nat
      BY <1>17
    <2>2. ASSUME NEW k \in 1 .. m, acc[k - 1] \in Nat PROVE acc[k] \in Nat
      <3>1. acc[k] = acc[k - 1] + Added(c, k)
        BY <1>6, <1>17, <2>2, Zenon
      <3> QED
        BY <1>3, <2>2, <3>1
    <2> QED
      BY <1>1, <2>1, <2>2, RecursionKeeps, Zenon
  <1>19. acc \in [0 .. m -> Nat]
    BY <1>18
  <1>20. \A k \in 1 .. m : acc[k] = acc[k - 1] + Added(c, k)
    <2>1. \A k \in 1 .. m : acc[k - 1] \in Nat
      BY <1>1, <1>18
    <2> QED
      BY <1>6, <1>17, <2>1, Zenon
  <1> QED
    BY <1>17, <1>19, <1>20, Zenon

(* The first chain is behind the '!', a next one behind the one before.     *)
LEMMA PositionIs ==
  ASSUME NEW n \in 0 .. N, NEW c \in Contents(n)
  PROVE  /\ Position(c, 1) = 1
         /\ \A h \in 1 .. n + 1 : Position(c, h) \in Nat /\ Position(c, h) >= 1
         /\ \A h \in 1 .. n : Position(c, h + 1) = Position(c, h) + Added(c, h)
  <1>1. n \in Nat /\ 0 \in 0 .. n
    BY IndexAssumption DEF IndexAssumption
  <1>2. Position(c, 1) = 1
    <2>1. PICK acc : acc[0] = 1 /\ acc[0] = Position(c, 0 + 1)
      BY <1>1, PositionTrace
    <2> QED
      BY <2>1
  <1>3. ASSUME NEW m \in 0 .. n PROVE Position(c, m + 1) \in Nat
    <2>1. PICK acc \in [0 .. m -> Nat] : acc[m] = Position(c, m + 1)
      BY PositionTrace
    <2>2. m \in 0 .. m
      BY <1>1
    <2> QED
      BY <2>1, <2>2
  <1>4. ASSUME NEW h \in 1 .. n PROVE Position(c, h + 1) = Position(c, h) + Added(c, h)
    <2>1. h \in 0 .. n /\ h - 1 \in 0 .. n /\ (h - 1) + 1 = h /\ h - 1 \in Nat /\ h \in Nat
      BY <1>1
    <2>2. PICK f \in [0 .. h -> Nat] :
            f[0] = 1 /\ (\A k \in 1 .. h : f[k] = f[k - 1] + Added(c, k)) /\ f[h] = Position(c, h + 1)
      BY <2>1, PositionTrace, Zenon
    <2>3. PICK g \in [0 .. h - 1 -> Nat] :
            /\ g[0] = 1 /\ \A k \in 1 .. h - 1 : g[k] = g[k - 1] + Added(c, k)
            /\ g[h - 1] = Position(c, (h - 1) + 1)
      BY <2>1, PositionTrace, Zenon
    <2>4. Alike(f, g, h - 1)
      <3>1. \A k \in 1 .. h - 1 : k \in 1 .. h
        BY <2>1
      <3> QED
        BY <2>2, <2>3, <3>1, Zenon DEF Alike
    <2>5. f[h - 1] = g[h - 1]
      <3>1. h - 1 \in 0 .. h - 1
        BY <2>1
      <3>2. \A k \in 0 .. h - 1 : f[k] = g[k]
        BY <2>1, <2>4, SameRecursion
      <3> QED
        BY <3>1, <3>2, Zenon
    <2>6. h \in 1 .. h
      BY <2>1
    <2> QED
      BY <2>1, <2>2, <2>3, <2>5, <2>6, Zenon
  <1>5. \A h \in 1 .. n + 1 : Position(c, h) \in Nat /\ Position(c, h) >= 1
    <2> DEFINE S == {k \in Nat : k <= n => Position(c, k + 1) >= 1}
    <2>1. 0 \in S
      BY <1>2
    <2>2. ASSUME NEW k \in 1 .. n, k - 1 \in S PROVE k \in S
      <3>1. k \in Nat /\ k - 1 \in 0 .. n /\ (k - 1) + 1 = k
        BY <1>1
      <3>2. Position(c, k) \in Nat /\ Position(c, k) >= 1
        <4>1. Position(c, (k - 1) + 1) \in Nat
          BY <1>3, <3>1, Zenon
        <4>2. Position(c, (k - 1) + 1) >= 1
          BY <1>1, <2>2
        <4> QED
          BY <3>1, <4>1, <4>2
      <3>3. Added(c, k) \in Nat
        BY AddedIs, Zenon
      <3>4. Position(c, k + 1) >= 1
        BY <1>4, <3>2, <3>3
      <3> QED
        BY <3>1, <3>4
    <2> HIDE DEF S
    <2>3. 0 .. n \subseteq S
      BY <1>1, <2>1, <2>2, BoundedInduction
    <2>4. ASSUME NEW h \in 1 .. n + 1 PROVE Position(c, h) \in Nat /\ Position(c, h) >= 1
      <3>1. h - 1 \in 0 .. n /\ (h - 1) + 1 = h
        BY <1>1
      <3>2. Position(c, (h - 1) + 1) \in Nat /\ Position(c, (h - 1) + 1) >= 1
        <4>1. h - 1 \in S /\ h - 1 <= n
          BY <1>1, <2>3, <3>1
        <4>2. Position(c, (h - 1) + 1) >= 1
          BY <4>1 DEF S
        <4> QED
          BY <1>3, <3>1, <4>2, Zenon
      <3> QED
        BY <3>1, <3>2
    <2> QED
      BY <2>4, Zenon
  <1> QED
    BY <1>2, <1>4, <1>5, Zenon

(* The writer's table: a position, a handle before that has the same chain, *)
(* or nothing.                                                              *)
LEMMA SlotIs ==
  ASSUME NEW n \in 0 .. N, NEW c \in Contents(n), NEW h \in 1 .. n
  PROVE  /\ Slot(c, h) \in Int
         /\ c[h] = NoChain => Slot(c, h) = 0
         /\ Original(c, h) => Slot(c, h) = Position(c, h) /\ Slot(c, h) > 0
         /\ c[h] # NoChain /\ ~Original(c, h) =>
              /\ Slot(c, h) = -FirstWith(c, h) /\ Slot(c, h) < 0
              /\ FirstWith(c, h) \in 1 .. h - 1 /\ Original(c, FirstWith(c, h))
  <1>1. /\ FirstWith(c, h) \in 1 .. h /\ c[FirstWith(c, h)] = c[h]
        /\ FirstWith(c, FirstWith(c, h)) = FirstWith(c, h)
    BY FirstWithIs, Zenon
  <1>2. n \in Nat
    BY IndexAssumption DEF IndexAssumption
  <1>3. Position(c, h) \in Nat /\ Position(c, h) >= 1
    <2>1. h \in 1 .. n + 1
      BY <1>2
    <2> QED
      BY <2>1, PositionIs, Zenon
  <1>4. CASE c[h] = NoChain
    BY <1>4 DEF Slot, Original
  <1>5. CASE Original(c, h)
    <2>1. Slot(c, h) = Position(c, h)
      BY <1>5, Zenon DEF Slot, Original
    <2> QED
      BY <1>3, <1>5, <2>1 DEF Original
  <1>6. CASE c[h] # NoChain /\ ~Original(c, h)
    <2>1. Slot(c, h) = -FirstWith(c, h)
      BY <1>6, Zenon DEF Slot
    <2>2. FirstWith(c, h) # h
      BY <1>6, Zenon DEF Original
    <2>3. Original(c, FirstWith(c, h))
      BY <1>1, <1>6, Zenon DEF Original
    <2>4. FirstWith(c, h) \in 1 .. h - 1 /\ -FirstWith(c, h) < 0 /\ -FirstWith(c, h) \in Int
      BY <1>1, <1>2, <2>2
    <2> QED
      BY <1>6, <2>1, <2>3, <2>4, Zenon
  <1> QED
    BY <1>4, <1>5, <1>6

(* What a reader's tables hold once the entries of j handles are decoded,   *)
(* if they were t before: the handles' slots, with the lengths known by     *)
(* then; where the last chain begins; in new tables, no more than that.     *)
Alias(c, h) == c[h] # NoChain /\ ~Original(c, h)
Shown(c, r, h) ==
  /\ c[h] = NoChain => r.pos[h - 1] = 0
  /\ Alias(c, h) => r.pos[h - 1] = 0 /\ r.len[h - 1] = -FirstWith(c, h)
  /\ Original(c, h) => /\ r.pos[h - 1] = Position(c, h)
                       /\ h - 1 = r.pidx \/ r.len[h - 1] = Size(c[h])
NonePlaced(c, t, r, j) ==
  r.pidx = t.pidx /\ r.pval = 0 /\ \A h \in 1 .. j : ~Original(c, h)
LastPlaced(c, r, j) ==
  /\ r.pidx + 1 \in 1 .. j /\ Original(c, r.pidx + 1) /\ r.pval = Position(c, r.pidx + 1)
  /\ Position(c, j + 1) = r.pval + Size(c[r.pidx + 1])
Unused(c, r, j) ==
  \A i \in 0 .. N : i >= j \/ c[i + 1] = NoChain => r.pos[i] = 0 /\ r.len[i] >= 0
Decoded(c, t, r, j) ==
  /\ r \in DecState /\ r.idx = j
  /\ \A h \in 1 .. j : Shown(c, r, h)
  /\ NonePlaced(c, t, r, j) \/ LastPlaced(c, r, j)
  /\ t = NewTables => Unused(c, r, j)

(* Before the first entry.                                                  *)
LEMMA DecodedNone ==
  ASSUME NEW n \in 0 .. N, NEW c \in Contents(n), NEW t \in TablesType
  PROVE  Decoded(c, t, DecodeStart(t), 0)
  <1> DEFINE r == DecodeStart(t)
  <1>1. r \in DecState /\ r.idx = 0 /\ r.pidx = t.pidx /\ r.pval = 0 /\ r.pos = t.pos /\ r.len = t.len
    BY DEF DecodeStart, DecState, TablesType
  <1>2. ASSUME t = NewTables PROVE Unused(c, r, 0)
    <2>1. t.pos = [i \in 0 .. N |-> 0] /\ t.len = [i \in 0 .. N |-> 0]
      BY <1>2 DEF NewTables
    <2> HIDE DEF r
    <2> QED
      BY <1>1, <2>1 DEF Unused
  <1> HIDE DEF r
  <1>3. NonePlaced(c, t, r, 0)
    BY <1>1 DEF NonePlaced
  <1>4. \A h \in 1 .. 0 : Shown(c, r, h)
    OBVIOUS
  <1> QED
    BY <1>1, <1>2, <1>3, <1>4, Zenon DEF Decoded, r

(* Handles without a chain take no place.                                   *)
LEMMA PositionStays ==
  ASSUME NEW n \in 0 .. N, NEW c \in Contents(n), NEW j \in 0 .. n, NEW k \in j .. n,
         \A h \in j + 1 .. k : c[h] = NoChain
  PROVE  Position(c, k + 1) = Position(c, j + 1)
  <1> DEFINE S == {m \in Nat : m <= k - j => Position(c, j + m + 1) = Position(c, j + 1)}
  <1>1. n \in Nat /\ j \in Nat /\ k \in Nat /\ k - j \in Nat
    BY IndexAssumption DEF IndexAssumption
  <1>2. 0 \in S
    <2>1. j + 0 + 1 = j + 1
      BY <1>1
    <2> QED
      BY <2>1
  <1>3. ASSUME NEW m \in 1 .. k - j, m - 1 \in S PROVE m \in S
    <2>1. j + m \in 1 .. n /\ j + m \in j + 1 .. k /\ j + (m - 1) + 1 = j + m /\ m \in Nat /\ m - 1 <= k - j
      BY <1>1
    <2>2. Position(c, j + m) = Position(c, j + 1)
      BY <1>3, <2>1
    <2>3. Position(c, j + m + 1) = Position(c, j + m) + Added(c, j + m)
      BY <2>1, PositionIs, Zenon
    <2>4. Added(c, j + m) = 0
      BY <2>1, Zenon DEF Added, Original
    <2>5. Position(c, j + m) \in Nat
      <3>1. j + m \in 1 .. n + 1
        BY <1>1, <2>1
      <3> QED
        BY <3>1, PositionIs, Zenon
    <2>6. Position(c, j + m + 1) = Position(c, j + 1)
      BY <2>2, <2>3, <2>4, <2>5
    <2> QED
      BY <2>1, <2>6
  <1> HIDE DEF S
  <1>4. 0 .. k - j \subseteq S
    BY <1>1, <1>2, <1>3, BoundedInduction
  <1>5. k - j \in S /\ j + (k - j) + 1 = k + 1
    BY <1>1, <1>4
  <1>6. Position(c, j + (k - j) + 1) = Position(c, j + 1)
    BY <1>1, <1>5 DEF S
  <1> QED
    BY <1>5, <1>6, Zenon

(* A run of handles without a chain.                                        *)
LEMMA DecodedZeros ==
  ASSUME NEW n \in 0 .. N, NEW c \in Contents(n), NEW t \in TablesType,
         NEW j \in 0 .. n, NEW k \in j .. n, NEW r, Decoded(c, t, r, j),
         \A h \in j + 1 .. k : c[h] = NoChain
  PROVE  /\ Decoded(c, t, DecodeZeros(r, k - j), k)
         /\ DecodeZeros(r, k - j).pval = r.pval /\ DecodeZeros(r, k - j).prev_alias = r.prev_alias
  <1> DEFINE q == DecodeZeros(r, k - j)
  <1>1. n \in Nat /\ j \in Nat /\ k \in Nat /\ k - j \in Nat /\ N \in Nat
    BY IndexAssumption DEF IndexAssumption
  <1>2. r \in DecState /\ r.idx = j
    BY DEF Decoded
  <1>3. /\ q \in DecState /\ q.idx = j + (k - j) /\ q.len = r.len /\ q.pidx = r.pidx
        /\ q.pval = r.pval /\ q.prev_alias = r.prev_alias
        /\ \A i \in 0 .. N : q.pos[i] = IF i \in j .. j + (k - j) - 1 THEN 0 ELSE r.pos[i]
    <2>1. /\ q \in DecState /\ q.idx = r.idx + (k - j) /\ q.len = r.len /\ q.pidx = r.pidx
          /\ q.pval = r.pval /\ q.prev_alias = r.prev_alias
          /\ \A i \in 0 .. N : q.pos[i] = IF i \in r.idx .. r.idx + (k - j) - 1 THEN 0 ELSE r.pos[i]
      BY <1>1, <1>2, DecodeZerosIs
    <2> QED
      BY <1>2, <2>1, Zenon
  <1> HIDE DEF q
  <1>4. ASSUME NEW h \in 1 .. k PROVE Shown(c, q, h)
    <2>1. CASE h \in 1 .. j
      <3>1. Shown(c, r, h)
        BY <2>1, Zenon DEF Decoded
      <3>2. q.pos[h - 1] = r.pos[h - 1]
        BY <1>1, <1>3, <2>1
      <3> QED
        BY <1>3, <3>1, <3>2, Zenon DEF Shown
    <2>2. CASE h \in j + 1 .. k
      <3>1. q.pos[h - 1] = 0
        BY <1>1, <1>3, <2>2
      <3> QED
        BY <2>2, <3>1, Zenon DEF Shown, Alias, Original
    <2> QED
      BY <1>1, <2>1, <2>2
  <1>5. NonePlaced(c, t, q, k) \/ LastPlaced(c, q, k)
    <2>1. CASE NonePlaced(c, t, r, j)
      <3>1. ASSUME NEW h \in 1 .. k PROVE ~Original(c, h)
        <4>1. h \in 1 .. j \/ h \in j + 1 .. k
          BY <1>1
        <4> QED
          BY <2>1, <4>1, Zenon DEF NonePlaced, Original
      <3> QED
        BY <1>3, <2>1, <3>1, Zenon DEF NonePlaced
    <2>2. CASE LastPlaced(c, r, j)
      <3>1. Position(c, k + 1) = Position(c, j + 1)
        BY PositionStays, Zenon
      <3>2. r.pidx + 1 \in 1 .. k
        BY <1>1, <2>2 DEF LastPlaced
      <3> QED
        BY <1>3, <2>2, <3>1, <3>2, Zenon DEF LastPlaced
    <2> QED
      BY <2>1, <2>2, Zenon DEF Decoded
  <1>6. ASSUME t = NewTables PROVE Unused(c, q, k)
    <2>1. Unused(c, r, j)
      BY <1>6, Zenon DEF Decoded
    <2>2. ASSUME NEW i \in 0 .. N, i >= k \/ c[i + 1] = NoChain PROVE q.pos[i] = 0 /\ q.len[i] >= 0
      <3>1. i >= j \/ c[i + 1] = NoChain
        BY <1>1, <2>2
      <3>2. r.pos[i] = 0 /\ r.len[i] >= 0
        BY <2>1, <3>1, Zenon DEF Unused
      <3> QED
        BY <1>3, <3>2
    <2> QED
      BY <2>2, Zenon DEF Unused
  <1>7. q.idx = k
    BY <1>1, <1>3
  <1> QED
    BY <1>3, <1>4, <1>5, <1>6, <1>7, Zenon DEF Decoded, q

(* No handle shares a chain before the first one is placed.                 *)
LEMMA NoneBefore ==
  ASSUME NEW n \in 0 .. N, NEW c \in Contents(n), NEW j \in 0 .. n, \A h \in 1 .. j : ~Original(c, h)
  PROVE  \A h \in 1 .. n : h <= j + 1 => ~Alias(c, h)
  <1> SUFFICES ASSUME NEW h \in 1 .. n, h <= j + 1, Alias(c, h) PROVE FALSE
    OBVIOUS
  <1>1. FirstWith(c, h) \in 1 .. h - 1 /\ Original(c, FirstWith(c, h))
    BY SlotIs, Zenon DEF Alias
  <1>2. FirstWith(c, h) \in 1 .. j
    BY <1>1, IndexAssumption DEF IndexAssumption
  <1> QED
    BY <1>1, <1>2

(* A position of a chain, counted from the one before.                      *)
LEMMA DecodedPosition ==
  ASSUME NEW n \in 0 .. N, NEW c \in Contents(n), NEW t \in TablesType,
         NEW j \in 0 .. n - 1, NEW r, Decoded(c, t, r, j), Original(c, j + 1)
  PROVE  LET q == DecodePosition(r, Position(c, j + 1) - r.pval)
         IN /\ Decoded(c, t, q, j + 1) /\ Position(c, j + 1) > r.pval
            /\ q.pval = Position(c, j + 1) /\ q.prev_alias = r.prev_alias
  <1> DEFINE shval == Position(c, j + 1) - r.pval
             q == DecodePosition(r, shval)
  <1>1. n \in Nat /\ j \in Nat /\ j + 1 \in 1 .. n /\ N \in Nat /\ j \in 0 .. n /\ j \in 0 .. N
    BY IndexAssumption DEF IndexAssumption
  <1>2. r \in DecState /\ r.idx = j /\ r.pval \in Int /\ r.pidx \in Nat
    BY DecStateIs DEF Decoded
  <1>3. Position(c, j + 1) \in Nat /\ Position(c, j + 1) >= 1
    <2>1. j + 1 \in 1 .. n + 1
      BY <1>1
    <2> QED
      BY <2>1, PositionIs, Zenon
  <1>4. shval \in Int /\ r.pval + shval = Position(c, j + 1)
    BY <1>2, <1>3
  <1> HIDE DEF shval
  <1>5. /\ q \in DecState /\ q.idx = j + 1 /\ q.pidx = j
        /\ q.pval = Position(c, j + 1) /\ q.prev_alias = r.prev_alias
        /\ \A i \in 0 .. N : q.pos[i] = IF i = j THEN Position(c, j + 1) ELSE r.pos[i]
        /\ \A i \in 0 .. N : q.len[i] = IF i = r.pidx /\ j # 0 THEN Position(c, j + 1) - q.pos[i] ELSE r.len[i]
    <2>1. /\ q \in DecState /\ q.idx = r.idx + 1 /\ q.pidx = r.idx
          /\ q.pval = r.pval + shval /\ q.prev_alias = r.prev_alias
          /\ \A i \in 0 .. N : q.pos[i] = IF i = r.idx THEN r.pval + shval ELSE r.pos[i]
          /\ \A i \in 0 .. N : q.len[i] = IF i = r.pidx /\ r.idx # 0 THEN (r.pval + shval) - q.pos[i] ELSE r.len[i]
      BY <1>2, <1>4, DecodePositionIs, Zenon
    <2> HIDE DEF q
    <2>2. \A i \in 0 .. N : q.pos[i] = IF i = j THEN Position(c, j + 1) ELSE r.pos[i]
      BY <1>2, <1>4, <2>1, Zenon
    <2>3. \A i \in 0 .. N : q.len[i] = IF i = r.pidx /\ j # 0 THEN Position(c, j + 1) - q.pos[i] ELSE r.len[i]
      <3> TAKE i \in 0 .. N
      <3>1. q.len[i] = IF i = r.pidx /\ r.idx # 0 THEN (r.pval + shval) - q.pos[i] ELSE r.len[i]
        BY <2>1, Zenon
      <3> QED
        BY <1>2, <1>4, <3>1
    <2> QED
      BY <1>2, <1>4, <2>1, <2>2, <2>3, Zenon
  <1> HIDE DEF q
  <1>6. ASSUME LastPlaced(c, r, j)
        PROVE  /\ r.pidx + 1 \in 1 .. j /\ r.pval = Position(c, r.pidx + 1)
               /\ Size(c[r.pidx + 1]) \in Nat /\ Size(c[r.pidx + 1]) >= 2
               /\ Position(c, j + 1) = r.pval + Size(c[r.pidx + 1])
    <2>1. r.pidx + 1 \in 1 .. n
      BY <1>1, <1>6 DEF LastPlaced
    <2>2. c[r.pidx + 1] # NoChain
      BY <1>6, Zenon DEF LastPlaced, Original
    <2> QED
      BY <1>6, <2>1, <2>2, AddedIs, Zenon DEF LastPlaced
  <1>7. Position(c, j + 1) > r.pval
    <2>1. CASE NonePlaced(c, t, r, j)
      BY <1>3, <2>1 DEF NonePlaced
    <2>2. CASE LastPlaced(c, r, j)
      BY <1>2, <1>6, <2>2
    <2> QED
      BY <2>1, <2>2, Zenon DEF Decoded
  <1>8. ASSUME NEW h \in 1 .. j PROVE Shown(c, q, h)
    <2>1. Shown(c, r, h) /\ h \in 1 .. n /\ h - 1 \in 0 .. N /\ h - 1 # j /\ j # 0
      BY <1>1 DEF Decoded
    <2>2. q.pos[h - 1] = r.pos[h - 1]
      BY <1>5, <2>1, Zenon
    <2>3. ASSUME Alias(c, h) PROVE q.len[h - 1] = r.len[h - 1]
      <3>1. h - 1 # r.pidx
        <4>1. CASE NonePlaced(c, t, r, j)
          <5>1. h <= j + 1
            BY <1>1
          <5> QED
            BY <1>1, <2>1, <2>3, <4>1, <5>1, NoneBefore, Zenon DEF NonePlaced
        <4>2. CASE LastPlaced(c, r, j)
          <5>1. h # r.pidx + 1
            BY <2>3, <4>2, Zenon DEF LastPlaced, Alias
          <5> QED
            BY <1>2, <5>1
        <4> QED
          BY <4>1, <4>2, Zenon DEF Decoded
      <3> QED
        BY <1>5, <2>1, <3>1, Zenon
    <2>4. ASSUME Original(c, h) PROVE q.len[h - 1] = Size(c[h])
      <3>1. LastPlaced(c, r, j)
        BY <2>4, Zenon DEF Decoded, NonePlaced
      <3>2. CASE h - 1 = r.pidx
        <4>1. r.pidx + 1 = h
          BY <3>2
        <4>2. q.len[h - 1] = Position(c, j + 1) - q.pos[h - 1]
          BY <1>5, <2>1, <3>2, Zenon
        <4>3. q.pos[h - 1] = Position(c, h)
          BY <2>1, <2>2, <2>4, Zenon DEF Shown
        <4>4. Position(c, j + 1) = Position(c, h) + Size(c[h]) /\ r.pval = Position(c, h) /\ Size(c[h]) \in Nat
          BY <1>6, <3>1, <4>1, Zenon
        <4> QED
          BY <1>2, <4>2, <4>3, <4>4
      <3>3. CASE h - 1 # r.pidx
        BY <1>5, <2>1, <2>4, <3>3, Zenon DEF Shown
      <3> QED
        BY <3>2, <3>3
    <2> QED
      BY <2>1, <2>2, <2>3, <2>4, Zenon DEF Shown
  <1>9. Shown(c, q, j + 1)
    <2>1. (j + 1) - 1 = j /\ q.pos[j] = Position(c, j + 1)
      BY <1>1, <1>5
    <2>2. (j + 1) - 1 = q.pidx
      BY <1>5, <2>1
    <2> QED
      BY <2>1, <2>2, Zenon DEF Shown, Alias, Original
  <1>10. LastPlaced(c, q, j + 1)
    <2>1. q.pidx + 1 = j + 1 /\ j + 1 \in 1 .. j + 1
      BY <1>1, <1>5
    <2>2. Position(c, (j + 1) + 1) = Position(c, j + 1) + Size(c[j + 1])
      BY <1>1, PositionIs, Zenon DEF Added
    <2> QED
      BY <1>5, <2>1, <2>2, Zenon DEF LastPlaced
  <1>11. ASSUME t = NewTables PROVE Unused(c, q, j + 1)
    <2>1. Unused(c, r, j)
      BY <1>11, Zenon DEF Decoded
    <2>2. ASSUME NEW i \in 0 .. N, i >= j + 1 \/ c[i + 1] = NoChain PROVE q.pos[i] = 0 /\ q.len[i] >= 0
      <3>1. c[j + 1] # NoChain
        BY Zenon DEF Original
      <3>2. (i >= j \/ c[i + 1] = NoChain) /\ i # j
        BY <1>1, <2>2, <3>1
      <3>3. r.pos[i] = 0 /\ r.len[i] >= 0
        BY <2>1, <3>2, Zenon DEF Unused
      <3>4. q.pos[i] = 0
        BY <1>5, <3>2, <3>3, Zenon
      <3> QED
        BY <1>3, <1>5, <3>3, <3>4
    <2> QED
      BY <2>2, Zenon DEF Unused
  <1>12. \A h \in 1 .. j + 1 : Shown(c, q, h)
    <2>1. \A h \in 1 .. j + 1 : h \in 1 .. j \/ h = j + 1
      BY <1>1
    <2> QED
      BY <1>8, <1>9, <2>1, Zenon
  <1> QED
    BY <1>5, <1>7, <1>10, <1>11, <1>12, Zenon DEF Decoded, q, shval

(* A handle that shares the chain of one before it.                         *)
LEMMA DecodedAlias ==
  ASSUME NEW n \in 0 .. N, NEW c \in Contents(n), NEW t \in TablesType,
         NEW j \in 0 .. n - 1, NEW r, Decoded(c, t, r, j), Alias(c, j + 1),
         NEW shval \in Int, shval < 0 => shval = -FirstWith(c, j + 1),
         shval >= 0 => r.prev_alias = -FirstWith(c, j + 1)
  PROVE  LET q == DecodeAlias(r, shval)
         IN Decoded(c, t, q, j + 1) /\ q.pval = r.pval /\ q.prev_alias = -FirstWith(c, j + 1)
  <1> DEFINE q == DecodeAlias(r, shval)
             alias == -FirstWith(c, j + 1)
  <1>1. n \in Nat /\ j \in Nat /\ j + 1 \in 1 .. n /\ N \in Nat /\ j \in 0 .. n /\ j \in 0 .. N
    BY IndexAssumption DEF IndexAssumption
  <1>2. r \in DecState /\ r.idx = j /\ r.pidx \in Nat
    BY DecStateIs DEF Decoded
  <1>3. (IF shval < 0 THEN shval ELSE r.prev_alias) = alias
    BY DEF alias
  <1> HIDE DEF alias
  <1>4. /\ q \in DecState /\ q.idx = j + 1 /\ q.pidx = r.pidx /\ q.pval = r.pval /\ q.prev_alias = alias
        /\ \A i \in 0 .. N : /\ q.pos[i] = IF i = j THEN 0 ELSE r.pos[i]
                             /\ q.len[i] = IF i = j THEN alias ELSE r.len[i]
    BY <1>2, <1>3, DecodeAliasIs
  <1> HIDE DEF q
  <1>5. LastPlaced(c, r, j)
    <2>1. j + 1 <= j + 1
      BY <1>1
    <2>2. ~NonePlaced(c, t, r, j)
      BY <1>1, <2>1, NoneBefore, Zenon DEF NonePlaced
    <2> QED
      BY <2>2, Zenon DEF Decoded
  <1>6. LastPlaced(c, q, j + 1)
    <2>1. r.pidx + 1 \in 1 .. j + 1
      BY <1>1, <1>5 DEF LastPlaced
    <2>2. Position(c, (j + 1) + 1) = Position(c, j + 1)
      <3>1. Position(c, (j + 1) + 1) = Position(c, j + 1) + Added(c, j + 1)
        BY <1>1, PositionIs, Zenon
      <3>2. Added(c, j + 1) = 0
        BY Zenon DEF Added, Alias
      <3>3. Position(c, j + 1) \in Nat
        <4>1. j + 1 \in 1 .. n + 1
          BY <1>1
        <4> QED
          BY <4>1, PositionIs, Zenon
      <3> QED
        BY <3>1, <3>2, <3>3
    <2> QED
      BY <1>4, <1>5, <2>1, <2>2, Zenon DEF LastPlaced
  <1>7. ASSUME NEW h \in 1 .. j PROVE Shown(c, q, h)
    <2>1. Shown(c, r, h) /\ h - 1 \in 0 .. N /\ h - 1 # j
      BY <1>1 DEF Decoded
    <2>2. q.pos[h - 1] = r.pos[h - 1] /\ q.len[h - 1] = r.len[h - 1]
      BY <1>4, <2>1, Zenon
    <2> QED
      BY <1>4, <2>1, <2>2, Zenon DEF Shown
  <1>8. Shown(c, q, j + 1)
    <2>1. (j + 1) - 1 = j /\ q.pos[j] = 0 /\ q.len[j] = alias
      BY <1>1, <1>4
    <2> QED
      BY <2>1, Zenon DEF Shown, Alias, alias
  <1>9. ASSUME t = NewTables PROVE Unused(c, q, j + 1)
    <2>1. Unused(c, r, j)
      BY <1>9, Zenon DEF Decoded
    <2>2. ASSUME NEW i \in 0 .. N, i >= j + 1 \/ c[i + 1] = NoChain PROVE q.pos[i] = 0 /\ q.len[i] >= 0
      <3>1. c[j + 1] # NoChain
        BY Zenon DEF Alias
      <3>2. (i >= j \/ c[i + 1] = NoChain) /\ i # j
        BY <1>1, <2>2, <3>1
      <3>3. r.pos[i] = 0 /\ r.len[i] >= 0
        BY <2>1, <3>2, Zenon DEF Unused
      <3> QED
        BY <1>4, <3>2, <3>3, Zenon
    <2> QED
      BY <2>2, Zenon DEF Unused
  <1>10. \A h \in 1 .. j + 1 : Shown(c, q, h)
    <2>1. \A h \in 1 .. j + 1 : h \in 1 .. j \/ h = j + 1
      BY <1>1
    <2> QED
      BY <1>7, <1>8, <2>1, Zenon
  <1> QED
    BY <1>4, <1>6, <1>9, <1>10, Zenon DEF Decoded, q, alias

(* What a reader makes of entries; the encoder's state e after k slots is   *)
(* such that its entries give the slots but for the run it still counts.    *)
ReadEntries(t, out) == FoldLeft(DecodeEntry, DecodeStart(t), out)
BeforeNumber(e) == IF e.zerocnt > 0 THEN Append(e.out, Run(e.zerocnt)) ELSE e.out
Encoded(c, t, k, e) ==
  /\ e \in EncState /\ e.zerocnt \in 0 .. k
  /\ Decoded(c, t, ReadEntries(t, e.out), k - e.zerocnt)
  /\ ReadEntries(t, e.out).pval = e.prevpos /\ ReadEntries(t, e.out).prev_alias = e.prev_alias
  /\ \A h \in (k - e.zerocnt) + 1 .. k : c[h] = NoChain

(* One more entry.                                                          *)
LEMMA ReadMore ==
  ASSUME NEW t \in TablesType, NEW out \in Seq(IndexEntry), NEW e \in IndexEntry
  PROVE  ReadEntries(t, Append(out, e)) = DecodeEntry(ReadEntries(t, out), e)
  <1>1. DecodeStart(t) \in DecState
    BY DEF DecodeStart, DecState, TablesType
  <1> QED
    BY <1>1, DecodeMore, Zenon DEF ReadEntries

(* With the run, the entries give all slots so far.                         *)
LEMMA RunDecodes ==
  ASSUME NEW n \in 0 .. N, NEW c \in Contents(n), NEW t \in TablesType,
         NEW k \in 0 .. n, NEW e, Encoded(c, t, k, e)
  PROVE  LET r == ReadEntries(t, BeforeNumber(e))
         IN /\ BeforeNumber(e) \in Seq(IndexEntry) /\ Decoded(c, t, r, k)
            /\ r.pval = e.prevpos /\ r.prev_alias = e.prev_alias
  <1> DEFINE r == ReadEntries(t, e.out)
             j == k - e.zerocnt
  <1>1. n \in Nat /\ k \in Nat /\ e.zerocnt \in Nat /\ e.out \in Seq(IndexEntry) /\ e.zerocnt <= k
    BY IndexAssumption DEF IndexAssumption, Encoded, EncState
  <1>2. /\ Decoded(c, t, r, j) /\ r.pval = e.prevpos /\ r.prev_alias = e.prev_alias
        /\ \A h \in j + 1 .. k : c[h] = NoChain
    BY Zenon DEF Encoded
  <1>3. CASE e.zerocnt > 0
    <2>1. Run(e.zerocnt) \in IndexEntry /\ Run(e.zerocnt).zeros = e.zerocnt
      BY <1>1 DEF Run, IndexEntry
    <2>2. BeforeNumber(e) = Append(e.out, Run(e.zerocnt)) /\ Append(e.out, Run(e.zerocnt)) \in Seq(IndexEntry)
      BY <1>1, <1>3, <2>1 DEF BeforeNumber
    <2>3. ReadEntries(t, BeforeNumber(e)) = DecodeEntry(r, Run(e.zerocnt))
      BY <1>1, <2>1, <2>2, ReadMore, Zenon
    <2>4. DecodeEntry(r, Run(e.zerocnt)) = DecodeZeros(r, e.zerocnt)
      BY <1>3, <2>1, Zenon DEF DecodeEntry
    <2>5. j \in 0 .. n /\ k \in j .. n /\ k - j = e.zerocnt
      BY <1>1
    <2> HIDE DEF r, j
    <2>6. /\ Decoded(c, t, DecodeZeros(r, k - j), k)
          /\ DecodeZeros(r, k - j).pval = r.pval /\ DecodeZeros(r, k - j).prev_alias = r.prev_alias
      BY <1>2, <2>5, DecodedZeros, Zenon
    <2> QED
      BY <1>2, <2>2, <2>3, <2>4, <2>5, <2>6, Zenon
  <1>4. CASE ~(e.zerocnt > 0)
    <2>1. BeforeNumber(e) = e.out
      BY <1>4, Zenon DEF BeforeNumber
    <2>2. j = k
      BY <1>1, <1>4
    <2> HIDE DEF r, j
    <2>3. Decoded(c, t, r, k)
      BY <1>2, <2>2, Zenon
    <2> QED
      BY <1>1, <1>2, <2>1, <2>3, Zenon DEF r
  <1> QED
    BY <1>3, <1>4, Zenon

(* One more slot.                                                           *)
LEMMA SlotEncodes ==
  ASSUME NEW n \in 0 .. N, NEW c \in Contents(n), NEW t \in TablesType,
         NEW k \in 1 .. n, NEW e, Encoded(c, t, k - 1, e)
  PROVE  Encoded(c, t, k, EncodeSlot(e, Slot(c, k)))
  <1> DEFINE slot == Slot(c, k)
             next == EncodeSlot(e, slot)
             before == BeforeNumber(e)
             number == IF slot > 0 THEN slot - e.prevpos ELSE IF slot # e.prev_alias THEN slot ELSE 0
             r == ReadEntries(t, before)
  <1>1. /\ n \in Nat /\ k \in Nat /\ k - 1 \in 0 .. n /\ k - 1 \in 0 .. n - 1 /\ (k - 1) + 1 = k
        /\ e \in EncState /\ e.zerocnt \in 0 .. k - 1 /\ slot \in Int
    BY IndexAssumption, SlotIs DEF IndexAssumption, Encoded
  <1>2. before \in Seq(IndexEntry) /\ Decoded(c, t, r, k - 1) /\ r.pval = e.prevpos /\ r.prev_alias = e.prev_alias
    BY <1>1, RunDecodes, Zenon
  <1> HIDE DEF slot
  <1>3. /\ next \in EncState /\ Number(number) \in IndexEntry
        /\ slot = 0 => /\ next.out = e.out /\ next.zerocnt = e.zerocnt + 1
                       /\ next.prevpos = e.prevpos /\ next.prev_alias = e.prev_alias
        /\ slot # 0 => /\ next.out = Append(before, Number(number)) /\ next.zerocnt = 0
                       /\ next.prevpos = (IF slot > 0 THEN slot ELSE e.prevpos)
                       /\ next.prev_alias = (IF slot > 0 THEN e.prev_alias ELSE slot)
    BY <1>1, EncodeSlotIs, Zenon DEF BeforeNumber
  <1> HIDE DEF next, before, r
  <1>4. CASE c[k] = NoChain
    <2>1. slot = 0
      BY <1>4, SlotIs, Zenon DEF slot
    <2>2. next.zerocnt \in 0 .. k /\ k - next.zerocnt = (k - 1) - e.zerocnt
      BY <1>1, <1>3, <2>1
    <2>3. ASSUME NEW h \in (k - next.zerocnt) + 1 .. k PROVE c[h] = NoChain
      <3>1. h = k \/ h \in ((k - 1) - e.zerocnt) + 1 .. k - 1
        BY <1>1, <2>2
      <3> QED
        BY <1>4, <3>1, Zenon DEF Encoded
    <2>4. /\ Decoded(c, t, ReadEntries(t, e.out), (k - 1) - e.zerocnt)
          /\ ReadEntries(t, e.out).pval = e.prevpos /\ ReadEntries(t, e.out).prev_alias = e.prev_alias
      BY Zenon DEF Encoded
    <2> QED
      BY <1>3, <2>1, <2>2, <2>3, <2>4, Zenon DEF Encoded, next, slot
  <1>5. CASE c[k] # NoChain
    <2> DEFINE q == DecodeEntry(r, Number(number))
    <2>1. slot # 0
      BY <1>5, SlotIs DEF slot
    <2>2. ReadEntries(t, next.out) = q
      BY <1>2, <1>3, <2>1, ReadMore, Zenon DEF r
    <2>3. Number(number).zeros = 0 /\ Number(number).shval = number
      BY DEF Number
    <2>4. Decoded(c, t, q, k) /\ q.pval = next.prevpos /\ q.prev_alias = next.prev_alias
      <3>1. CASE Original(c, k)
        <4>1. slot = Position(c, k) /\ slot > 0
          BY <3>1, SlotIs, Zenon DEF slot
        <4>2. number = Position(c, (k - 1) + 1) - r.pval
          BY <1>1, <1>2, <4>1, Zenon
        <4>3. LET p == DecodePosition(r, Position(c, (k - 1) + 1) - r.pval)
              IN /\ Decoded(c, t, p, (k - 1) + 1) /\ Position(c, (k - 1) + 1) > r.pval
                 /\ p.pval = Position(c, (k - 1) + 1) /\ p.prev_alias = r.prev_alias
          <5>1. Original(c, (k - 1) + 1)
            BY <1>1, <3>1, Zenon
          <5> QED
            BY <1>1, <1>2, <5>1, DecodedPosition, Zenon
        <4>4. number > 0
          <5>1. r.pval \in Int /\ Position(c, (k - 1) + 1) \in Int
            <6>1. r \in DecState
              BY <1>2, Zenon DEF Decoded
            <6>2. k \in 1 .. n + 1
              BY <1>1
            <6>3. Position(c, k) \in Nat
              BY <6>2, PositionIs, Zenon
            <6> QED
              BY <1>1, <6>1, <6>3, DecStateIs
          <5> HIDE DEF number
          <5> QED
            BY <4>2, <4>3, <5>1
        <4> HIDE DEF number
        <4>5. q = DecodePosition(r, number)
          <5>1. ~(Number(number).zeros > 0)
            BY <2>3
          <5> QED
            BY <2>3, <4>4, <5>1, Zenon DEF DecodeEntry
        <4>6. next.prevpos = Position(c, k) /\ next.prev_alias = e.prev_alias
          BY <1>3, <2>1, <4>1, Zenon
        <4> QED
          BY <1>1, <1>2, <4>2, <4>3, <4>5, <4>6, Zenon
      <3>2. CASE ~Original(c, k)
        <4>1. slot = -FirstWith(c, k) /\ slot < 0 /\ Alias(c, k)
          BY <1>5, <3>2, SlotIs, Zenon DEF slot, Alias
        <4>2. ~(slot > 0)
          BY <1>1, <4>1
        <4>3. number = IF slot # e.prev_alias THEN slot ELSE 0
          BY <4>2, Zenon
        <4> HIDE DEF number
        <4>4. /\ number \in Int /\ ~(number > 0)
              /\ number < 0 => number = -FirstWith(c, k)
              /\ number >= 0 => r.prev_alias = -FirstWith(c, k)
          BY <1>1, <1>2, <4>1, <4>3
        <4>5. q = DecodeAlias(r, number)
          <5>1. ~(Number(number).zeros > 0)
            BY <2>3
          <5> QED
            BY <2>3, <4>4, <5>1, Zenon DEF DecodeEntry
        <4>6. LET p == DecodeAlias(r, number)
              IN /\ Decoded(c, t, p, (k - 1) + 1) /\ p.pval = r.pval
                 /\ p.prev_alias = -FirstWith(c, (k - 1) + 1)
          <5>1. /\ Alias(c, (k - 1) + 1)
                /\ number < 0 => number = -FirstWith(c, (k - 1) + 1)
                /\ number >= 0 => r.prev_alias = -FirstWith(c, (k - 1) + 1)
            BY <1>1, <4>1, <4>4, Zenon
          <5> QED
            BY <1>1, <1>2, <4>4, <5>1, DecodedAlias
        <4>7. next.prevpos = e.prevpos /\ next.prev_alias = slot
          BY <1>3, <2>1, <4>2, Zenon
        <4> QED
          BY <1>1, <1>2, <4>1, <4>5, <4>6, <4>7, Zenon
      <3> QED
        BY <3>1, <3>2, Zenon
    <2> HIDE DEF q
    <2>5. next.zerocnt \in 0 .. k /\ k - next.zerocnt = k /\ (k - next.zerocnt) + 1 .. k = {}
      BY <1>1, <1>3, <2>1
    <2> QED
      BY <1>3, <2>2, <2>4, <2>5, Zenon DEF Encoded, next, slot
  <1> QED
    BY <1>4, <1>5, Zenon

(* The index, decoded into any tables, gives all slots of the section.      *)
LEMMA IndexDecodes ==
  ASSUME NEW n \in 0 .. N, NEW c \in Contents(n), NEW t \in TablesType
  PROVE  Decoded(c, t, ReadEntries(t, Index(c, n)), n)
  <1> DEFINE s == [h \in 1 .. n |-> Slot(c, h)]
  <1>1. n \in Nat
    BY IndexAssumption DEF IndexAssumption
  <1>2. s \in Seq(Int) /\ Len(s) = n /\ \A k \in 1 .. n : s[k] = Slot(c, k)
    <2>1. \A h \in 1 .. n : Slot(c, h) \in Int
      BY SlotIs, Zenon
    <2> QED
      BY <1>1, <2>1
  <1> HIDE DEF s
  <1>3. PICK acc \in [0 .. n -> EncState] :
          /\ acc[0] = EncodeStart
          /\ \A k \in 1 .. n : acc[k] = EncodeSlot(acc[k - 1], s[k])
          /\ acc[n] = FoldLeft(EncodeSlot, EncodeStart, s)
    BY <1>2, EncodeTrace, Zenon
  <1> DEFINE S == {k \in Nat : k <= n => Encoded(c, t, k, acc[k])}
  <1>4. 0 \in S
    <2>1. /\ EncodeStart \in EncState /\ EncodeStart.zerocnt = 0 /\ EncodeStart.out = <<>>
          /\ EncodeStart.prevpos = 0 /\ EncodeStart.prev_alias = 0
      BY DEF EncodeStart, EncState
    <2>2. /\ DecodeStart(t) \in DecState /\ DecodeStart(t).pval = 0 /\ DecodeStart(t).prev_alias = 0
      BY DEF DecodeStart, DecState, TablesType
    <2>3. ReadEntries(t, <<>>) = DecodeStart(t)
      <3>1. PICK e \in IndexEntry : TRUE
        <4>1. Run(0) \in IndexEntry
          BY DEF Run, IndexEntry
        <4> QED
          BY <4>1
      <3>2. <<>> \in Seq(IndexEntry)
        OBVIOUS
      <3> QED
        BY <2>2, <3>1, <3>2, DecodeMore, Zenon DEF ReadEntries
    <2>4. 0 - EncodeStart.zerocnt = 0 /\ EncodeStart.zerocnt \in 0 .. 0 /\ 0 + 1 .. 0 = {}
      BY <2>1
    <2>5. Encoded(c, t, 0, EncodeStart)
      BY <2>1, <2>2, <2>3, <2>4, DecodedNone, Zenon DEF Encoded
    <2> QED
      BY <1>3, <2>5
  <1>5. ASSUME NEW k \in 1 .. n, k - 1 \in S PROVE k \in S
    <2>1. Encoded(c, t, k - 1, acc[k - 1]) /\ k \in Nat
      BY <1>1, <1>5
    <2>2. Encoded(c, t, k, EncodeSlot(acc[k - 1], Slot(c, k)))
      BY <2>1, SlotEncodes, Zenon
    <2>3. Encoded(c, t, k, acc[k])
      BY <1>2, <1>3, <2>2, Zenon
    <2> QED
      BY <2>1, <2>3
  <1> HIDE DEF S
  <1>6. 0 .. n \subseteq S
    BY <1>1, <1>4, <1>5, BoundedInduction
  <1>7. Encoded(c, t, n, acc[n])
    BY <1>1, <1>6 DEF S
  <1>8. Index(c, n) = BeforeNumber(acc[n])
    BY <1>3, Zenon DEF Index, BeforeNumber, EncodeStart, s
  <1>9. n \in 0 .. n
    BY <1>1
  <1> QED
    <2>1. Decoded(c, t, ReadEntries(t, BeforeNumber(acc[n])), n)
      BY <1>7, <1>9, RunDecodes, Zenon
    <2> QED
      BY <1>8, <2>1, Zenon

(* The end of the section, as the end of its last chain.                    *)
WithEnd(r, end) == [r EXCEPT !.pos[r.idx] = end, !.len[r.pidx] = end - r.pos[r.pidx]]

(* The tables once the aliases up to index i are resolved; what they were   *)
(* before can still be seen where the section has no chain.                 *)
Resolved(c, n, t, r, i) ==
  \A h \in 1 .. n :
    /\ Original(c, h) => r.pos[h - 1] = Position(c, h) /\ r.len[h - 1] = Size(c[h])
    /\ Alias(c, h) /\ h > i => r.pos[h - 1] = 0 /\ r.len[h - 1] = -FirstWith(c, h)
    /\ Alias(c, h) /\ h <= i => r.pos[h - 1] = Position(c, FirstWith(c, h)) /\ r.len[h - 1] = Size(c[h])
    /\ c[h] = NoChain /\ t = NewTables => r.pos[h - 1] = 0 /\ r.len[h - 1] >= 0

(* A section has a chain, so one of them is the last.                       *)
LEMMA SomeLast ==
  ASSUME NEW n \in 0 .. N, NEW c \in Contents(n), NEW t, NEW r, Decoded(c, t, r, n)
  PROVE  LastPlaced(c, r, n)
  <1>1. PICK h \in 1 .. n : c[h] # NoChain
    BY DEF Contents
  <1>2. n \in 0 .. n /\ n \in Nat /\ h <= n + 1
    BY IndexAssumption DEF IndexAssumption
  <1>3. ASSUME \A g \in 1 .. n : ~Original(c, g) PROVE FALSE
    <2>1. ~Alias(c, h)
      BY <1>2, <1>3, NoneBefore, Zenon
    <2> QED
      BY <1>1, <1>3, <2>1, Zenon DEF Alias
  <1> QED
    BY <1>3, Zenon DEF Decoded, NonePlaced

(* With the end of the section, the last chain has its length, too: every   *)
(* handle is as the writer left it, aliases still naming a handle.          *)
LEMMA EndIsKept ==
  ASSUME NEW n \in 0 .. N, NEW c \in Contents(n), NEW t \in TablesType, NEW r, Decoded(c, t, r, n)
  PROVE  LET q == WithEnd(r, IndexPosition(c, n))
         IN q \in DecState /\ Resolved(c, n, t, q, 0)
  <1> DEFINE end == IndexPosition(c, n)
             q == WithEnd(r, end)
             p == r.pidx + 1
             pos == [r.pos EXCEPT ![r.idx] = end]
             len == [r.len EXCEPT ![r.pidx] = end - r.pos[r.pidx]]
  <1>1. n \in Nat /\ N \in Nat
    BY IndexAssumption DEF IndexAssumption
  <1>2. /\ r \in DecState /\ r.idx = n /\ r.pidx \in Nat
        /\ r.pos \in Table /\ r.len \in Table /\ \A i \in 0 .. N : r.pos[i] \in Int /\ r.len[i] \in Int
    BY DecStateIs DEF Decoded
  <1>3. p \in 1 .. n /\ Original(c, p) /\ r.pval = Position(c, p) /\ end = r.pval + Size(c[p])
    BY SomeLast, Zenon DEF LastPlaced, IndexPosition
  <1>4. /\ c[p] # NoChain /\ Size(c[p]) \in Nat /\ Position(c, p) \in Nat /\ r.pidx \in 0 .. N /\ p - 1 = r.pidx
    <2>1. p \in 1 .. n + 1 /\ r.pidx \in 0 .. N /\ p - 1 = r.pidx
      BY <1>1, <1>2, <1>3
    <2>2. c[p] # NoChain
      BY <1>3, Zenon DEF Original
    <2>3. Position(c, p) \in Nat
      BY <2>1, PositionIs, Zenon
    <2>4. Size(c[p]) \in Nat
      BY <1>3, <2>2, AddedIs, Zenon
    <2> QED
      BY <2>1, <2>2, <2>3, <2>4, Zenon
  <1>5. end \in Int
    BY <1>3, <1>4
  <1>6. q = [r EXCEPT !.pos = pos, !.len = len]
    BY Zenon DEF WithEnd
  <1> HIDE DEF q, end, p
  <1>7. /\ pos \in Table
        /\ \A i \in 0 .. N : pos[i] = IF i = n THEN end ELSE r.pos[i]
    BY <1>2, <1>5 DEF Table
  <1>8. /\ len \in Table
        /\ \A i \in 0 .. N : len[i] = IF i = r.pidx THEN end - r.pos[i] ELSE r.len[i]
    <2>1. len = [i \in 0 .. N |-> IF i = r.pidx THEN end - r.pos[r.pidx] ELSE r.len[i]]
      BY <1>2 DEF Table
    <2> HIDE DEF len
    <2>2. \A i \in 0 .. N : len[i] = IF i = r.pidx THEN end - r.pos[i] ELSE r.len[i]
      BY <2>1
    <2>3. \A i \in 0 .. N : len[i] \in Int
      BY <1>2, <1>5, <2>2
    <2> QED
      BY <2>1, <2>2, <2>3 DEF Table
  <1> HIDE DEF pos, len
  <1>9. q = [pos |-> pos, len |-> len, pidx |-> r.pidx, idx |-> r.idx, pval |-> r.pval, prev_alias |-> r.prev_alias]
    BY <1>2, <1>6 DEF DecState
  <1>10. q \in DecState
    BY <1>2, <1>7, <1>8, <1>9 DEF DecState
  <1>11. q.pos = pos /\ q.len = len
    BY <1>9
  <1>12. ASSUME NEW h \in 1 .. n
         PROVE  /\ Original(c, h) => q.pos[h - 1] = Position(c, h) /\ q.len[h - 1] = Size(c[h])
                /\ Alias(c, h) => q.pos[h - 1] = 0 /\ q.len[h - 1] = -FirstWith(c, h)
                /\ c[h] = NoChain /\ t = NewTables => q.pos[h - 1] = 0 /\ q.len[h - 1] >= 0
    <2>1. Shown(c, r, h) /\ h - 1 \in 0 .. N /\ h - 1 # n
      BY <1>1 DEF Decoded
    <2>2. q.pos[h - 1] = r.pos[h - 1]
      BY <1>7, <1>11, <2>1, Zenon
    <2>3. CASE h = p
      <3>1. q.len[h - 1] = end - r.pos[h - 1]
        BY <1>4, <1>8, <1>11, <2>1, <2>3, Zenon
      <3>2. r.pos[h - 1] = Position(c, h)
        BY <1>3, <2>1, <2>3, Zenon DEF Shown
      <3>3. q.len[h - 1] = Size(c[h])
        BY <1>3, <1>4, <2>3, <3>1, <3>2
      <3> QED
        BY <1>3, <1>4, <2>2, <2>3, <3>2, <3>3, Zenon DEF Alias
    <2>4. CASE h # p
      <3>1. h - 1 # r.pidx
        <4>1. p \in Nat /\ h \in Nat
          BY <1>1, <1>3
        <4> QED
          BY <1>4, <2>4, <4>1
      <3>2. q.len[h - 1] = r.len[h - 1]
        BY <1>8, <1>11, <2>1, <3>1, Zenon
      <3>3. c[h] = NoChain /\ t = NewTables => r.pos[h - 1] = 0 /\ r.len[h - 1] >= 0
        <4>1. (h - 1) + 1 = h
          BY <1>1
        <4> QED
          BY <2>1, <4>1, Zenon DEF Decoded, Unused
      <3> QED
        BY <2>1, <2>2, <3>1, <3>2, <3>3, Zenon DEF Shown
    <2> QED
      BY <2>3, <2>4
  <1>13. \A h \in 1 .. n : ~(h <= 0)
    BY <1>1
  <1>14. Resolved(c, n, t, q, 0)
    BY <1>12, <1>13, Zenon DEF Resolved
  <1> QED
    BY <1>10, <1>14, Zenon DEF q, end

(* An alias takes over the place of a handle before it, which has its own.  *)
LEMMA OneMoreResolved ==
  ASSUME NEW n \in 0 .. N, NEW c \in Contents(n), NEW t, NEW r \in DecState,
         NEW i \in 1 .. n, Resolved(c, n, t, r, i - 1)
  PROVE  Resolved(c, n, t, ResolveAlias(r, i - 1), i)
  <1> DEFINE q == ResolveAlias(r, i - 1)
             v32 == -r.len[i - 1] - 1
             taken == r.len[i - 1] < 0 /\ r.pos[i - 1] = 0 /\ v32 < i - 1
  <1>1. n \in Nat /\ i \in Nat /\ i - 1 \in 0 .. N /\ N \in Nat
    BY IndexAssumption DEF IndexAssumption
  <1>2. /\ taken => /\ v32 \in 0 .. N
                    /\ \A j \in 0 .. N : /\ q.pos[j] = IF j = i - 1 THEN r.pos[v32] ELSE r.pos[j]
                                         /\ q.len[j] = IF j = i - 1 THEN r.len[v32] ELSE r.len[j]
        /\ ~taken => q = r
    BY <1>1, ResolveAliasIs, Zenon
  <1> HIDE DEF q
  <1>3. ASSUME NEW h \in 1 .. n, h # i
        PROVE  q.pos[h - 1] = r.pos[h - 1] /\ q.len[h - 1] = r.len[h - 1]
    <2>1. h - 1 \in 0 .. N /\ h - 1 # i - 1
      BY <1>1, <1>3
    <2> HIDE DEF taken, v32
    <2> QED
      BY <1>2, <2>1, Zenon
  <1>4. /\ Original(c, i) => q = r
        /\ c[i] = NoChain /\ t = NewTables => q = r
    <2>1. ASSUME Original(c, i) PROVE ~taken
      <3>1. r.pos[i - 1] = Position(c, i)
        BY <2>1, Zenon DEF Resolved
      <3>2. Position(c, i) # 0
        <4>1. i \in 1 .. n + 1
          BY <1>1
        <4>2. Position(c, i) \in Nat /\ Position(c, i) >= 1
          BY <4>1, PositionIs, Zenon
        <4> QED
          BY <4>2
      <3> QED
        BY <3>1, <3>2, Zenon
    <2>2. ASSUME c[i] = NoChain, t = NewTables PROVE ~taken
      <3>1. r.len[i - 1] >= 0 /\ r.len[i - 1] \in Int
        BY <1>1, <2>2, DecStateIs, Zenon DEF Resolved
      <3> QED
        BY <3>1
    <2> HIDE DEF taken
    <2> QED
      BY <1>2, <2>1, <2>2, Zenon
  <1>5. ASSUME Alias(c, i)
        PROVE  q.pos[i - 1] = Position(c, FirstWith(c, i)) /\ q.len[i - 1] = Size(c[i])
    <2> DEFINE g == FirstWith(c, i)
    <2>1. g \in 1 .. i - 1 /\ Original(c, g) /\ c[g] = c[i]
      BY <1>5, SlotIs, FirstWithIs, Zenon DEF Alias
    <2>2. r.pos[i - 1] = 0 /\ r.len[i - 1] = -g
      <3>1. i > i - 1
        BY <1>1
      <3> QED
        BY <1>5, <3>1, Zenon DEF Resolved
    <2> HIDE DEF g
    <2>3. taken /\ v32 = g - 1 /\ g \in 1 .. n
      BY <1>1, <2>1, <2>2
    <2> HIDE DEF taken, v32
    <2>4. q.pos[i - 1] = r.pos[g - 1] /\ q.len[i - 1] = r.len[g - 1]
      BY <1>1, <1>2, <2>3, Zenon
    <2>5. r.pos[g - 1] = Position(c, g) /\ r.len[g - 1] = Size(c[g])
      BY <2>1, <2>3, Zenon DEF Resolved
    <2> QED
      BY <2>1, <2>4, <2>5, Zenon DEF g
  <1> SUFFICES ASSUME NEW h \in 1 .. n
               PROVE  /\ Original(c, h) => q.pos[h - 1] = Position(c, h) /\ q.len[h - 1] = Size(c[h])
                      /\ Alias(c, h) /\ h > i => q.pos[h - 1] = 0 /\ q.len[h - 1] = -FirstWith(c, h)
                      /\ Alias(c, h) /\ h <= i =>
                           q.pos[h - 1] = Position(c, FirstWith(c, h)) /\ q.len[h - 1] = Size(c[h])
                      /\ c[h] = NoChain /\ t = NewTables => q.pos[h - 1] = 0 /\ q.len[h - 1] >= 0
    BY Zenon DEF Resolved, q
  <1>6. /\ Original(c, h) => r.pos[h - 1] = Position(c, h) /\ r.len[h - 1] = Size(c[h])
        /\ Alias(c, h) /\ h > i - 1 => r.pos[h - 1] = 0 /\ r.len[h - 1] = -FirstWith(c, h)
        /\ Alias(c, h) /\ h <= i - 1 =>
             r.pos[h - 1] = Position(c, FirstWith(c, h)) /\ r.len[h - 1] = Size(c[h])
        /\ c[h] = NoChain /\ t = NewTables => r.pos[h - 1] = 0 /\ r.len[h - 1] >= 0
    BY Zenon DEF Resolved
  <1>7. (h > i => h > i - 1 /\ h # i) /\ (h <= i => h = i \/ h <= i - 1) /\ (h = i => ~(h > i))
    BY <1>1
  <1> QED
    BY <1>3, <1>4, <1>5, <1>6, <1>7, Zenon DEF Alias

(* Where the section has the chain of a handle.                             *)
Place(c, h) == <<Position(c, FirstWith(c, h)), Size(c[h])>>

(* A reader finds every chain there; with new tables nothing else.          *)
LEMMA DecodeFinds ==
  ASSUME NEW n \in 0 .. N, NEW c \in Contents(n), NEW t \in TablesType
  PROVE  LET d == Decode(t, Index(c, n), IndexPosition(c, n))
         IN /\ d \in TablesType
            /\ \A h \in 1 .. n : c[h] # NoChain => Found(d, n)[h] = Place(c, h)
            /\ t = NewTables => \A h \in 1 .. n : c[h] = NoChain => Found(d, n)[h] = <<>>
  <1> DEFINE d == Decode(t, Index(c, n), IndexPosition(c, n))
             r == ReadEntries(t, Index(c, n))
             closed == WithEnd(r, IndexPosition(c, n))
             s == [i \in 1 .. r.idx |-> i - 1]
             full == FoldLeft(ResolveAlias, closed, s)
  <1>1. n \in Nat /\ N \in Nat
    BY IndexAssumption DEF IndexAssumption
  <1>2. Decoded(c, t, r, n)
    BY IndexDecodes, Zenon
  <1>3. d = [pos |-> full.pos, len |-> full.len, pidx |-> full.pidx]
    BY Zenon DEF Decode, ReadEntries, DecodeStart, WithEnd
  <1> HIDE DEF d, r
  <1>4. closed \in DecState /\ Resolved(c, n, t, closed, 0)
    BY <1>2, EndIsKept, Zenon
  <1>5. r.idx = n
    BY <1>2, Zenon DEF Decoded
  <1>6. s \in Seq(0 .. N) /\ Len(s) = n /\ \A i \in 1 .. n : s[i] = i - 1
    <2>1. s = [i \in 1 .. n |-> i - 1] /\ \A i \in 1 .. n : i - 1 \in 0 .. N
      BY <1>1, <1>5
    <2> HIDE DEF s
    <2> QED
      BY <1>1, <2>1
  <1> HIDE DEF s, closed
  <1>7. PICK acc \in [0 .. n -> DecState] :
          /\ acc[0] = closed
          /\ \A k \in 1 .. n : acc[k] = ResolveAlias(acc[k - 1], s[k])
          /\ acc[n] = full
    BY <1>4, <1>6, ResolveTrace, Zenon
  <1> HIDE DEF full
  <1> DEFINE S == {k \in Nat : k <= n => Resolved(c, n, t, acc[k], k)}
  <1>8. 0 \in S
    BY <1>4, <1>7
  <1>9. ASSUME NEW k \in 1 .. n, k - 1 \in S PROVE k \in S
    <2>1. Resolved(c, n, t, acc[k - 1], k - 1) /\ k \in Nat /\ k - 1 \in 0 .. n
      BY <1>1, <1>9
    <2>2. acc[k - 1] \in DecState
      BY <2>1
    <2>3. Resolved(c, n, t, ResolveAlias(acc[k - 1], k - 1), k)
      BY <2>1, <2>2, OneMoreResolved, Zenon
    <2>4. Resolved(c, n, t, acc[k], k)
      BY <1>6, <1>7, <2>3, Zenon
    <2> QED
      BY <2>1, <2>4
  <1> HIDE DEF S
  <1>10. 0 .. n \subseteq S
    BY <1>1, <1>8, <1>9, BoundedInduction
  <1>11. Resolved(c, n, t, full, n) /\ full \in DecState
    <2>1. n \in S /\ n \in 0 .. n
      BY <1>1, <1>10
    <2>2. Resolved(c, n, t, acc[n], n)
      BY <1>1, <2>1 DEF S
    <2>3. acc[n] \in DecState
      BY <2>1
    <2> QED
      BY <1>7, <2>2, <2>3, Zenon
  <1>12. d.pos = full.pos /\ d.len = full.len /\ d.pidx = full.pidx
    BY <1>3
  <1>13. d \in TablesType
    BY <1>3, <1>11, DecStateIs DEF TablesType
  <1>14. ASSUME NEW h \in 1 .. n
         PROVE  Found(d, n)[h] = IF full.pos[h - 1] = 0 THEN <<>> ELSE <<full.pos[h - 1], full.len[h - 1]>>
    BY <1>12, Zenon DEF Found
  <1>15. ASSUME NEW h \in 1 .. n, c[h] # NoChain PROVE Found(d, n)[h] = Place(c, h)
    <2> DEFINE g == FirstWith(c, h)
    <2>1. g \in 1 .. h
      BY FirstWithIs, Zenon
    <2>2. full.pos[h - 1] = Position(c, g) /\ full.len[h - 1] = Size(c[h])
      <3>1. CASE Original(c, h)
        BY <1>11, <3>1, Zenon DEF Resolved, Original
      <3>2. CASE ~Original(c, h)
        <4>1. h <= n
          BY <1>1
        <4> QED
          BY <1>11, <1>15, <3>2, <4>1, Zenon DEF Resolved, Alias
      <3> QED
        BY <3>1, <3>2
    <2>3. Position(c, g) # 0
      <3>1. g \in 1 .. n + 1
        BY <1>1, <2>1
      <3>2. Position(c, g) \in Nat /\ Position(c, g) >= 1
        BY <3>1, PositionIs, Zenon
      <3> QED
        BY <3>2
    <2> QED
      BY <1>14, <2>2, <2>3, Zenon DEF Place
  <1>16. ASSUME t = NewTables, NEW h \in 1 .. n, c[h] = NoChain PROVE Found(d, n)[h] = <<>>
    BY <1>11, <1>14, <1>16, Zenon DEF Resolved
  <1> QED
    BY <1>13, <1>15, <1>16, Zenon DEF d

----------------------------------------------------------------------------
(* The tables a reader keeps have their type, and both readers have found   *)
(* what the section has.                                                    *)
IndexInv ==
  /\ vc_maxhandle_largest \in 0 .. N /\ tables \in TablesType
  /\ SeekFindsExactly /\ IterationMissesNothing

(* No section is written yet.                                               *)
LEMMA IndexStart == Init => IndexInv
  <1> SUFFICES ASSUME Init PROVE IndexInv
    OBVIOUS
  <1>1. NewTables \in TablesType
    BY DEF NewTables, TablesType, Table
  <1>2. content = <<>> /\ tables = NewTables /\ vc_maxhandle_largest = 0
    BY Zenon DEF Init
  <1>3. 0 \in 0 .. N /\ DOMAIN content = {}
    BY <1>2, IndexAssumption DEF IndexAssumption
  <1> QED
    BY <1>1, <1>2, <1>3, Zenon DEF IndexInv, SeekFindsExactly, IterationMissesNothing

(* Both readers find the chains of a section, one with new tables, the      *)
(* other with those of the section before, or new ones but for pidx.        *)
LEMMA SectionFound ==
  ASSUME IndexInv, NEW n \in vc_maxhandle_largest .. N, NEW c \in Contents(n), ReadSection(n, c)
  PROVE  IndexInv'
  <1> DEFINE end == IndexPosition(c, n)
             kept == IF n > vc_maxhandle_largest THEN [NewTables EXCEPT !.pidx = tables.pidx] ELSE tables
  <1>1. n \in 0 .. N
    BY IndexAssumption DEF IndexAssumption, IndexInv
  <1>2. NewTables \in TablesType /\ kept \in TablesType
    <2>1. NewTables \in TablesType
      BY DEF NewTables, TablesType, Table
    <2>2. [NewTables EXCEPT !.pidx = tables.pidx] \in TablesType
      BY <2>1 DEF TablesType, IndexInv
    <2> QED
      BY <2>1, <2>2, Zenon DEF IndexInv
  <1>3. /\ content' = c /\ vc_maxhandle_largest' = n
        /\ tables' = Decode(kept, Index(c, n), end) /\ iterated' = Found(tables', n)
        /\ sought' = Found(Decode(NewTables, Index(c, n), end), n)
    BY Zenon DEF ReadSection
  <1> HIDE DEF kept
  <1>4. /\ tables' \in TablesType
        /\ \A h \in 1 .. n : c[h] # NoChain => iterated'[h] = Place(c, h)
    BY <1>1, <1>2, <1>3, DecodeFinds, Zenon
  <1>5. /\ \A h \in 1 .. n : c[h] # NoChain => sought'[h] = Place(c, h)
        /\ \A h \in 1 .. n : c[h] = NoChain => sought'[h] = <<>>
    BY <1>1, <1>2, <1>3, DecodeFinds, Zenon
  <1>6. DOMAIN c = 1 .. n
    BY DEF Contents
  <1>7. \A h \in 1 .. n : Stored(h)' = IF c[h] = NoChain THEN <<>> ELSE Place(c, h)
    BY <1>3, Zenon DEF Stored, Place
  <1>8. SeekFindsExactly'
    BY <1>3, <1>5, <1>6, <1>7, Zenon DEF SeekFindsExactly
  <1>9. IterationMissesNothing'
    BY <1>3, <1>4, <1>6, <1>7, Zenon DEF IterationMissesNothing
  <1> QED
    BY <1>1, <1>3, <1>4, <1>8, <1>9, Zenon DEF IndexInv

(* So does every step.                                                      *)
LEMMA IndexKept == IndexInv /\ [Next]_vars => IndexInv'
  <1> SUFFICES ASSUME IndexInv, [Next]_vars PROVE IndexInv'
    OBVIOUS
  <1>1. CASE Next
    BY <1>1, SectionFound, Zenon DEF Next
  <1>2. CASE UNCHANGED vars
    BY <1>2 DEF vars, IndexInv, SeekFindsExactly, IterationMissesNothing, Stored
  <1> QED
    BY <1>1, <1>2, Zenon

(* fstReaderGetValueFromHandleAtTime finds every chain of every section     *)
(* where fstWriterFlushContextPrivate put it, and none that is not there:   *)
(* for every number of handles, set of chains and size of them.             *)
THEOREM SeekAlwaysFindsExactly == Spec => []SeekFindsExactly
  <1>1. IndexInv => SeekFindsExactly
    BY Zenon DEF IndexInv
  <1> QED
    BY IndexStart, IndexKept, <1>1, PTL DEF Spec

(* fstReaderIterBlocks2 misses no chain of any section, and finds each one  *)
(* in full, whatever the sections before it have left in its tables.        *)
THEOREM IterationAlwaysFindsChains == Spec => []IterationMissesNothing
  <1>1. IndexInv => IterationMissesNothing
    BY Zenon DEF IndexInv
  <1> QED
    BY IndexStart, IndexKept, <1>1, PTL DEF Spec
=============================================================================
