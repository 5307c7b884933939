-------------------------- MODULE FstHierProofs ---------------------------
(***************************************************************************)
(* Proofs about FstHier, for every scope, variable, attribute, stem and    *)
(* table HierAssumption allows, and every order of the calls.              *)
(*                                                                         *)
(* Each declaring call writes one or two entries.  Means says of the bytes *)
(* of an entry that wherever they stand in memory the readers find the     *)
(* next entry behind them and read them as the record of the call; it is   *)
(* shown of each kind of entry, from the varints and strings it is made    *)
(* of.  LaidOut is the invariant of the file: every record said stands at  *)
(* its offset.  Stands puts the reader at the offset of the record it      *)
(* returns next, unless fstReaderProcessHier moved the handle.  StemInv    *)
(* adds that the numbers of paths are unique.                              *)
(*                                                                         *)
(* TypesKnown is the one hypothesis of three of the theorems: the types of *)
(* the variables are ones fstReaderIterateHier has a case for.  Without it *)
(* they are false, as the run on the types of the FIRRTL supplement shows. *)
(***************************************************************************)
EXTENDS FstHier, Induction, SequenceTheorems, TLAPS

----------------------------------------------------------------------------
(* What a power of two is; a byte and seven bits of it divide the modulus.  *)
LEMMA ModulusIs ==
  /\ Modulus \in Nat /\ Modulus > 255
  /\ Modulus = 128 * (Modulus \div 128) /\ Modulus \div 128 \in Nat
  /\ Modulus = 256 * (Modulus \div 256) /\ Modulus \div 256 \in Nat
  <1>1. Width \in Nat /\ Width > 8
    BY CodecAssumption DEF CodecAssumption
  <1> DEFINE step == [k \in 1 .. Width |-> [v \in Nat |-> 2 * v]]
             Fits(f) == f = [n \in 0 .. Width |-> IF n = 0 THEN 1 ELSE 2 * f[n - 1]]
             power == CHOOSE f : Fits(f)
  <1>2. PICK p : Recurs(p, Nat, 1, step, Width)
    <2>1. 1 \in Nat /\ step \in [1 .. Width -> [Nat -> Nat]]
      OBVIOUS
    <2> DEFINE one == 1
    <2>2. one \in Nat
      OBVIOUS
    <2> HIDE DEF step, one
    <2>3. \E f : Recurs(f, Nat, one, step, Width)
      BY <1>1, <2>1, <2>2, RecursionExists
    <2> QED
      BY <2>3 DEF one
  <1>3. p \in [0 .. Width -> Nat] /\ p[0] = 1 /\ \A k \in 1 .. Width : p[k] = 2 * p[k - 1]
    <2>1. /\ p \in [0 .. Width -> Nat] /\ p[0] = 1
          /\ \A k \in 1 .. Width : p[k] = step[k][p[k - 1]]
      BY <1>2, Zenon DEF Recurs
    <2>2. ASSUME NEW k \in 1 .. Width PROVE step[k][p[k - 1]] = 2 * p[k - 1]
      <3>1. k - 1 \in 0 .. Width
        BY <1>1
      <3> QED
        BY <2>1, <3>1
    <2> QED
      BY <2>1, <2>2
  <1>4. Fits(p)
    <2>1. ASSUME NEW n \in 0 .. Width PROVE p[n] = IF n = 0 THEN 1 ELSE 2 * p[n - 1]
      BY <1>1, <1>3
    <2>2. p = [n \in 0 .. Width |-> p[n]]
      BY <1>3
    <2> QED
      BY <2>1, <2>2, Zenon
  <1>5. Fits(power)
    BY <1>4, Zenon
  <1>6. Modulus = power[Width]
    BY Zenon DEF Modulus
  <1> HIDE DEF power
  <1>7. power[0] = 1 /\ \A k \in 1 .. Width : power[k] = 2 * power[k - 1]
    BY <1>1, <1>5
  <1>8. \A k \in 0 .. Width : power[k] = p[k]
    <2>1. Alike(power, p, Width)
      BY <1>3, <1>7, Zenon DEF Alike
    <2> QED
      BY <1>1, <2>1, SameRecursion
  <1> DEFINE q(i) == p[Width - i]
  <1>9. \A i \in 0 .. 8 : q(i) \in Nat
    <2>1. ASSUME NEW i \in 0 .. 8 PROVE Width - i \in 0 .. Width
      BY <1>1
    <2> QED
      BY <1>3, <2>1
  <1>10. ASSUME NEW i \in 0 .. 7 PROVE q(i) = 2 * q(i + 1)
    <2>1. Width - i \in 1 .. Width /\ (Width - i) - 1 = Width - (i + 1)
      BY <1>1
    <2> QED
      BY <1>3, <2>1
  <1>11. \A k \in 0 .. Width : p[k] > 0
    <2> DEFINE S == {x \in Nat : x > 0}
    <2>1. p[0] \in S /\ \A k \in 1 .. Width : p[k - 1] \in S => p[k] \in S
      BY <1>3
    <2> HIDE DEF S
    <2>2. \A k \in 0 .. Width : p[k] \in S
      BY <1>1, <2>1, RecursionKeeps
    <2> QED
      BY <2>2 DEF S
  <1>12. q(8) > 0 /\ q(0) = Modulus
    BY <1>1, <1>6, <1>8, <1>11
  <1> HIDE DEF q
  <1>13. Modulus = 128 * q(7) /\ q(7) = 2 * q(8)
    <2>1. /\ q(0) = 2 * q(1) /\ q(1) = 2 * q(2) /\ q(2) = 2 * q(3) /\ q(3) = 2 * q(4)
          /\ q(4) = 2 * q(5) /\ q(5) = 2 * q(6) /\ q(6) = 2 * q(7) /\ q(7) = 2 * q(8)
      <3>1. /\ q(0) = 2 * q(0 + 1) /\ q(1) = 2 * q(1 + 1) /\ q(2) = 2 * q(2 + 1)
            /\ q(3) = 2 * q(3 + 1) /\ q(4) = 2 * q(4 + 1) /\ q(5) = 2 * q(5 + 1)
            /\ q(6) = 2 * q(6 + 1) /\ q(7) = 2 * q(7 + 1)
        BY <1>10
      <3> QED
        BY <3>1 DEF q
    <2> QED
      BY <1>9, <1>12, <2>1
  <1>14. q(7) \in Nat /\ q(8) \in Nat
    BY <1>9
  <1> QED
    BY <1>12, <1>13, <1>14

----------------------------------------------------------------------------
Bytes == Seq(Byte)
(* A varint is a byte, or a byte and another varint.                        *)
LEMMA VarintIs ==
  ASSUME NEW v \in Nat
  PROVE  /\ Varint[v] \in Bytes /\ v \div 128 \in Nat
         /\ v < 128 => Varint[v] = <<v>>
         /\ v >= 128 => Varint[v] = <<128 + (v % 128)>> \o Varint[v \div 128]
  <1> DEFINE stop == {u \in Nat : u \div 128 = 0}
             base == [u \in Nat |-> IF u \div 128 = 0 THEN <<u>> ELSE <<>>]
             step == [u \in Nat |-> [s \in Bytes |-> <<128 + (u % 128)>> \o s]]
             pred == [u \in Nat |-> u \div 128]
             Fits(f) == f = [u \in Nat |-> IF u \div 128 = 0 THEN <<u>>
                                           ELSE <<128 + (u % 128)>> \o f[u \div 128]]
  <1>1. base \in [Nat -> Bytes]
    <2>1. ASSUME NEW u \in Nat, u \div 128 = 0 PROVE <<u>> \in Bytes
      <3>1. u \in Byte
        BY <2>1 DEF Byte
      <3> QED
        BY <3>1 DEF Bytes
    <2>2. <<>> \in Bytes
      BY DEF Bytes
    <2> QED
      BY <2>1, <2>2
  <1>2. step \in [Nat -> [Bytes -> Bytes]]
    <2>1. ASSUME NEW u \in Nat, NEW s \in Bytes PROVE <<128 + (u % 128)>> \o s \in Bytes
      BY DEF Bytes, Byte
    <2> QED
      BY <2>1
  <1>3. GoesDown(stop, pred)
    BY DEF GoesDown
  <1>4. PICK f \in [Nat -> Bytes] : Descends(f, Nat, stop, base, step, pred)
    <2> HIDE DEF stop, base, step, pred
    <2> QED
      BY <1>1, <1>2, <1>3, DescentExists
  <1>5. ASSUME NEW u \in Nat
        PROVE  f[u] = IF u \div 128 = 0 THEN <<u>> ELSE <<128 + (u % 128)>> \o f[u \div 128]
    <2>1. f[u] = IF u \in stop THEN base[u] ELSE step[u][f[pred[u]]]
      BY <1>4, Zenon DEF Descends
    <2>2. u \div 128 \in Nat /\ pred[u] = u \div 128
      OBVIOUS
    <2>3. f[u \div 128] \in Bytes
      BY <2>2
    <2>4. u \in stop <=> u \div 128 = 0
      OBVIOUS
    <2>5. u \div 128 = 0 => base[u] = <<u>>
      OBVIOUS
    <2>6. step[u][f[u \div 128]] = <<128 + (u % 128)>> \o f[u \div 128]
      BY <2>3
    <2> HIDE DEF stop, base, step, pred
    <2> QED
      BY <2>1, <2>2, <2>4, <2>5, <2>6, Zenon
  <1>6. Fits(f)
    <2>1. f = [u \in Nat |-> f[u]]
      OBVIOUS
    <2> QED
      BY <1>5, <2>1, Zenon
  <1>7. Varint = CHOOSE g : Fits(g)
    BY Zenon DEF Varint
  <1>8. Fits(Varint)
    BY <1>6, <1>7, Zenon
  <1>9. \A u \in Nat : Varint[u] = IF u \div 128 = 0 THEN <<u>> ELSE <<128 + (u % 128)>> \o Varint[u \div 128]
    BY <1>8, Zenon
  <1>10. \A u \in Nat : Varint[u] \in Bytes
    <2> DEFINE S == {u \in Nat : Varint[u] \in Bytes}
    <2>1. ASSUME NEW u \in Nat, \A w \in 0 .. u - 1 : w \in S PROVE u \in S
      <3>1. CASE u \div 128 = 0
        <4>1. u < 128
          BY <3>1
        <4>2. Varint[u] = <<u>>
          BY <1>9, <3>1, Zenon
        <4>3. Varint[u] \in Bytes
          BY <4>1, <4>2 DEF Bytes, Byte
        <4> QED
          BY <4>3
      <3>2. CASE u \div 128 # 0
        <4>1. u \div 128 \in 0 .. u - 1
          BY <3>2
        <4>2. Varint[u \div 128] \in Bytes
          BY <2>1, <4>1
        <4>3. Varint[u] = <<128 + (u % 128)>> \o Varint[u \div 128]
          BY <1>9, <3>2, Zenon
        <4>4. <<128 + (u % 128)>> \in Bytes
          BY DEF Bytes, Byte
        <4>5. Varint[u] \in Bytes
          BY <4>2, <4>3, <4>4 DEF Bytes
        <4> QED
          BY <4>5
      <3> QED
        BY <3>1, <3>2
    <2> HIDE DEF S
    <2>2. \A u \in Nat : u \in S
      BY <2>1, StrongInduction
    <2> QED
      BY <2>2 DEF S
  <1>11. v \div 128 \in Nat /\ (v < 128 <=> v \div 128 = 0)
    OBVIOUS
  <1> QED
    <2>1. v < 128 => ~(v >= 128) /\ v \div 128 = 0
      OBVIOUS
    <2>2. v >= 128 => v \div 128 # 0
      OBVIOUS
    <2> QED
      BY <1>9, <1>10, <1>11, <2>1, <2>2, Zenon

(* All bytes of a varint but the last carry the bit 128.                    *)
LEMMA VarintShape ==
  ASSUME NEW v \in Nat
  PROVE  /\ Len(Varint[v]) \in Nat \ {0} /\ Varint[v][Len(Varint[v])] < 128
         /\ \A i \in 1 .. Len(Varint[v]) - 1 : Varint[v][i] >= 128
  <1> DEFINE Shaped(s) == /\ Len(s) \in Nat \ {0} /\ s[Len(s)] < 128
                          /\ \A i \in 1 .. Len(s) - 1 : s[i] >= 128
             S == {u \in Nat : Shaped(Varint[u])}
  <1>1. ASSUME NEW u \in Nat, \A w \in 0 .. u - 1 : w \in S PROVE Shaped(Varint[u])
    <2>1. CASE u < 128
      <3>1. Varint[u] = <<u>>
        BY <2>1, VarintIs
      <3> QED
        BY <2>1, <3>1
    <2>2. CASE u >= 128
      <3> DEFINE t == Varint[u \div 128]
                 b == 128 + (u % 128)
      <3>1. u \div 128 \in 0 .. u - 1 /\ u \div 128 \in Nat
        BY <2>2
      <3>2. Shaped(t)
        BY <1>1, <3>1
      <3>3. t \in Bytes /\ Varint[u] = <<b>> \o t
        BY <2>2, <3>1, VarintIs
      <3>4. b >= 128 /\ b \in Int
        OBVIOUS
      <3> HIDE DEF t, b
      <3>5. t \in Seq(Byte) /\ <<b>> \in Seq(Int) /\ Len(<<b>>) = 1
        BY <3>3, <3>4 DEF Bytes
      <3>6. Len(<<b>> \o t) = Len(t) + 1 /\ (<<b>> \o t)[1] = b
            /\ \A i \in 2 .. Len(t) + 1 : (<<b>> \o t)[i] = t[i - 1]
        BY <3>5
      <3>7. Shaped(<<b>> \o t)
        BY <3>2, <3>4, <3>6
      <3> QED
        BY <3>3, <3>7, Zenon
    <2> QED
      BY <2>1, <2>2
  <1>2. \A u \in Nat : u \in S
    <2>1. \A u \in Nat : (\A w \in 0 .. u - 1 : w \in S) => u \in S
      <3> SUFFICES ASSUME NEW u \in Nat, \A w \in 0 .. u - 1 : w \in S PROVE u \in S
        OBVIOUS
      <3>1. Shaped(Varint[u])
        BY <1>1
      <3> HIDE DEF Shaped
      <3> QED
        BY <3>1
    <2> HIDE DEF S
    <2> QED
      BY <2>1, StrongInduction
  <1>3. Shaped(Varint[v])
    <2> HIDE DEF Shaped
    <2> QED
      BY <1>2
  <1> QED
    BY <1>3

----------------------------------------------------------------------------
(* What fstGetVarint32 makes of the bytes of a number.                      *)
Group(byte, rc) == ShiftLeft(rc, 7) + (byte % 128)
FromGroups(s) == FoldRight(LAMBDA byte, rc : ShiftLeft(rc, 7) + (byte % 128), s, 0)

(* A group of seven bits is added below the others.                         *)
LEMMA GroupIs ==
  ASSUME NEW b \in Byte, NEW rc \in Nat
  PROVE  Group(b, rc) \in Nat /\ (128 * rc < Modulus => Group(b, rc) = 128 * rc + (b % 128))
  <1>1. Width > 8 /\ Width \in Nat /\ 2^7 = 128
    BY CodecAssumption DEF CodecAssumption
  <1>2. ShiftLeft(rc, 7) = (rc % (Modulus \div 128)) * 128
    BY <1>1 DEF ShiftLeft
  <1>3. Modulus \div 128 \in Nat \ {0} /\ Modulus = 128 * (Modulus \div 128)
    BY ModulusIs
  <1>4. rc % (Modulus \div 128) \in Nat
    BY <1>3
  <1>5. 128 * rc < Modulus => rc < Modulus \div 128
    BY <1>3
  <1>6. rc < Modulus \div 128 => rc % (Modulus \div 128) = rc
    BY <1>3
  <1>7. b % 128 \in Nat
    BY DEF Byte
  <1> QED
    BY <1>2, <1>4, <1>5, <1>6, <1>7 DEF Group

(* The fold over the groups, one byte at a time from the last.              *)
LEMMA NumberTrace ==
  ASSUME NEW s \in Bytes
  PROVE  \E acc \in [0 .. Len(s) -> Nat] :
           /\ acc[0] = 0 /\ acc[Len(s)] = FromGroups(s)
           /\ \A k \in 1 .. Len(s) : acc[k] = Group(s[(Len(s) + 1) - k], acc[k - 1])
  <1> DEFINE n == Len(s)
             T == SUBSET (1 .. n)
             zero == 0
             step == [k \in 1 .. n |-> [rc \in Nat |-> Group(s[k], rc)]]
             Fits(f) == f = [t \in T |-> IF t = {} THEN zero ELSE Group(s[Min(t)], f[t \ {Min(t)}])]
             f == CHOOSE g : Fits(g)
             acc == [k \in 0 .. n |-> f[(n + 1) - k .. n]]
  <1>1. n \in Nat /\ DOMAIN s = 1 .. n /\ \A k \in 1 .. n : s[k] \in Byte
    BY DEF Bytes
  <1>2. zero \in Nat
    OBVIOUS
  <1>3. step \in [1 .. n -> [Nat -> Nat]]
    BY <1>1, GroupIs
  <1>4. \A k \in 1 .. n : \A a \in Nat : step[k][a] = Group(s[k], a)
    OBVIOUS
  <1>5. FromGroups(s) = f[1 .. n]
    BY <1>1, Zenon DEF FromGroups, FoldRight, MapThenFoldSet, Group
  <1> HIDE DEF step, n, zero
  <1>6. PICK F \in [T -> Nat] : FoldsRight(F, zero, step, n)
    BY <1>1, <1>2, <1>3, FoldsRightExist
  <1>7. \A t \in T : t # {} => Min(t) \in 1 .. n /\ t \ {Min(t)} \in T
    BY <1>1, MinIsIn
  <1>8. \A t \in T : F[t] \in Nat
    OBVIOUS
  <1> HIDE DEF T
  <1>9. ASSUME NEW t \in T
        PROVE  (IF t = {} THEN zero ELSE step[Min(t)][F[t \ {Min(t)}]])
               = (IF t = {} THEN zero ELSE Group(s[Min(t)], F[t \ {Min(t)}]))
    BY <1>4, <1>7, <1>8, Zenon
  <1>10. F = [t \in T |-> IF t = {} THEN zero ELSE step[Min(t)][F[t \ {Min(t)}]]]
    BY <1>6, Zenon DEF FoldsRight, T
  <1>11. Fits(F)
    BY <1>9, <1>10, Zenon
  <1>12. Fits(f)
    BY <1>11, Zenon
  <1> HIDE DEF f
  <1>13. f[(n + 1) - 0 .. n] = 0
    <2>1. {} \in T /\ (n + 1) - 0 .. n = {}
      BY <1>1 DEF T
    <2> QED
      BY <1>12, <2>1, Zenon DEF zero
  <1>14. ASSUME NEW k \in 1 .. n
         PROVE  f[(n + 1) - k .. n] = Group(s[(n + 1) - k], f[(n + 1) - (k - 1) .. n])
    <2> DEFINE t == (n + 1) - k .. n
    <2>1. t \in T /\ t # {} /\ (n + 1) - k \in t /\ \A y \in t : (n + 1) - k <= y
      <3>1. (n + 1) - k \in 1 .. n
        BY <1>1
      <3>2. t \in SUBSET (1 .. n) /\ (n + 1) - k \in t /\ \A y \in t : (n + 1) - k <= y
        BY <1>1, <3>1
      <3> QED
        BY <3>2 DEF T
    <2>2. Min(t) \in t /\ \A y \in t : Min(t) <= y
      BY <1>1, <2>1, MinIsIn DEF T
    <2>3. Min(t) = (n + 1) - k
      BY <1>1, <2>1, <2>2
    <2>4. t \ {Min(t)} = (n + 1) - (k - 1) .. n
      BY <1>1, <2>3
    <2>5. f[t] = Group(s[Min(t)], f[t \ {Min(t)}])
      BY <1>12, <2>1, Zenon
    <2> QED
      BY <2>3, <2>4, <2>5, Zenon
  <1>15. /\ acc[0] = 0 /\ acc[n] = FromGroups(s)
         /\ \A k \in 1 .. n : acc[k] = Group(s[(n + 1) - k], acc[k - 1])
    <2>1. 0 \in 0 .. n /\ n \in 0 .. n /\ (n + 1) - n = 1 /\ \A k \in 1 .. n : k \in 0 .. n /\ k - 1 \in 0 .. n
      BY <1>1
    <2> QED
      BY <1>5, <1>13, <1>14, <2>1, Zenon
  <1>16. \A k \in 0 .. n : acc[k] \in Nat
    <2> HIDE DEF acc
    <2>1. \A k \in 1 .. n : acc[k - 1] \in Nat => acc[k] \in Nat
      <3>1. \A k \in 1 .. n : (n + 1) - k \in 1 .. n
        BY <1>1
      <3> QED
        <4> SUFFICES ASSUME NEW k \in 1 .. n, acc[k - 1] \in Nat PROVE acc[k] \in Nat
          OBVIOUS
        <4>1. s[(n + 1) - k] \in Byte /\ acc[k] = Group(s[(n + 1) - k], acc[k - 1])
          BY <1>1, <1>15, <3>1, Zenon
        <4> QED
          BY <4>1, GroupIs, Zenon
    <2>2. acc[0] \in Nat
      BY <1>15
    <2> QED
      BY <1>1, <2>1, <2>2, RecursionKeeps, Zenon
  <1>17. acc \in [0 .. n -> Nat]
    BY <1>16
  <1> QED
    BY <1>15, <1>17, Zenon DEF n

(* The number of a sequence is that of its tail, and a group.               *)
LEMMA NumberCons ==
  ASSUME NEW b \in Byte, NEW t \in Bytes
  PROVE  /\ FromGroups(t) \in Nat /\ FromGroups(<<b>> \o t) = Group(b, FromGroups(t))
         /\ FromGroups(<<b>>) = b % 128
  <1>1. ASSUME NEW u \in Bytes, NEW c \in Byte
        PROVE  FromGroups(u) \in Nat /\ FromGroups(<<c>> \o u) = Group(c, FromGroups(u))
    <2> DEFINE n == Len(u)
               s == <<c>> \o u
    <2>1. n \in Nat /\ s \in Bytes /\ Len(s) = n + 1 /\ s[1] = c /\ \A i \in 1 .. n : s[i + 1] = u[i]
      BY DEF Bytes
    <2> HIDE DEF s, n
    <2>2. PICK f \in [0 .. n -> Nat] :
            /\ f[0] = 0 /\ f[n] = FromGroups(u)
            /\ \A k \in 1 .. n : f[k] = Group(u[(n + 1) - k], f[k - 1])
      BY NumberTrace DEF n
    <2>3. PICK g \in [0 .. n + 1 -> Nat] :
            /\ g[0] = 0 /\ g[n + 1] = FromGroups(s)
            /\ \A k \in 1 .. n + 1 : g[k] = Group(s[((n + 1) + 1) - k], g[k - 1])
      <3>1. /\ s \in Bytes
            /\ \E g \in [0 .. Len(s) -> Nat] :
                 /\ g[0] = 0 /\ g[Len(s)] = FromGroups(s)
                 /\ \A k \in 1 .. Len(s) : g[k] = Group(s[(Len(s) + 1) - k], g[k - 1])
        BY <2>1, NumberTrace, Zenon
      <3> QED
        BY <2>1, <3>1, Zenon
    <2>4. \A k \in 1 .. n : k \in 1 .. n + 1 /\ s[((n + 1) + 1) - k] = u[(n + 1) - k]
      <3> SUFFICES ASSUME NEW k \in 1 .. n PROVE k \in 1 .. n + 1 /\ s[((n + 1) + 1) - k] = u[(n + 1) - k]
        OBVIOUS
      <3>1. (n + 1) - k \in 1 .. n /\ ((n + 1) + 1) - k = ((n + 1) - k) + 1
        BY <2>1
      <3>2. s[((n + 1) - k) + 1] = u[(n + 1) - k]
        BY <2>1, <3>1, Zenon
      <3> QED
        BY <2>1, <3>1, <3>2
    <2>5. Alike(f, g, n)
      BY <2>2, <2>3, <2>4, Zenon DEF Alike
    <2>6. f[n] = g[n]
      <3>1. \A k \in 0 .. n : f[k] = g[k]
        <4>1. n \in Nat /\ Alike(f, g, n)
          BY <2>1, <2>5
        <4> QED
          BY <4>1, SameRecursion
      <3> QED
        BY <2>1, <3>1
    <2>7. n + 1 \in 1 .. n + 1 /\ ((n + 1) + 1) - (n + 1) = 1 /\ (n + 1) - 1 = n
      BY <2>1
    <2>8. g[n + 1] = Group(s[1], g[n])
      BY <2>3, <2>7
    <2>9. f[n] \in Nat
      BY <2>1, <2>2
    <2> QED
      BY <2>1, <2>2, <2>3, <2>6, <2>8, <2>9 DEF s
  <1>2. FromGroups(<<>>) = 0
    <2>1. <<>> \in Bytes /\ Len(<<>>) = 0
      BY DEF Bytes
    <2>2. PICK f \in [0 .. Len(<<>>) -> Nat] : f[0] = 0 /\ f[Len(<<>>)] = FromGroups(<<>>)
      BY <2>1, NumberTrace
    <2> QED
      BY <2>1, <2>2
  <1>3. FromGroups(<<b>>) = b % 128
    <2>1. <<>> \in Bytes /\ <<b>> = <<b>> \o <<>>
      BY DEF Bytes
    <2>2. FromGroups(<<b>>) = Group(b, 0)
      BY <1>1, <1>2, <2>1
    <2>3. Group(b, 0) = 128 * 0 + (b % 128)
      BY GroupIs, ModulusIs
    <2> QED
      BY <2>2, <2>3 DEF Byte
  <1> QED
    BY <1>1, <1>3

(* A varint is read back, if the number has no more bits than it may.       *)
LEMMA NumberOfVarint ==
  ASSUME NEW v \in Unsigned
  PROVE  FromGroups(Varint[v]) = v
  <1> DEFINE Read(u) == u < Modulus => FromGroups(Varint[u]) = u
             S == {u \in Nat : Read(u)}
  <1>1. ASSUME NEW u \in Nat, \A w \in 0 .. u - 1 : w \in S PROVE Read(u)
    <2> SUFFICES ASSUME u < Modulus PROVE FromGroups(Varint[u]) = u
      OBVIOUS
    <2>1. CASE u < 128
      <3>1. Varint[u] = <<u>>
        BY <2>1, VarintIs
      <3>3. u \in Byte /\ u % 128 = u
        BY <2>1 DEF Byte
      <3>2. <<>> \in Bytes
        BY DEF Bytes
      <3> QED
        BY <3>1, <3>2, <3>3, NumberCons
    <2>2. CASE u >= 128
      <3> DEFINE t == Varint[u \div 128]
                 b == 128 + (u % 128)
      <3>1. u \div 128 \in 0 .. u - 1 /\ u \div 128 \in Nat /\ u \div 128 < Modulus
        BY <2>2, ModulusIs
      <3>2. FromGroups(t) = u \div 128
        BY <1>1, <3>1
      <3>3. t \in Bytes /\ Varint[u] = <<b>> \o t
        BY <2>2, <3>1, VarintIs
      <3>4. b \in Byte /\ b % 128 = u % 128 /\ 128 * (u \div 128) + (u % 128) = u /\ u % 128 \in Nat
        BY DEF Byte
      <3>5. 128 * (u \div 128) < Modulus
        BY <3>1, <3>4, ModulusIs
      <3> HIDE DEF t, b
      <3>6. FromGroups(Varint[u]) = Group(b, u \div 128)
        BY <3>2, <3>3, <3>4, NumberCons
      <3>7. Group(b, u \div 128) = 128 * (u \div 128) + (b % 128)
        BY <3>1, <3>4, <3>5, GroupIs
      <3> QED
        BY <3>4, <3>6, <3>7
    <2> QED
      BY <2>1, <2>2
  <1>2. \A u \in Nat : (\A w \in 0 .. u - 1 : w \in S) => u \in S
    <2> SUFFICES ASSUME NEW u \in Nat, \A w \in 0 .. u - 1 : w \in S PROVE u \in S
      OBVIOUS
    <2>1. Read(u)
      BY <1>1
    <2> HIDE DEF Read
    <2> QED
      BY <2>1
  <1>3. v \in Nat /\ v < Modulus
    BY ModulusIs DEF Unsigned
  <1>4. v \in S
    <2> HIDE DEF S
    <2> QED
      BY <1>2, <1>3, StrongInduction
  <1> QED
    BY <1>3, <1>4

----------------------------------------------------------------------------
(* What stands in memory from p on.                                         *)
Holds(mem, p, s) ==
  p + Len(s) - 1 <= Len(mem) /\ \A i \in 1 .. Len(s) : mem[p + i - 1] = s[i]

(* Where two sequences stand one behind the other, each one stands.         *)
LEMMA HoldsBoth ==
  ASSUME NEW mem \in Bytes, NEW p \in Nat \ {0}, NEW s \in Bytes, NEW t \in Bytes, Holds(mem, p, s \o t)
  PROVE  Holds(mem, p, s) /\ Holds(mem, p + Len(s), t)
  <1>1. /\ Len(s) \in Nat /\ Len(t) \in Nat /\ Len(s \o t) = Len(s) + Len(t) /\ Len(mem) \in Nat
        /\ \A i \in 1 .. Len(s) : (s \o t)[i] = s[i]
        /\ \A i \in 1 .. Len(t) : (s \o t)[Len(s) + i] = t[i]
    BY DEF Bytes
  <1>2. Holds(mem, p, s)
    BY <1>1 DEF Holds
  <1>3. ASSUME NEW i \in 1 .. Len(t) PROVE mem[(p + Len(s)) + i - 1] = t[i]
    <2>1. Len(s) + i \in 1 .. Len(s \o t) /\ p + (Len(s) + i) - 1 = (p + Len(s)) + i - 1
      BY <1>1
    <2>2. mem[p + (Len(s) + i) - 1] = (s \o t)[Len(s) + i]
      BY <2>1 DEF Holds
    <2> QED
      BY <1>1, <2>1, <2>2
  <1>4. (p + Len(s)) + Len(t) - 1 <= Len(mem)
    BY <1>1 DEF Holds
  <1> QED
    BY <1>2, <1>3, <1>4 DEF Holds

(* A varint in memory is found in its length, and read.                     *)
LEMMA VarintAt ==
  ASSUME NEW mem \in Bytes, NEW p \in Nat \ {0}, NEW v \in Unsigned, Holds(mem, p, Varint[v])
  PROVE  GetVarint(mem, p) = v /\ SkipLen(mem, p) = Len(Varint[v])
  <1> DEFINE s == Varint[v]
             n == Len(s)
             q == p + n - 1
             Stops(x) == x \in p .. Len(mem) /\ mem[x] < 128 /\ \A i \in p .. x - 1 : mem[i] >= 128
  <1>1. v \in Nat
    BY ModulusIs DEF Unsigned
  <1>2. s \in Bytes /\ n \in Nat \ {0} /\ s[n] < 128 /\ \A i \in 1 .. n - 1 : s[i] >= 128
    BY <1>1, VarintIs, VarintShape
  <1> HIDE DEF s
  <1>3. Len(mem) \in Nat /\ q <= Len(mem) /\ \A i \in 1 .. n : mem[p + i - 1] = s[i]
    BY DEF Holds, Bytes, s
  <1>4. \A x \in p .. q : (x - p) + 1 \in 1 .. n /\ p + ((x - p) + 1) - 1 = x
    BY <1>2
  <1>5. \A x \in p .. q : mem[x] = s[(x - p) + 1]
    BY <1>3, <1>4
  <1>6. q \in p .. q /\ (q - p) + 1 = n /\ q \in p .. Len(mem)
    BY <1>2, <1>3
  <1>7. Stops(q)
    <2>1. mem[q] < 128
      BY <1>2, <1>5, <1>6
    <2>2. ASSUME NEW i \in p .. q - 1 PROVE mem[i] >= 128
      <3>1. i \in p .. q /\ (i - p) + 1 \in 1 .. n - 1
        BY <1>2
      <3> QED
        BY <1>2, <1>5, <3>1
    <2> QED
      BY <1>6, <2>1, <2>2
  <1>8. ASSUME NEW x, Stops(x) PROVE x = q
    <2>1. x \in Nat /\ q \in Nat /\ p <= x /\ p <= q
      BY <1>2, <1>8
    <2>2. ~(mem[x] >= 128) /\ ~(mem[q] >= 128)
      <3>1. \A i \in p .. Len(mem) : mem[i] \in Byte
        BY DEF Bytes
      <3>2. mem[x] \in Byte /\ mem[q] \in Byte /\ mem[x] < 128 /\ mem[q] < 128
        BY <1>7, <1>8, <3>1
      <3>3. \A b \in Byte : b < 128 => ~(b >= 128)
        BY DEF Byte
      <3> QED
        BY <3>2, <3>3, Zenon
    <2>3. ~(x < q) /\ ~(q < x)
      BY <1>7, <1>8, <2>1, <2>2
    <2> QED
      BY <2>1, <2>3
  <1>9. LastByte(mem, p) = q
    <2>1. LastByte(mem, p) = CHOOSE x \in p .. Len(mem) : mem[x] < 128 /\ \A i \in p .. x - 1 : mem[i] >= 128
      BY DEF LastByte
    <2> HIDE DEF q
    <2> QED
      BY <1>7, <1>8, <2>1
  <1>10. SubSeq(mem, p, q) = s
    <2>1. SubSeq(mem, p, q) \in Seq(Byte) /\ Len(SubSeq(mem, p, q)) = n
          /\ \A i \in 1 .. n : SubSeq(mem, p, q)[i] = mem[p + i - 1]
      BY <1>2, <1>3 DEF Bytes
    <2>2. s \in Seq(Byte)
      BY <1>2 DEF Bytes
    <2> QED
      BY <1>3, <2>1, <2>2, SeqEqual
  <1>11. GetVarint(mem, p) = FromGroups(s)
    BY <1>9, <1>10, Zenon DEF GetVarint, FromGroups
  <1>12. SkipLen(mem, p) = n
    BY <1>2, <1>9 DEF SkipLen
  <1> QED
    BY <1>11, <1>12, NumberOfVarint DEF s

(* A string in memory ends where it ends.                                   *)
LEMMA TextIs ==
  ASSUME NEW s \in CString
  PROVE  /\ s \in Bytes /\ Zeroed(s) \in Bytes /\ Len(s) \in Nat /\ Len(Zeroed(s)) = Len(s) + 1
         /\ Zeroed(s)[Len(s) + 1] = 0 /\ \A i \in 1 .. Len(s) : Zeroed(s)[i] = s[i] /\ s[i] # 0
  <1>1. s \in Seq(1 .. 255) /\ s \in Seq(Byte)
    <2>1. 1 .. 255 \subseteq Byte
      BY DEF Byte
    <2> QED
      BY <2>1, SeqMonotonic DEF CString
  <1>2. <<0>> \in Seq(Byte)
    BY DEF Byte
  <1>3. Zeroed(s) = s \o <<0>>
    BY DEF Zeroed
  <1>4. s \o <<0>> \in Seq(Byte) /\ Len(s \o <<0>>) = Len(s) + 1 /\ Len(s) \in Nat
        /\ (s \o <<0>>)[Len(s) + 1] = 0 /\ \A i \in 1 .. Len(s) : (s \o <<0>>)[i] = s[i]
    BY <1>1, <1>2
  <1>5. \A i \in 1 .. Len(s) : s[i] # 0
    <2>1. ASSUME NEW i \in 1 .. Len(s) PROVE s[i] \in 1 .. 255
      BY <1>1, ElementOfSeq
    <2>2. \A b \in 1 .. 255 : b # 0
      OBVIOUS
    <2> QED
      BY <2>1, <2>2
  <1> QED
    BY <1>1, <1>3, <1>4, <1>5, Zenon DEF Bytes

(* A string in memory is found in its length, and read up to the size it is *)
(* read with.                                                               *)
LEMMA TextAt ==
  ASSUME NEW mem \in Bytes, NEW p \in Nat \ {0}, NEW s \in CString, Holds(mem, p, Zeroed(s))
  PROVE  /\ Behind(mem, p) = p + Len(Zeroed(s))
         /\ \A siz : StringAt(mem, p, siz) = Cut(s, siz)
  <1> DEFINE n == Len(s)
             q == p + n
             Ends(x) == x \in p .. Len(mem) /\ mem[x] = 0 /\ \A i \in p .. x - 1 : mem[i] # 0
  <1>1. n \in Nat /\ Len(mem) \in Nat /\ Len(Zeroed(s)) = n + 1
    BY TextIs DEF Bytes
  <1>2. q <= Len(mem) /\ mem[q] = 0
    <2>1. n + 1 \in 1 .. Len(Zeroed(s)) /\ p + (n + 1) - 1 = q
      BY <1>1
    <2>2. mem[p + (n + 1) - 1] = Zeroed(s)[n + 1]
      BY <2>1 DEF Holds
    <2> QED
      BY <1>1, <2>1, <2>2, TextIs DEF Holds
  <1>3. \A i \in 1 .. n : mem[p + i - 1] = s[i] /\ s[i] # 0
    <2> SUFFICES ASSUME NEW i \in 1 .. n PROVE mem[p + i - 1] = s[i] /\ s[i] # 0
      OBVIOUS
    <2>1. i \in 1 .. Len(Zeroed(s))
      BY <1>1
    <2>2. mem[p + i - 1] = Zeroed(s)[i]
      BY <2>1 DEF Holds
    <2> QED
      BY <2>2, TextIs
  <1>4. Ends(q)
    <2>1. ASSUME NEW i \in p .. q - 1 PROVE mem[i] # 0
      <3>1. (i - p) + 1 \in 1 .. n /\ p + ((i - p) + 1) - 1 = i
        BY <1>1
      <3> QED
        BY <1>3, <3>1
    <2> QED
      BY <1>1, <1>2, <2>1
  <1>5. ASSUME NEW x, Ends(x) PROVE x = q
    <2>1. x \in Nat /\ q \in Nat /\ p <= x /\ p <= q
      BY <1>1, <1>5
    <2>2. ~(x < q) /\ ~(q < x)
      BY <1>4, <1>5, <2>1
    <2> QED
      BY <2>1, <2>2
  <1>6. EndOfString(mem, p) = q
    <2>1. EndOfString(mem, p) = CHOOSE x \in p .. Len(mem) : mem[x] = 0 /\ \A i \in p .. x - 1 : mem[i] # 0
      BY DEF EndOfString
    <2> HIDE DEF q
    <2> QED
      BY <1>4, <1>5, <2>1
  <1>7. SubSeq(mem, p, q - 1) = s
    <2>1. SubSeq(mem, p, q - 1) \in Seq(Byte) /\ Len(SubSeq(mem, p, q - 1)) = n
          /\ \A i \in 1 .. n : SubSeq(mem, p, q - 1)[i] = mem[p + i - 1]
      BY <1>1, <1>2 DEF Bytes
    <2>2. s \in Seq(Byte)
      BY TextIs DEF Bytes
    <2> QED
      BY <1>3, <2>1, <2>2, SeqEqual
  <1>8. Behind(mem, p) = q + 1
    BY <1>6 DEF Behind
  <1>9. \A siz : StringAt(mem, p, siz) = Cut(s, siz)
    BY <1>6, <1>7, Zenon DEF StringAt
  <1> QED
    BY <1>1, <1>8, <1>9

----------------------------------------------------------------------------
(* The first byte of an entry tells what it is.                             *)
LEMMA AtIs ==
  ASSUME NEW mem, NEW p
  PROVE  /\ mem[p] = FST_ST_VCD_SCOPE => At(mem, p) = ScopeAt(mem, p)
         /\ mem[p] = FST_ST_VCD_UPSCOPE => At(mem, p) = [htyp |-> "upscope", next |-> p + 1]
         /\ mem[p] = FST_ST_GEN_ATTRBEGIN => At(mem, p) = AttrAt(mem, p)
         /\ mem[p] = FST_ST_GEN_ATTREND => At(mem, p) = [htyp |-> "attrend", next |-> p + 1]
         /\ mem[p] \in VarTypesRead => At(mem, p) = VarAt(mem, p)
  <1>1. \A b : /\ b = FST_ST_VCD_SCOPE => b \notin VarTypesRead /\ b # FST_ST_VCD_UPSCOPE /\ b # FST_ST_GEN_ATTRBEGIN /\ b # FST_ST_GEN_ATTREND
               /\ b = FST_ST_VCD_UPSCOPE => b \notin VarTypesRead /\ b # FST_ST_GEN_ATTRBEGIN /\ b # FST_ST_GEN_ATTREND
               /\ b = FST_ST_GEN_ATTRBEGIN => b \notin VarTypesRead /\ b # FST_ST_GEN_ATTREND
               /\ b = FST_ST_GEN_ATTREND => b \notin VarTypesRead
    BY DEF FST_ST_VCD_SCOPE, FST_ST_VCD_UPSCOPE, FST_ST_GEN_ATTRBEGIN, FST_ST_GEN_ATTREND, VarTypesRead,
           FST_VT_SV_SHORTREAL
  <1> QED
    BY <1>1, Zenon DEF At

(* What bytes mean wherever they stand: the next entry is behind them, they *)
(* are read as record, and count the handles on from h to g.                *)
Means(bytes, record, h, g) ==
  \A mem \in Bytes, p \in Nat \ {0} : Holds(mem, p, bytes) =>
    /\ At(mem, p).next = p + Len(bytes) /\ At(mem, p).htyp # "unknown"
    /\ RecordOf(mem, At(mem, p), h) = record /\ g = h + NewHandle(At(mem, p))
Counted(e) == e.bytes \in Bytes /\ e.bytes # <<>> /\ e.len = Len(e.bytes)
Sound(e, h, g) == Counted(e) /\ Means(e.bytes, e.record, h, g)

(* The tags of the entries are bytes.                                       *)
LEMMA TagsAreBytes ==
  {FST_ST_VCD_SCOPE, FST_ST_VCD_UPSCOPE, FST_ST_GEN_ATTRBEGIN, FST_ST_GEN_ATTREND} \subseteq Byte
  BY DEF FST_ST_VCD_SCOPE, FST_ST_VCD_UPSCOPE, FST_ST_GEN_ATTRBEGIN, FST_ST_GEN_ATTREND, Byte

(* A tag alone.                                                             *)
LEMMA TagMeans ==
  ASSUME NEW h \in Nat
  PROVE  /\ Sound(Entry(<<FST_ST_VCD_UPSCOPE>>, 1, [htyp |-> "upscope"]), h, h)
         /\ Sound(Entry(<<FST_ST_GEN_ATTREND>>, 1, [htyp |-> "attrend"]), h, h)
  <1>1. ASSUME NEW tag \in Byte, NEW name \in {"upscope", "attrend"},
               \A mem, p : mem[p] = tag => At(mem, p) = [htyp |-> name, next |-> p + 1]
        PROVE  Sound(Entry(<<tag>>, 1, [htyp |-> name]), h, h)
    <2>1. <<tag>> \in Bytes /\ Len(<<tag>>) = 1 /\ <<tag>> # <<>> /\ <<tag>>[1] = tag
      BY DEF Bytes
    <2>2. ASSUME NEW mem \in Bytes, NEW p \in Nat \ {0}, Holds(mem, p, <<tag>>)
          PROVE  /\ At(mem, p).next = p + Len(<<tag>>) /\ At(mem, p).htyp # "unknown"
                 /\ RecordOf(mem, At(mem, p), h) = [htyp |-> name] /\ h = h + NewHandle(At(mem, p))
      <3>1. mem[p] = tag
        <4>1. 1 \in 1 .. Len(<<tag>>) /\ p + 1 - 1 = p
          BY <2>1
        <4> QED
          BY <2>1, <2>2, <4>1 DEF Holds
      <3>2. At(mem, p) = [htyp |-> name, next |-> p + 1]
        BY <1>1, <3>1, Zenon
      <3>3. At(mem, p).next = p + 1 /\ At(mem, p).htyp = name
        BY <3>2
      <3>4. RecordOf(mem, At(mem, p), h) = [htyp |-> name]
        BY <3>3 DEF RecordOf
      <3>5. NewHandle(At(mem, p)) = 0
        BY <3>3 DEF NewHandle
      <3> QED
        BY <2>1, <3>3, <3>4, <3>5
    <2>3. Means(<<tag>>, [htyp |-> name], h, h)
      BY <2>2, Zenon DEF Means
    <2> QED
      BY <2>1, <2>3 DEF Sound, Counted, Entry
  <1> QED
    BY <1>1, AtIs, TagsAreBytes

(* Two bytes, and what is behind them.                                      *)
LEMMA PairHolds ==
  ASSUME NEW mem \in Bytes, NEW p \in Nat \ {0}, NEW a \in Byte, NEW b \in Byte, NEW s \in Bytes,
         Holds(mem, p, <<a, b>> \o s)
  PROVE  mem[p] = a /\ mem[p + 1] = b /\ Holds(mem, p + 2, s)
  <1>1. <<a, b>> \in Bytes /\ Len(<<a, b>>) = 2
    BY DEF Bytes
  <1>2. Holds(mem, p, <<a, b>>) /\ Holds(mem, p + 2, s)
    BY <1>1, HoldsBoth
  <1>3. mem[p + 1 - 1] = <<a, b>>[1] /\ mem[p + 2 - 1] = <<a, b>>[2]
    <2>1. 1 \in 1 .. Len(<<a, b>>) /\ 2 \in 1 .. Len(<<a, b>>)
      BY <1>1
    <2> QED
      BY <1>2, <2>1, Zenon DEF Holds
  <1>4. p + 1 - 1 = p /\ p + 2 - 1 = p + 1
    OBVIOUS
  <1> QED
    BY <1>2, <1>3, <1>4

(* A scope.                                                                 *)
LEMMA ScopeMeans ==
  ASSUME NEW typ \in Byte, NEW name \in CString, NEW component \in CString, NEW h \in Nat
  PROVE  Sound(ScopeEntry(typ, name, component), h, h)
  <1> DEFINE scopetype == IF typ > FST_ST_MAX THEN 0 ELSE typ
             z == Zeroed(name)
             y == Zeroed(component)
             bytes == <<FST_ST_VCD_SCOPE, scopetype>> \o z \o y
             record == [htyp |-> "scope", typ |-> scopetype, name |-> Cut(name, NamSiz),
                        component |-> Cut(component, NamSiz)]
  <1>1. scopetype \in Byte /\ FST_ST_VCD_SCOPE \in Byte
    BY TagsAreBytes DEF Byte
  <1>2. /\ z \in Bytes /\ y \in Bytes /\ Len(z) = Len(name) + 1 /\ Len(y) = Len(component) + 1
        /\ Len(name) \in Nat /\ Len(component) \in Nat
    BY TextIs
  <1> HIDE DEF z, y, scopetype
  <1>3. bytes = <<FST_ST_VCD_SCOPE, scopetype>> \o (z \o y) /\ z \o y \in Bytes /\ bytes \in Bytes
        /\ Len(bytes) = Len(name) + Len(component) + 4 /\ bytes # <<>>
    <2>1. z \in Seq(Byte) /\ y \in Seq(Byte)
      BY <1>2 DEF Bytes
    <2>2. <<FST_ST_VCD_SCOPE, scopetype>> \in Seq(Byte) /\ Len(<<FST_ST_VCD_SCOPE, scopetype>>) = 2
      BY <1>1
    <2>3. bytes = <<FST_ST_VCD_SCOPE, scopetype>> \o (z \o y)
      BY <2>1, <2>2
    <2>4. z \o y \in Seq(Byte) /\ Len(z \o y) = Len(z) + Len(y)
      BY <2>1
    <2>5. bytes \in Seq(Byte) /\ Len(bytes) = 2 + (Len(z) + Len(y))
      BY <2>2, <2>3, <2>4
    <2>6. Len(bytes) = Len(name) + Len(component) + 4 /\ Len(bytes) # 0
      BY <1>2, <2>5
    <2> HIDE DEF bytes
    <2> QED
      BY <2>3, <2>4, <2>5, <2>6 DEF Bytes
  <1> HIDE DEF bytes
  <1>4. ASSUME NEW mem \in Bytes, NEW p \in Nat \ {0}, Holds(mem, p, bytes)
        PROVE  /\ At(mem, p).next = p + Len(bytes) /\ At(mem, p).htyp # "unknown"
               /\ RecordOf(mem, At(mem, p), h) = record /\ h = h + NewHandle(At(mem, p))
    <2>1. mem[p] = FST_ST_VCD_SCOPE /\ mem[p + 1] = scopetype /\ Holds(mem, p + 2, z \o y)
      <3>1. Holds(mem, p, <<FST_ST_VCD_SCOPE, scopetype>> \o (z \o y))
        BY <1>3, <1>4, Zenon
      <3> QED
        BY <1>1, <1>3, <3>1, PairHolds, Zenon
    <2>2. Holds(mem, p + 2, z) /\ Holds(mem, (p + 2) + Len(z), y)
      <3>1. p + 2 \in Nat \ {0}
        OBVIOUS
      <3> QED
        BY <1>2, <2>1, <3>1, HoldsBoth, Zenon
    <2>3. /\ Behind(mem, p + 2) = (p + 2) + Len(z) /\ StringAt(mem, p + 2, NamSiz) = Cut(name, NamSiz)
          /\ Behind(mem, (p + 2) + Len(z)) = ((p + 2) + Len(z)) + Len(y)
          /\ StringAt(mem, (p + 2) + Len(z), NamSiz) = Cut(component, NamSiz)
      <3>1. p + 2 \in Nat \ {0} /\ (p + 2) + Len(z) \in Nat \ {0}
        BY <1>2
      <3> QED
        BY <2>2, <3>1, TextAt DEF z, y
    <2>4. At(mem, p) = [htyp |-> "scope", typ |-> scopetype, at |-> p + 2, component |-> (p + 2) + Len(z),
                        next |-> ((p + 2) + Len(z)) + Len(y)]
      BY <2>1, <2>3, AtIs, Zenon DEF ScopeAt
    <2> DEFINE e == At(mem, p)
    <2>5. /\ e.htyp = "scope" /\ e.typ = scopetype /\ e.at = p + 2 /\ e.component = (p + 2) + Len(z)
          /\ e.next = ((p + 2) + Len(z)) + Len(y)
      BY <2>4
    <2> HIDE DEF e
    <2>6. RecordOf(mem, e, h) = record
      BY <2>3, <2>5 DEF RecordOf
    <2>7. NewHandle(e) = 0
      BY <2>5 DEF NewHandle
    <2>8. e.next = p + Len(bytes)
      <3>1. ((p + 2) + Len(z)) + Len(y) = p + (Len(name) + Len(component) + 4)
        BY <1>2
      <3> QED
        BY <1>3, <2>5, <3>1, Zenon
    <2> HIDE DEF record, bytes
    <2> QED
      BY <2>5, <2>6, <2>7, <2>8 DEF e
  <1> HIDE DEF bytes, record
  <1>5. Means(bytes, record, h, h)
    BY <1>4, Zenon DEF Means
  <1>6. ScopeEntry(typ, name, component) = Entry(bytes, Len(name) + Len(component) + 4, record)
    BY DEF ScopeEntry, bytes, record, scopetype, z, y
  <1> QED
    BY <1>3, <1>5, <1>6 DEF Sound, Counted, Entry

(* An attribute: as long as its name is no stem that is cut.                *)
LEMMA AttrMeans ==
  ASSUME NEW typ \in Byte, NEW subtype \in Byte, NEW name \in CString, NEW arg \in Unsigned, NEW h \in Nat,
         IsStem(typ, subtype) => Len(name) <= AttrSiz
  PROVE  Sound(AttrEntry(typ, subtype, name, arg), h, h)
  <1> DEFINE attrtype == IF typ > FST_AT_MAX THEN FST_AT_MISC ELSE typ
             sub == IF typ > FST_AT_MAX THEN Misc.UNKNOWN
                    ELSE IF typ # FST_AT_MISC /\ subtype > AttrSubtypeMax[typ] THEN 0 ELSE subtype
             z == Zeroed(name)
             y == Varint[arg]
             bytes == <<FST_ST_GEN_ATTRBEGIN, attrtype, sub>> \o z \o y
             stem == IF IsStem(attrtype, sub) THEN GetVarint(Zeroed(name), 1) ELSE 0
             record == [htyp |-> "attrbegin", typ |-> attrtype, subtype |-> sub, name |-> Cut(name, AttrSiz), arg |-> arg,
                        arg_from_name |-> stem]
  <1>1. attrtype \in Byte /\ sub \in Byte /\ FST_ST_GEN_ATTRBEGIN \in Byte
    BY TagsAreBytes DEF Byte, FST_AT_MAX, FST_AT_MISC, Misc
  <1>2. IsStem(attrtype, sub) => Len(name) <= AttrSiz
    <2>1. typ > FST_AT_MAX => sub = 8
      BY DEF Misc
    <2>2. IsStem(attrtype, sub) => sub # 8 /\ attrtype = FST_AT_MISC
      BY DEF IsStem, Misc
    <2>3. ~(typ > FST_AT_MAX) => attrtype = typ /\ (typ = FST_AT_MISC => sub = subtype)
      OBVIOUS
    <2> HIDE DEF attrtype, sub
    <2> QED
      BY <2>1, <2>2, <2>3, Zenon
  <1>3. Cut(name, AttrSiz) = name \/ ~IsStem(attrtype, sub)
    BY <1>2, Zenon DEF Cut
  <1>4. arg \in Nat
    BY ModulusIs DEF Unsigned
  <1>5. z \in Bytes /\ y \in Bytes /\ Len(z) = Len(name) + 1 /\ Len(name) \in Nat /\ Len(y) \in Nat
    BY <1>4, TextIs, VarintIs, VarintShape
  <1> HIDE DEF z, y, attrtype, sub
  <1>6. bytes = <<FST_ST_GEN_ATTRBEGIN, attrtype>> \o (<<sub>> \o (z \o y)) /\ z \o y \in Bytes
        /\ <<sub>> \o (z \o y) \in Bytes /\ bytes \in Bytes /\ <<sub>> \in Bytes
        /\ Len(bytes) = Len(name) + 4 + Len(y) /\ bytes # <<>>
    <2>1. z \in Seq(Byte) /\ y \in Seq(Byte)
      BY <1>5 DEF Bytes
    <2>2. bytes = <<FST_ST_GEN_ATTRBEGIN, attrtype>> \o (<<sub>> \o (z \o y))
      BY <1>1, <2>1
    <2>3. <<sub>> \in Seq(Byte) /\ z \o y \in Seq(Byte) /\ Len(z \o y) = Len(z) + Len(y)
      BY <1>1, <2>1
    <2>4. <<sub>> \o (z \o y) \in Seq(Byte) /\ Len(<<sub>> \o (z \o y)) = 1 + (Len(z) + Len(y))
      BY <2>3
    <2>5. <<FST_ST_GEN_ATTRBEGIN, attrtype>> \in Seq(Byte) /\ Len(<<FST_ST_GEN_ATTRBEGIN, attrtype>>) = 2
      BY <1>1
    <2>6. bytes \in Seq(Byte) /\ Len(bytes) = 2 + (1 + (Len(z) + Len(y)))
      BY <2>2, <2>4, <2>5
    <2>7. Len(bytes) = Len(name) + 4 + Len(y) /\ Len(bytes) # 0
      BY <1>5, <2>6
    <2> HIDE DEF bytes
    <2> QED
      BY <2>2, <2>3, <2>4, <2>6, <2>7 DEF Bytes
  <1> HIDE DEF bytes
  <1>7. ASSUME NEW mem \in Bytes, NEW p \in Nat \ {0}, Holds(mem, p, bytes)
        PROVE  /\ At(mem, p).next = p + Len(bytes) /\ At(mem, p).htyp # "unknown"
               /\ RecordOf(mem, At(mem, p), h) = record /\ h = h + NewHandle(At(mem, p))
    <2>1. mem[p] = FST_ST_GEN_ATTRBEGIN /\ mem[p + 1] = attrtype /\ Holds(mem, p + 2, <<sub>> \o (z \o y))
      <3>1. Holds(mem, p, <<FST_ST_GEN_ATTRBEGIN, attrtype>> \o (<<sub>> \o (z \o y)))
        BY <1>6, <1>7, Zenon
      <3> QED
        BY <1>1, <1>6, <3>1, PairHolds, Zenon
    <2>2. mem[p + 2] = sub /\ Holds(mem, p + 3, z \o y)
      <3>1. p + 2 \in Nat \ {0} /\ Len(<<sub>>) = 1 /\ (p + 2) + 1 = p + 3
        OBVIOUS
      <3>2. Holds(mem, p + 2, <<sub>>) /\ Holds(mem, p + 3, z \o y)
        BY <1>6, <2>1, <3>1, HoldsBoth
      <3>3. mem[(p + 2) + 1 - 1] = <<sub>>[1]
        BY <3>1, <3>2 DEF Holds
      <3> QED
        BY <3>2, <3>3
    <2>3. Holds(mem, p + 3, z) /\ Holds(mem, (p + 3) + Len(z), y)
      <3>1. p + 3 \in Nat \ {0}
        OBVIOUS
      <3> QED
        BY <1>5, <2>2, <3>1, HoldsBoth, Zenon
    <2>4. p + 3 \in Nat \ {0} /\ (p + 3) + Len(z) \in Nat \ {0}
      BY <1>5
    <2>5. Behind(mem, p + 3) = (p + 3) + Len(z) /\ StringAt(mem, p + 3, AttrSiz) = Cut(name, AttrSiz)
      BY <2>3, <2>4, TextAt DEF z
    <2>6. GetVarint(mem, (p + 3) + Len(z)) = arg /\ SkipLen(mem, (p + 3) + Len(z)) = Len(y)
      BY <2>3, <2>4, VarintAt DEF y
    <2>7. At(mem, p) = [htyp |-> "attrbegin", typ |-> attrtype, subtype |-> sub, at |-> p + 3, arg |-> arg,
                        next |-> ((p + 3) + Len(z)) + Len(y)]
      BY <2>1, <2>2, <2>5, <2>6, AtIs, Zenon DEF AttrAt
    <2> DEFINE e == At(mem, p)
    <2>8. /\ e.htyp = "attrbegin" /\ e.typ = attrtype /\ e.subtype = sub /\ e.at = p + 3 /\ e.arg = arg
          /\ e.next = ((p + 3) + Len(z)) + Len(y)
      BY <2>7
    <2> HIDE DEF e
    <2>9. (IF IsStem(e.typ, e.subtype) THEN GetVarint(Zeroed(StringAt(mem, e.at, AttrSiz)), 1) ELSE 0) = stem
      BY <1>3, <2>5, <2>8, Zenon
    <2> HIDE DEF stem
    <2>10. RecordOf(mem, e, h) = record
      BY <2>5, <2>8, <2>9 DEF RecordOf
    <2>11. NewHandle(e) = 0
      BY <2>8 DEF NewHandle
    <2>12. e.next = p + Len(bytes)
      <3>1. ((p + 3) + Len(z)) + Len(y) = p + (Len(name) + 4 + Len(y))
        BY <1>5
      <3> QED
        BY <1>6, <2>8, <3>1, Zenon
    <2> HIDE DEF record, bytes
    <2> QED
      BY <2>8, <2>10, <2>11, <2>12 DEF e
  <1> HIDE DEF bytes, record
  <1>8. Means(bytes, record, h, h)
    BY <1>7, Zenon DEF Means
  <1>9. AttrEntry(typ, subtype, name, arg) = Entry(bytes, Len(name) + 4 + Len(y), record)
    BY DEF AttrEntry, bytes, record, attrtype, sub, z, y
  <1> QED
    BY <1>6, <1>8, <1>9 DEF Sound, Counted, Entry

(* A variable, as long or an alias, with a type the readers know.           *)
LEMMA VarMeans ==
  ASSUME NEW v \in [vt : Byte, vd : Byte, len : Unsigned, nam : CString, alias : Unsigned], xw.maxhandle \in Nat
  PROVE  /\ Counted(VarEntry(v))
         /\ v.vt \in VarTypesRead =>
              Sound(VarEntry(v), xw.maxhandle, IF AliasOf(v.alias) = 0 THEN xw.maxhandle + 1 ELSE xw.maxhandle)
  <1> DEFINE len == LenOf(v.vt, v.len)
             alias == AliasOf(v.alias)
             h == xw.maxhandle
             z == Zeroed(v.nam)
             y == Varint[len]
             x == Varint[alias]
             bytes == <<v.vt, v.vd>> \o z \o y \o x
             record == [htyp |-> "var", typ |-> v.vt, direction |-> v.vd, name |-> Cut(v.nam, NamSiz),
                        length |-> PortLength(v.vt, len), handle |-> IF alias = 0 THEN h + 1 ELSE alias, is_alias |-> alias # 0]
  <1>1. v.vt \in Byte /\ v.vd \in Byte /\ v.nam \in CString /\ v.len \in Unsigned /\ v.alias \in Unsigned
    OBVIOUS
  <1>2. len \in Unsigned /\ alias \in Unsigned /\ alias \in Nat /\ len \in Nat
    <2>1. 0 \in Unsigned /\ 8 \in Unsigned /\ Unsigned \subseteq Nat
      BY ModulusIs DEF Unsigned
    <2> QED
      BY <1>1, <2>1, Zenon DEF LenOf, AliasOf
  <1>3. /\ z \in Bytes /\ y \in Bytes /\ x \in Bytes /\ Len(z) = Len(v.nam) + 1 /\ Len(v.nam) \in Nat
        /\ Len(y) \in Nat /\ Len(x) \in Nat
    BY <1>1, <1>2, TextIs, VarintIs, VarintShape
  <1> HIDE DEF z, y, x, len, alias
  <1>4. /\ bytes = <<v.vt, v.vd>> \o (z \o (y \o x)) /\ z \o (y \o x) \in Bytes /\ y \o x \in Bytes
        /\ bytes \in Bytes /\ bytes # <<>> /\ Len(bytes) = Len(v.nam) + 3 + Len(y) + Len(x)
    <2>1. z \in Seq(Byte) /\ y \in Seq(Byte) /\ x \in Seq(Byte)
      BY <1>3 DEF Bytes
    <2>2. <<v.vt, v.vd>> \in Seq(Byte) /\ Len(<<v.vt, v.vd>>) = 2
      BY <1>1
    <2>3. bytes = <<v.vt, v.vd>> \o (z \o (y \o x))
      BY <2>1, <2>2
    <2>4. y \o x \in Seq(Byte) /\ Len(y \o x) = Len(y) + Len(x)
      BY <2>1
    <2>5. z \o (y \o x) \in Seq(Byte) /\ Len(z \o (y \o x)) = Len(z) + (Len(y) + Len(x))
      BY <2>1, <2>4
    <2>6. bytes \in Seq(Byte) /\ Len(bytes) = 2 + (Len(z) + (Len(y) + Len(x)))
      BY <2>2, <2>3, <2>5
    <2>7. Len(bytes) = Len(v.nam) + 3 + Len(y) + Len(x) /\ Len(bytes) # 0
      BY <1>3, <2>6
    <2> HIDE DEF bytes
    <2> QED
      BY <2>3, <2>4, <2>5, <2>6, <2>7 DEF Bytes
  <1> HIDE DEF bytes
  <1>5. ASSUME v.vt \in VarTypesRead, NEW mem \in Bytes, NEW p \in Nat \ {0}, Holds(mem, p, bytes)
        PROVE  /\ At(mem, p).next = p + Len(bytes) /\ At(mem, p).htyp # "unknown"
               /\ RecordOf(mem, At(mem, p), h) = record
               /\ (IF alias = 0 THEN h + 1 ELSE h) = h + NewHandle(At(mem, p))
    <2>1. mem[p] = v.vt /\ mem[p + 1] = v.vd /\ Holds(mem, p + 2, z \o (y \o x))
      <3>1. Holds(mem, p, <<v.vt, v.vd>> \o (z \o (y \o x)))
        BY <1>4, <1>5, Zenon
      <3> QED
        BY <1>1, <1>4, <3>1, PairHolds, Zenon
    <2>2. p + 2 \in Nat \ {0} /\ (p + 2) + Len(z) \in Nat \ {0} /\ ((p + 2) + Len(z)) + Len(y) \in Nat \ {0}
      BY <1>3
    <2>3. Holds(mem, p + 2, z) /\ Holds(mem, (p + 2) + Len(z), y \o x)
      BY <1>3, <1>4, <2>1, <2>2, HoldsBoth, Zenon
    <2>4. Holds(mem, (p + 2) + Len(z), y) /\ Holds(mem, ((p + 2) + Len(z)) + Len(y), x)
      BY <1>3, <2>2, <2>3, HoldsBoth, Zenon
    <2>5. Behind(mem, p + 2) = (p + 2) + Len(z) /\ StringAt(mem, p + 2, NamSiz) = Cut(v.nam, NamSiz)
      BY <1>1, <2>2, <2>3, TextAt DEF z
    <2>6. GetVarint(mem, (p + 2) + Len(z)) = len /\ SkipLen(mem, (p + 2) + Len(z)) = Len(y)
      BY <1>2, <2>2, <2>4, VarintAt DEF y
    <2>7. GetVarint(mem, ((p + 2) + Len(z)) + Len(y)) = alias /\ SkipLen(mem, ((p + 2) + Len(z)) + Len(y)) = Len(x)
      BY <1>2, <2>2, <2>4, VarintAt DEF x
    <2>8. At(mem, p) = [htyp |-> "var", typ |-> v.vt, direction |-> v.vd, at |-> p + 2, len |-> len, alias |-> alias,
                        next |-> (((p + 2) + Len(z)) + Len(y)) + Len(x)]
      BY <1>5, <2>1, <2>5, <2>6, <2>7, AtIs, Zenon DEF VarAt
    <2> DEFINE e == At(mem, p)
    <2>9. /\ e.htyp = "var" /\ e.typ = v.vt /\ e.direction = v.vd /\ e.at = p + 2 /\ e.len = len /\ e.alias = alias
          /\ e.next = (((p + 2) + Len(z)) + Len(y)) + Len(x)
      BY <2>8
    <2> HIDE DEF e
    <2>10. RecordOf(mem, e, h) = record
      BY <2>5, <2>9 DEF RecordOf
    <2>11. h + NewHandle(e) = IF alias = 0 THEN h + 1 ELSE h
      BY <2>9 DEF NewHandle
    <2>12. e.next = p + Len(bytes)
      <3>1. (((p + 2) + Len(z)) + Len(y)) + Len(x) = p + (Len(v.nam) + 3 + Len(y) + Len(x))
        BY <1>3
      <3> QED
        BY <1>4, <2>9, <3>1, Zenon
    <2> HIDE DEF record, h
    <2> QED
      BY <2>9, <2>10, <2>11, <2>12 DEF e
  <1> HIDE DEF record, h
  <1>6. v.vt \in VarTypesRead => Means(bytes, record, h, IF alias = 0 THEN h + 1 ELSE h)
    BY <1>5, Zenon DEF Means
  <1>7. VarEntry(v) = Entry(bytes, Len(v.nam) + 3 + Len(y) + Len(x), record)
    BY DEF VarEntry, LenCounted, bytes, record, len, alias, z, y, x, h
  <1>8. VarEntry(v).bytes = bytes /\ VarEntry(v).len = Len(v.nam) + 3 + Len(y) + Len(x) /\ VarEntry(v).record = record
    BY <1>7 DEF Entry
  <1>9. Counted(VarEntry(v))
    BY <1>4, <1>8, Zenon DEF Counted
  <1> QED
    BY <1>6, <1>8, <1>9, Zenon DEF Sound, alias, h

(* A line becomes a string, and an attribute.                               *)
LEMMA GenericMeans ==
  ASSUME NEW comm \in CString, NEW typ \in Byte, NEW arg \in Unsigned, NEW h \in Nat, ~IsStem(FST_AT_MISC, typ)
  PROVE  Sound(GenericEntry(comm, typ, arg), h, h)
  <1>1. Blanked(comm) \in CString
    <2>1. ASSUME NEW c \in 1 .. 255 PROVE Blank(c) \in 1 .. 255
      BY DEF Blank, Space
    <2>2. Len(comm) \in Nat /\ \A i \in 1 .. Len(comm) : comm[i] \in 1 .. 255
      BY ElementOfSeq DEF CString
    <2>3. Blanked(comm) \in [1 .. Len(comm) -> 1 .. 255]
      BY <2>1, <2>2 DEF Blanked
    <2> QED
      BY <2>2, <2>3, SeqDef DEF CString
  <1>2. FST_AT_MISC \in Byte
    BY DEF FST_AT_MISC, Byte
  <1> QED
    BY <1>1, <1>2, AttrMeans, Zenon DEF GenericEntry

(* Sequences one behind the other, one at a time.                           *)
LEMMA FlattenTrace ==
  ASSUME NEW S, NEW ss \in Seq(Seq(S))
  PROVE  \E f \in [0 .. Len(ss) -> Seq(S)] :
           /\ f[0] = <<>> /\ \A k \in 1 .. Len(ss) : f[k] = f[k - 1] \o ss[k]
           /\ FlattenSeq(ss) = f[Len(ss)]
  <1> DEFINE n == Len(ss)
             A == Seq(S)
             none == <<>>
             step == [k \in 1 .. n |-> [s \in A |-> s \o ss[k]]]
             Fits(g) == g = [i \in 1 .. n |-> IF i = 1 THEN ss[i] ELSE g[i - 1] \o ss[i]]
             flatten == CHOOSE g : Fits(g)
  <1>1. n \in Nat /\ none \in A /\ \A k \in 1 .. n : ss[k] \in A
    BY ElementOfSeq, LenProperties
  <1>2. step \in [1 .. n -> [A -> A]] /\ \A k \in 1 .. n : \A s \in A : step[k][s] = s \o ss[k]
    <2>1. ASSUME NEW k \in 1 .. n, NEW s \in A PROVE s \o ss[k] \in A
      BY <1>1
    <2> HIDE DEF n
    <2> QED
      BY <2>1
  <1>3. n # 0 => FlattenSeq(ss) = flatten[n]
    BY Zenon DEF FlattenSeq
  <1>4. n = 0 => FlattenSeq(ss) = <<>>
    <2>1. n = 0 => ss = <<>>
      BY EmptySeq
    <2> QED
      BY <2>1, Zenon DEF FlattenSeq
  <1> HIDE DEF n, step, none
  <1>5. PICK f : Recurs(f, A, none, step, n)
    <2> HIDE DEF A
    <2> QED
      BY <1>1, <1>2, RecursionExists
  <1>6. f \in [0 .. n -> A] /\ f[0] = <<>> /\ \A k \in 1 .. n : f[k] = f[k - 1] \o ss[k]
    <2>1. f \in [0 .. n -> A] /\ f[0] = none /\ \A k \in 1 .. n : f[k] = step[k][f[k - 1]]
      BY <1>5, Zenon DEF Recurs
    <2>2. ASSUME NEW k \in 1 .. n PROVE step[k][f[k - 1]] = f[k - 1] \o ss[k]
      <3>1. k - 1 \in 0 .. n
        BY <1>1
      <3>2. f[k - 1] \in A
        BY <2>1, <3>1
      <3> QED
        BY <1>2, <3>2, Zenon
    <2> QED
      BY <2>1, <2>2, Zenon DEF none
  <1>7. CASE n = 0
    BY <1>4, <1>6, <1>7, Zenon DEF n
  <1>8. CASE n # 0
    <2> DEFINE g == [i \in 1 .. n |-> f[i]]
    <2>1. ASSUME NEW i \in 1 .. n PROVE g[i] = IF i = 1 THEN ss[i] ELSE g[i - 1] \o ss[i]
      <3>1. CASE i = 1
        <4>1. f[1] = f[0] \o ss[1] /\ ss[1] \in Seq(S)
          <5>1. 1 - 1 = 0
            OBVIOUS
          <5> QED
            BY <1>1, <1>6, <3>1, <5>1
        <4> QED
          BY <1>6, <3>1, <4>1
      <3>2. CASE i # 1
        <4>1. i - 1 \in 1 .. n
          BY <1>1, <3>2
        <4> QED
          BY <1>6, <3>2, <4>1, Zenon
      <3> QED
        BY <3>1, <3>2
    <2>2. g = [i \in 1 .. n |-> g[i]]
      OBVIOUS
    <2> HIDE DEF g
    <2>3. Fits(g)
      BY <2>1, <2>2, Zenon
    <2>4. Fits(flatten)
      BY <2>3, Zenon
    <2> HIDE DEF flatten
    <2>5. /\ \A i \in 1 .. n : flatten[i] = IF i = 1 THEN ss[i] ELSE flatten[i - 1] \o ss[i]
      BY <2>4, Zenon
    <2> DEFINE S1 == {k \in Nat : k \in 1 .. n => flatten[k] = f[k]}
    <2>6. 0 \in S1
      OBVIOUS
    <2>7. ASSUME NEW k \in 1 .. n, k - 1 \in S1 PROVE k \in S1
      <3>1. CASE k = 1
        <4>1. flatten[1] = ss[1] /\ f[1] = f[0] \o ss[1] /\ ss[1] \in Seq(S)
          <5>1. 1 - 1 = 0 /\ 1 \in 1 .. n
            BY <3>1
          <5> QED
            BY <1>1, <1>6, <2>5, <5>1, Zenon
        <4>2. flatten[1] = f[1]
          BY <1>6, <4>1
        <4> QED
          BY <3>1, <4>2
      <3>2. CASE k # 1
        <4>1. k - 1 \in 1 .. n
          BY <1>1, <3>2
        <4>2. flatten[k - 1] = f[k - 1]
          BY <2>7, <4>1
        <4>3. flatten[k] = flatten[k - 1] \o ss[k] /\ f[k] = f[k - 1] \o ss[k]
          BY <1>6, <2>5, <3>2, Zenon
        <4>4. flatten[k] = f[k]
          BY <4>2, <4>3
        <4>5. k \in Nat
          BY <1>1
        <4> QED
          BY <4>4, <4>5
      <3> QED
        BY <3>1, <3>2
    <2> HIDE DEF S1
    <2>8. n \in S1
      <3>1. 0 .. n \subseteq S1
        BY <1>1, <2>6, <2>7, BoundedInduction
      <3> QED
        BY <1>1, <3>1
    <2>9. flatten[n] = f[n]
      BY <1>1, <1>8, <2>8 DEF S1
    <2> QED
      BY <1>3, <1>6, <1>8, <2>9, Zenon DEF n
  <1> QED
    BY <1>7, <1>8

(* What FlattenSeq makes of sequences, and of one and two of them.          *)
LEMMA FlattenIs ==
  ASSUME NEW S
  PROVE  /\ \A ss \in Seq(Seq(S)) : FlattenSeq(ss) \in Seq(S)
         /\ \A s \in Seq(S) : FlattenSeq(<<s>>) = s
         /\ \A s, t \in Seq(S) : FlattenSeq(<<s, t>>) = s \o t
  <1>1. ASSUME NEW ss \in Seq(Seq(S)) PROVE FlattenSeq(ss) \in Seq(S)
    <2>1. PICK f \in [0 .. Len(ss) -> Seq(S)] : FlattenSeq(ss) = f[Len(ss)]
      BY FlattenTrace
    <2>2. Len(ss) \in 0 .. Len(ss)
      OBVIOUS
    <2> QED
      BY <2>1, <2>2
  <1>2. ASSUME NEW s \in Seq(S) PROVE FlattenSeq(<<s>>) = s
    <2> DEFINE ss == <<s>>
    <2>1. ss \in Seq(Seq(S)) /\ Len(ss) = 1 /\ ss[1] = s
      OBVIOUS
    <2> HIDE DEF ss
    <2>2. PICK f \in [0 .. Len(ss) -> Seq(S)] :
            /\ f[0] = <<>> /\ \A k \in 1 .. Len(ss) : f[k] = f[k - 1] \o ss[k]
            /\ FlattenSeq(ss) = f[Len(ss)]
      BY <2>1, FlattenTrace, Zenon
    <2>3. 1 \in 1 .. Len(ss) /\ 1 - 1 = 0
      BY <2>1
    <2>4. f[1] = f[1 - 1] \o ss[1]
      BY <2>2, <2>3
    <2>5. f[1] = <<>> \o s
      BY <2>1, <2>2, <2>3, <2>4, Zenon
    <2>6. <<>> \o s = s
      OBVIOUS
    <2>7. FlattenSeq(ss) = s
      BY <2>1, <2>2, <2>5, <2>6, Zenon
    <2> QED
      BY <2>7 DEF ss
  <1>3. ASSUME NEW s \in Seq(S), NEW t \in Seq(S) PROVE FlattenSeq(<<s, t>>) = s \o t
    <2> DEFINE ss == <<s, t>>
    <2>1. ss \in Seq(Seq(S)) /\ Len(ss) = 2 /\ ss[1] = s /\ ss[2] = t
      OBVIOUS
    <2> HIDE DEF ss
    <2>2. PICK f \in [0 .. Len(ss) -> Seq(S)] :
            /\ f[0] = <<>> /\ \A k \in 1 .. Len(ss) : f[k] = f[k - 1] \o ss[k]
            /\ FlattenSeq(ss) = f[Len(ss)]
      BY <2>1, FlattenTrace, Zenon
    <2>3. 1 \in 1 .. Len(ss) /\ 2 \in 1 .. Len(ss) /\ 1 - 1 = 0 /\ 2 - 1 = 1
      BY <2>1
    <2>4. f[1] = f[1 - 1] \o ss[1] /\ f[2] = f[2 - 1] \o ss[2]
      BY <2>2, <2>3
    <2>5. f[1] = <<>> \o s /\ f[2] = f[1] \o t
      BY <2>1, <2>2, <2>3, <2>4, Zenon
    <2>6. <<>> \o s = s
      OBVIOUS
    <2>7. FlattenSeq(ss) = s \o t
      BY <2>1, <2>2, <2>5, <2>6, Zenon
    <2> QED
      BY <2>7 DEF ss
  <1> QED
    BY <1>1, <1>2, <1>3

----------------------------------------------------------------------------
(* The numbers and escapes of an enumeration table are strings.             *)
LEMMA CStringsJoin ==
  /\ \A s, t \in CString : s \o t \in CString
  /\ \A c \in 1 .. 255 : <<c>> \in CString
  /\ \A n \in Nat : \A s \in [1 .. n -> 1 .. 255] : s \in CString
  /\ \A n \in Nat : \A f \in [1 .. n -> CString] : FlattenSeq(f) \in CString
  <1>1. \A n \in Nat : \A f \in [1 .. n -> CString] : f \in Seq(CString)
    BY SeqDef
  <1>2. \A n \in Nat : \A s \in [1 .. n -> 1 .. 255] : s \in CString
    BY SeqDef DEF CString
  <1>3. \A ss \in Seq(CString) : FlattenSeq(ss) \in CString
    BY FlattenIs DEF CString
  <1>4. \A s, t \in CString : s \o t \in CString
    BY DEF CString
  <1>5. \A c \in 1 .. 255 : <<c>> \in CString
    BY DEF CString
  <1> QED
    BY <1>1, <1>2, <1>3, <1>4, <1>5, Zenon

(* A number printed is a string.                                            *)
LEMMA DecimalIs == \A n \in Nat : Decimal[n] \in CString
  <1> DEFINE stop == {u \in Nat : u < 10}
             base == [u \in Nat |-> IF u < 10 THEN <<u + Zero>> ELSE <<>>]
             step == [u \in Nat |-> [s \in CString |-> s \o <<(u % 10) + Zero>>]]
             pred == [u \in Nat |-> u \div 10]
             Fits(f) == f = [u \in Nat |-> IF u < 10 THEN <<u + Zero>>
                                           ELSE f[u \div 10] \o <<(u % 10) + Zero>>]
  <1>1. \A u \in Nat : <<(u % 10) + Zero>> \in CString /\ (u < 10 => <<u + Zero>> \in CString)
    <2>1. \A u \in Nat : (u % 10) + Zero \in 1 .. 255 /\ (u < 10 => u + Zero \in 1 .. 255)
      BY DEF Zero
    <2> QED
      BY <2>1, CStringsJoin
  <1>2. base \in [Nat -> CString] /\ step \in [Nat -> [CString -> CString]]
    <2>1. <<>> \in CString
      BY DEF CString
    <2>2. \A u \in Nat : \A s \in CString : s \o <<(u % 10) + Zero>> \in CString
      BY <1>1, CStringsJoin
    <2> QED
      BY <1>1, <2>1, <2>2
  <1>3. GoesDown(stop, pred)
    BY DEF GoesDown
  <1>4. PICK f \in [Nat -> CString] : Descends(f, Nat, stop, base, step, pred)
    <2> HIDE DEF stop, base, step, pred
    <2> QED
      BY <1>2, <1>3, DescentExists
  <1>5. ASSUME NEW u \in Nat
        PROVE  f[u] = IF u < 10 THEN <<u + Zero>> ELSE f[u \div 10] \o <<(u % 10) + Zero>>
    <2>1. f[u] = IF u \in stop THEN base[u] ELSE step[u][f[pred[u]]]
      BY <1>4, Zenon DEF Descends
    <2>2. u \div 10 \in Nat /\ pred[u] = u \div 10
      OBVIOUS
    <2>3. f[u \div 10] \in CString
      BY <2>2
    <2>4. u \in stop <=> u < 10
      OBVIOUS
    <2>5. u < 10 => base[u] = <<u + Zero>>
      OBVIOUS
    <2>6. step[u][f[u \div 10]] = f[u \div 10] \o <<(u % 10) + Zero>>
      BY <2>3
    <2> HIDE DEF stop, base, step, pred
    <2> QED
      BY <2>1, <2>2, <2>4, <2>5, <2>6, Zenon
  <1>6. Fits(f)
    <2>1. f = [u \in Nat |-> f[u]]
      OBVIOUS
    <2> QED
      BY <1>5, <2>1, Zenon
  <1>7. Decimal = CHOOSE g : Fits(g)
    BY Zenon DEF Decimal
  <1>8. Fits(Decimal)
    BY <1>6, <1>7, Zenon
  <1>9. \A u \in Nat : Decimal[u] = IF u < 10 THEN <<u + Zero>> ELSE Decimal[u \div 10] \o <<(u % 10) + Zero>>
    BY <1>8, Zenon
  <1> DEFINE S == {u \in Nat : Decimal[u] \in CString}
  <1>10. ASSUME NEW u \in Nat, \A w \in 0 .. u - 1 : w \in S PROVE u \in S
    <2>1. CASE u < 10
      <3>1. Decimal[u] \in CString
        BY <1>1, <1>9, <2>1, Zenon
      <3> QED
        BY <3>1
    <2>2. CASE ~(u < 10)
      <3>1. u \div 10 \in 0 .. u - 1
        BY <2>2
      <3>2. Decimal[u \div 10] \in CString
        BY <1>10, <3>1
      <3>3. Decimal[u] \in CString
        BY <1>1, <1>9, <2>2, <3>2, CStringsJoin, Zenon
      <3> QED
        BY <3>3
    <2> QED
      BY <2>1, <2>2
  <1> HIDE DEF S
  <1>11. \A u \in Nat : u \in S
    BY <1>10, StrongInduction
  <1> QED
    BY <1>11 DEF S

(* What fstUtilityBinToEsc makes of a string is a string.                   *)
LEMMA BinToEscIs == \A s \in CString : BinToEsc(s) \in CString
  <1>1. ASSUME NEW c \in 1 .. 255 PROVE EscapeOf(c) \in CString
    <2>1. CASE c \in Special
      <3>1. \E pair \in EscapePairs : pair[1] = c
        BY <2>1 DEF Special
      <3>2. (CHOOSE pair \in EscapePairs : pair[1] = c) \in EscapePairs
        BY <3>1
      <3>3. \A pair \in EscapePairs : pair[2] \in 1 .. 255
        BY DEF EscapePairs, Backslash
      <3>4. EscapeLetter(c) \in 1 .. 255 /\ Backslash \in 1 .. 255
        BY <3>2, <3>3 DEF EscapeLetter, Backslash
      <3> QED
        BY <2>1, <3>4 DEF EscapeOf, CString
    <2>2. CASE c \notin Special /\ Printable(c)
      BY <2>2, CStringsJoin DEF EscapeOf
    <2>3. CASE c \notin Special /\ ~Printable(c)
      <3>1. /\ Backslash \in 1 .. 255 /\ (c \div 64) + Zero \in 1 .. 255 /\ ((c % 64) \div 8) + Zero \in 1 .. 255
            /\ (c % 8) + Zero \in 1 .. 255
        BY DEF Backslash, Zero
      <3>2. EscapeOf(c) = <<Backslash, (c \div 64) + Zero, ((c % 64) \div 8) + Zero, (c % 8) + Zero>>
        BY <2>3, Zenon DEF EscapeOf
      <3> QED
        BY <3>1, <3>2 DEF CString
    <2> QED
      BY <2>1, <2>2, <2>3
  <1> SUFFICES ASSUME NEW s \in CString PROVE BinToEsc(s) \in CString
    OBVIOUS
  <1>2. Len(s) \in Nat /\ \A i \in 1 .. Len(s) : s[i] \in 1 .. 255
    BY ElementOfSeq DEF CString
  <1>3. [i \in 1 .. Len(s) |-> EscapeOf(s[i])] \in [1 .. Len(s) -> CString]
    BY <1>1, <1>2
  <1> QED
    BY <1>2, <1>3, CStringsJoin DEF BinToEsc

(* The string an enumeration table is kept as is a string.                  *)
LEMMA EnumTableStringIs ==
  ASSUME NEW t \in [name : CString, literals : Seq(CString), vals : Seq(CString)], NEW bits \in Nat
  PROVE  EnumTableString(t.name, t.literals, t.vals, bits) \in CString
  <1> DEFINE spaced(s) == s \o <<Space>>
             literals == [i \in 1 .. Len(t.literals) |-> spaced(BinToEsc(t.literals[i]))]
             vals == [i \in 1 .. Len(t.vals) |-> spaced(Padded(t.vals[i], bits))]
             all == spaced(t.name) \o spaced(Decimal[Len(t.literals)]) \o FlattenSeq(literals) \o FlattenSeq(vals)
  <1>1. /\ t.name \in CString /\ t.literals \in Seq(CString) /\ t.vals \in Seq(CString)
        /\ Len(t.literals) \in Nat /\ Len(t.vals) \in Nat
        /\ \A i \in 1 .. Len(t.literals) : t.literals[i] \in CString
        /\ \A i \in 1 .. Len(t.vals) : t.vals[i] \in CString
    BY ElementOfSeq, LenProperties
  <1>2. \A s \in CString : spaced(s) \in CString
    <2>1. <<Space>> \in CString
      BY CStringsJoin DEF Space
    <2> QED
      BY <2>1, CStringsJoin
  <1>3. \A s \in CString : Padded(s, bits) \in CString
    <2> SUFFICES ASSUME NEW s \in CString PROVE Padded(s, bits) \in CString
      OBVIOUS
    <2>1. Padding(s, bits) \in Nat
      BY LenProperties DEF Padding, CString
    <2>2. Zeros(Padding(s, bits)) \in [1 .. Padding(s, bits) -> 1 .. 255]
      BY DEF Zeros, Zero
    <2>3. Zeros(Padding(s, bits)) \in CString
      BY <2>1, <2>2, CStringsJoin
    <2> QED
      BY <2>3, BinToEscIs, CStringsJoin DEF Padded
  <1>4. FlattenSeq(literals) \in CString
    <2>1. literals \in [1 .. Len(t.literals) -> CString]
      BY <1>1, <1>2, BinToEscIs
    <2> HIDE DEF literals
    <2> QED
      BY <1>1, <2>1, CStringsJoin, Zenon
  <1>5. FlattenSeq(vals) \in CString
    <2>1. vals \in [1 .. Len(t.vals) -> CString]
      BY <1>1, <1>2, <1>3
    <2> HIDE DEF vals
    <2> QED
      BY <1>1, <2>1, CStringsJoin, Zenon
  <1>6. spaced(t.name) \in CString /\ spaced(Decimal[Len(t.literals)]) \in CString
    BY <1>1, <1>2, DecimalIs, Zenon
  <1>7. EnumTableString(t.name, t.literals, t.vals, bits) = SubSeq(all, 1, Len(all) - 1)
    BY Zenon DEF EnumTableString
  <1> HIDE DEF literals, vals, spaced
  <1>8. all \in CString
    BY <1>4, <1>5, <1>6, CStringsJoin, Zenon
  <1> HIDE DEF all
  <1>9. SubSeq(all, 1, Len(all) - 1) \in CString
    <2>1. Len(all) \in Nat /\ \A i \in 1 .. Len(all) : all[i] \in 1 .. 255
      BY <1>8, ElementOfSeq DEF CString
    <2> DEFINE m == Len(all) - 1
    <2>2. CASE m \in Nat
      <3>1. SubSeq(all, 1, m) = [i \in 1 .. m |-> all[i]]
        <4>1. SubSeq(all, 1, m) = [i \in 1 .. (1 + m - 1) |-> all[(i + 1) - 1]]
          BY <1>8, <2>1, <2>2 DEF CString
        <4> QED
          BY <2>2, <4>1
      <3>2. [i \in 1 .. m |-> all[i]] \in [1 .. m -> 1 .. 255]
        <4>1. \A i \in 1 .. m : i \in 1 .. Len(all)
          BY <2>1, <2>2
        <4>2. \A i \in 1 .. m : all[i] \in 1 .. 255
          BY <2>1, <4>1, Zenon
        <4> HIDE DEF m
        <4> QED
          BY <4>2
      <3> QED
        BY <2>2, <3>1, <3>2, CStringsJoin
    <2>3. CASE m \notin Nat
      <3>1. Len(all) = 0
        BY <2>1, <2>3
      <3> QED
        BY <1>8, <3>1 DEF CString
    <2> QED
      BY <2>2, <2>3
  <1> QED
    BY <1>7, <1>9

(* The lengths of one entry and of two, added up.                           *)
LEMMA LengthsAddUp ==
  ASSUME NEW base \in Nat, NEW s, NEW n \in {1, 2}, Len(s) = n, DOMAIN s = 1 .. n,
         \A k \in 1 .. n : s[k].len \in Nat
  PROVE  FoldLeft(Longer, base, s) = IF n = 1 THEN base + s[1].len ELSE (base + s[1].len) + s[2].len
  <1> DEFINE T == SUBSET (1 .. n)
             step == [k \in 1 .. n |-> [a \in Nat |-> a + s[k].len]]
             Fits(f) == f = [t \in T |-> IF t = {} THEN base
                                         ELSE Longer(f[t \ {Max(t)}], s[Max(t)])]
             f == CHOOSE g : Fits(g)
  <1>1. n \in Nat /\ n > 0
    OBVIOUS
  <1>2. step \in [1 .. n -> [Nat -> Nat]] /\ \A k \in 1 .. n : \A a \in Nat : step[k][a] = Longer(a, s[k])
    <2>1. \A k \in 1 .. n : \A a \in Nat : a + s[k].len \in Nat
      OBVIOUS
    <2> QED
      BY <2>1 DEF Longer
  <1> HIDE DEF step
  <1>3. PICK F \in [T -> Nat] : Folds(F, base, step, n)
    BY <1>1, <1>2, FoldsExist
  <1>4. \A t \in T : t # {} => Max(t) \in 1 .. n /\ t \ {Max(t)} \in T
    BY <1>1, MaxIsIn
  <1>5. \A t \in T : F[t] \in Nat
    OBVIOUS
  <1> HIDE DEF T
  <1>6. ASSUME NEW t \in T
        PROVE  (IF t = {} THEN base ELSE step[Max(t)][F[t \ {Max(t)}]])
               = (IF t = {} THEN base ELSE Longer(F[t \ {Max(t)}], s[Max(t)]))
    BY <1>2, <1>4, <1>5, Zenon
  <1>7. F = [t \in T |-> IF t = {} THEN base ELSE step[Max(t)][F[t \ {Max(t)}]]]
    BY <1>3, Zenon DEF Folds, T
  <1>8. Fits(F)
    BY <1>6, <1>7, Zenon
  <1>9. Fits(f)
    BY <1>8, Zenon
  <1>10. FoldLeft(Longer, base, s) = f[1 .. n]
    BY Zenon DEF FoldLeft, MapThenFoldSet, T
  <1> HIDE DEF f
  <1>11. f[{}] = base
    <2>1. {} \in T
      BY Zenon DEF T
    <2> QED
      BY <1>9, <2>1, Zenon
  <1>12. ASSUME NEW k \in 1 .. n PROVE f[1 .. k] = f[1 .. (k - 1)] + s[k].len
    <2>1. 1 .. k \in T /\ 1 .. k # {} /\ Max(1 .. k) = k /\ (1 .. k) \ {k} = 1 .. (k - 1)
      BY <1>1, FrontSets, Zenon DEF T
    <2>2. f[1 .. k] = Longer(f[(1 .. k) \ {Max(1 .. k)}], s[Max(1 .. k)])
      BY <1>9, <2>1, Zenon
    <2> QED
      BY <2>1, <2>2, Zenon DEF Longer
  <1>13. f[1 .. 1] = base + s[1].len
    <2>1. 1 \in 1 .. n /\ 1 .. (1 - 1) = {}
      BY <1>1
    <2> QED
      BY <1>11, <1>12, <2>1, Zenon
  <1>14. n = 2 => f[1 .. 2] = (base + s[1].len) + s[2].len
    <2>1. n = 2 => 2 \in 1 .. n
      BY <1>1
    <2>2. 2 - 1 = 1
      OBVIOUS
    <2> QED
      BY <1>12, <1>13, <2>1, <2>2, Zenon
  <1> QED
    BY <1>10, <1>13, <1>14, Zenon

----------------------------------------------------------------------------
(* One entry, and two, behind what was written and said.                    *)
LEMMA CallAddsOne ==
  ASSUME hier \in Bytes, NEW S, said \in Seq(S), NEW e, Counted(e), NEW w, w.hier_file_len \in Nat, Call(<<e>>, w)
  PROVE  /\ hier' = hier \o e.bytes /\ said' = Append(said, e.record)
         /\ xw' = [w EXCEPT !.hier_file_len = @ + e.len, !.calls = @ + 1] /\ UNCHANGED <<xr, returned>>
  <1> DEFINE s == <<e>>
  <1>1. Len(s) = 1 /\ DOMAIN s = 1 .. 1 /\ s[1] = e /\ e.bytes \in Bytes /\ e.len \in Nat
    BY DEF Counted, Bytes
  <1> HIDE DEF s
  <1>2. [i \in 1 .. Len(s) |-> s[i].bytes] = <<e.bytes>> /\ [i \in 1 .. Len(s) |-> s[i].record] = <<e.record>>
    BY <1>1
  <1>3. FlattenSeq(<<e.bytes>>) = e.bytes
    BY <1>1, FlattenIs DEF Bytes
  <1>4. FoldLeft(Longer, w.hier_file_len, s) = w.hier_file_len + e.len
    <2>1. 1 \in {1, 2} /\ \A k \in 1 .. 1 : s[k].len \in Nat
      BY <1>1
    <2> QED
      BY <1>1, <2>1, LengthsAddUp, Zenon
  <1>5. /\ hier' = hier \o FlattenSeq([i \in 1 .. Len(s) |-> s[i].bytes])
        /\ said' = said \o [i \in 1 .. Len(s) |-> s[i].record]
        /\ xw' = [w EXCEPT !.hier_file_len = FoldLeft(Longer, w.hier_file_len, s), !.calls = @ + 1]
        /\ UNCHANGED <<xr, returned>>
    BY Zenon DEF Call, s
  <1>6. said \o <<e.record>> = Append(said, e.record)
    BY AppendIsConcat
  <1> QED
    BY <1>2, <1>3, <1>4, <1>5, <1>6, Zenon

(* A call that writes two entries writes the first, then the second.        *)
LEMMA CallAddsTwo ==
  ASSUME hier \in Bytes, NEW S, said \in Seq(S), NEW e, Counted(e), NEW d, Counted(d),
         NEW w, w.hier_file_len \in Nat, Call(<<e, d>>, w)
  PROVE  /\ hier' = (hier \o e.bytes) \o d.bytes /\ said' = Append(Append(said, e.record), d.record)
         /\ xw' = [w EXCEPT !.hier_file_len = (@ + e.len) + d.len, !.calls = @ + 1] /\ UNCHANGED <<xr, returned>>
  <1> DEFINE s == <<e, d>>
  <1>1. /\ Len(s) = 2 /\ DOMAIN s = 1 .. 2 /\ s[1] = e /\ s[2] = d
        /\ e.bytes \in Bytes /\ e.len \in Nat /\ d.bytes \in Bytes /\ d.len \in Nat
    BY DEF Counted, Bytes
  <1> HIDE DEF s
  <1>2. /\ [i \in 1 .. Len(s) |-> s[i].bytes] = <<e.bytes, d.bytes>>
        /\ [i \in 1 .. Len(s) |-> s[i].record] = <<e.record, d.record>>
    BY <1>1
  <1>3. FlattenSeq(<<e.bytes, d.bytes>>) = e.bytes \o d.bytes
    BY <1>1, FlattenIs DEF Bytes
  <1>4. FoldLeft(Longer, w.hier_file_len, s) = (w.hier_file_len + e.len) + d.len
    <2>1. 2 \in {1, 2} /\ 2 # 1 /\ \A k \in 1 .. 2 : s[k].len \in Nat
      BY <1>1
    <2> QED
      BY <1>1, <2>1, LengthsAddUp, Zenon
  <1>5. /\ hier' = hier \o FlattenSeq([i \in 1 .. Len(s) |-> s[i].bytes])
        /\ said' = said \o [i \in 1 .. Len(s) |-> s[i].record]
        /\ xw' = [w EXCEPT !.hier_file_len = FoldLeft(Longer, w.hier_file_len, s), !.calls = @ + 1]
        /\ UNCHANGED <<xr, returned>>
    BY Zenon DEF Call, s
  <1>6. said \o <<e.record, d.record>> = Append(Append(said, e.record), d.record)
    <2> DEFINE R == S \cup {e.record, d.record}
               r == e.record
               q == d.record
    <2>1. said \in Seq(R) /\ r \in R /\ q \in R
      <3>1. S \subseteq R
        OBVIOUS
      <3> QED
        BY <3>1, SeqMonotonic
    <2> HIDE DEF R, r, q
    <2>2. said \o <<r, q>> = Append(Append(said, r), q)
      <3>1. <<r>> \in Seq(R) /\ <<q>> \in Seq(R) /\ <<r>> \o <<q>> = <<r, q>>
        <4> DEFINE front == <<r>>
                   back == <<q>>
                   both == <<r, q>>
                   joined == front \o back
        <4>1. front \in Seq(R) /\ Len(front) = 1 /\ front[1] = r
          BY <2>1
        <4>2. back \in Seq(R) /\ Len(back) = 1 /\ back[1] = q
          BY <2>1
        <4>3. both \in Seq(R) /\ Len(both) = 2 /\ both[1] = r /\ both[2] = q
          BY <2>1
        <4> HIDE DEF front, back, both
        <4>4. joined \in Seq(R) /\ Len(joined) = 2 /\ joined[1] = front[1] /\ joined[2] = back[1]
          <5>1. /\ joined \in Seq(R) /\ Len(joined) = Len(front) + Len(back)
                /\ \A i \in 1 .. Len(front) + Len(back) :
                     joined[i] = IF i <= Len(front) THEN front[i] ELSE back[i - Len(front)]
            BY <4>1, <4>2, ConcatProperties, Zenon
          <5> HIDE DEF joined
          <5>2. 1 + 1 = 2 /\ 1 \in 1 .. 2 /\ 2 \in 1 .. 2 /\ 1 <= 1 /\ ~(2 <= 1) /\ 2 - 1 = 1
            OBVIOUS
          <5> QED
            BY <4>1, <4>2, <5>1, <5>2, Zenon
        <4> HIDE DEF joined
        <4>5. joined = both
          <5>1. \A i \in 1 .. 2 : joined[i] = both[i]
            <6>1. \A i \in 1 .. 2 : i = 1 \/ i = 2
              OBVIOUS
            <6> QED
              BY <4>1, <4>2, <4>3, <4>4, <6>1, Zenon
          <5> QED
            BY <4>3, <4>4, <5>1, SeqEqual
        <4> QED
          BY <4>1, <4>2, <4>5, Zenon DEF front, back, both, joined
      <3>2. said \o (<<r>> \o <<q>>) = (said \o <<r>>) \o <<q>>
        BY <2>1, <3>1, ConcatAssociative
      <3>3. said \o <<r>> = Append(said, r) /\ Append(said, r) \in Seq(R)
        BY <2>1, AppendIsConcat
      <3>4. Append(said, r) \o <<q>> = Append(Append(said, r), q)
        BY <2>1, <3>3, AppendIsConcat
      <3> QED
        BY <3>1, <3>2, <3>3, <3>4, Zenon
    <2> QED
      BY <2>2, Zenon DEF r, q
  <1>7. hier \o (e.bytes \o d.bytes) = (hier \o e.bytes) \o d.bytes
    <2>1. hier \in Seq(Byte) /\ e.bytes \in Seq(Byte) /\ d.bytes \in Seq(Byte)
      BY <1>1 DEF Bytes
    <2>2. ASSUME NEW x \in Seq(Byte), NEW y \in Seq(Byte), NEW z \in Seq(Byte) PROVE x \o (y \o z) = (x \o y) \o z
      BY ConcatAssociative
    <2> QED
      BY <2>1, <2>2, Zenon
  <1> QED
    BY <1>2, <1>3, <1>4, <1>5, <1>6, <1>7, Zenon

(* The varint of a number but zero is a string.                             *)
LEMMA VarintIsText == \A n \in Nat \ {0} : Varint[n] \in CString
  <1> DEFINE S == {n \in Nat : n # 0 => Varint[n] \in CString}
  <1>1. ASSUME NEW n \in Nat, \A m \in 0 .. n - 1 : m \in S PROVE n \in S
    <2>1. CASE n = 0
      BY <2>1
    <2>2. CASE n # 0 /\ n < 128
      <3>1. n \in 1 .. 255
        BY <2>2
      <3>2. Varint[n] = <<n>>
        BY <2>2, VarintIs, Zenon
      <3>3. Varint[n] \in CString
        BY <3>1, <3>2, CStringsJoin, Zenon
      <3> QED
        BY <3>3
    <2>3. CASE n >= 128
      <3>1. n \div 128 \in 0 .. n - 1 /\ n \div 128 # 0 /\ 128 + (n % 128) \in 1 .. 255 /\ n \div 128 \in Nat
        BY <2>3
      <3>2. Varint[n \div 128] \in CString
        BY <1>1, <3>1
      <3>3. <<128 + (n % 128)>> \in CString
        BY <3>1, CStringsJoin
      <3>4. Varint[n] = <<128 + (n % 128)>> \o Varint[n \div 128]
        BY <2>3, VarintIs
      <3>5. Varint[n] \in CString
        BY <3>2, <3>3, <3>4, CStringsJoin, Zenon
      <3> QED
        BY <3>5
    <2> QED
      BY <2>1, <2>2, <2>3
  <1> HIDE DEF S
  <1>2. \A n \in Nat : n \in S
    BY <1>1, StrongInduction
  <1> QED
    BY <1>2 DEF S

(* A string with its blanks replaced is a string.                           *)
LEMMA BlankedIs == \A s \in CString : Blanked(s) \in CString
  <1> SUFFICES ASSUME NEW s \in CString PROVE Blanked(s) \in CString
    OBVIOUS
  <1>1. Len(s) \in Nat /\ \A i \in 1 .. Len(s) : s[i] \in 1 .. 255
    BY ElementOfSeq DEF CString
  <1>2. \A c \in 1 .. 255 : Blank(c) \in 1 .. 255
    BY DEF Blank, Space
  <1>3. Blanked(s) \in [1 .. Len(s) -> 1 .. 255]
    BY <1>1, <1>2 DEF Blanked
  <1> QED
    BY <1>1, <1>3, CStringsJoin

----------------------------------------------------------------------------
(* The numbers the writer counts with, and how far.                         *)
Paths == {s.path : s \in Stems}
Counters == [hier_file_len : Nat, numsigs : Nat, numscopes : Nat, maxhandle : Nat, geom : Bytes, max_enumhandle : Nat,
             path_array : [Paths -> Nat], path_array_count : Nat, calls : Nat]
Within(w, calls) ==
  /\ w \in Counters /\ w.max_enumhandle <= calls /\ w.path_array_count <= calls
  /\ \A p \in Paths : w.path_array[p] <= w.path_array_count
HierType ==
  /\ hier \in Bytes /\ (\E S : said \in Seq(S))
  /\ Within(xw, xw.calls) /\ xw.calls <= MaxCalls

(* What a call adds: an entry, or two, which the readers understand if they *)
(* know the types of the variables.                                         *)
TypesKnown == \A v \in Vars : v.vt \in VarTypesRead
Writes(w) ==
  /\ xr = <<>> /\ xw.calls < MaxCalls
  /\ Within(w, xw.calls + 1) /\ w.hier_file_len = xw.hier_file_len /\ w.calls = xw.calls
WritesOne(e, w) ==
  /\ Writes(w) /\ Call(<<e>>, w) /\ Counted(e)
  /\ TypesKnown => Means(e.bytes, e.record, xw.maxhandle, w.maxhandle)
WritesTwo(d, e, w) ==
  /\ Writes(w) /\ Call(<<d, e>>, w) /\ Counted(d) /\ Counted(e)
  /\ TypesKnown => /\ Means(d.bytes, d.record, xw.maxhandle, xw.maxhandle)
                 /\ Means(e.bytes, e.record, xw.maxhandle, w.maxhandle)

(* The subtypes of a miscellaneous attribute, spelled out.                  *)
LEMMA MiscIs ==
  /\ Misc.COMMENT = 0 /\ Misc.ENVVAR = 1 /\ Misc.SUPVAR = 2 /\ Misc.PATHNAME = 3 /\ Misc.SOURCESTEM = 4
  /\ Misc.SOURCEISTEM = 5 /\ Misc.VALUELIST = 6 /\ Misc.ENUMTABLE = 7 /\ Misc.UNKNOWN = 8
  BY DEF Misc

(* The attributes the writer makes itself: comments, environment variables, *)
(* supplements, paths, tables, stems.                                       *)
LEMMA MiscMeans ==
  ASSUME NEW name \in CString, NEW arg \in Unsigned, NEW h \in Nat
  PROVE  /\ \A typ \in {Misc.COMMENT, Misc.ENVVAR, Misc.SUPVAR, Misc.PATHNAME, Misc.VALUELIST} :
              Sound(GenericEntry(name, typ, arg), h, h)
         /\ Sound(AttrEntry(FST_AT_MISC, Misc.ENUMTABLE, name, arg), h, h)
         /\ \A typ \in {Misc.SOURCESTEM, Misc.SOURCEISTEM} :
              Len(name) <= AttrSiz => Sound(AttrEntry(FST_AT_MISC, typ, name, arg), h, h)
  <1>1. \A typ \in {Misc.COMMENT, Misc.ENVVAR, Misc.SUPVAR, Misc.PATHNAME, Misc.VALUELIST} :
          typ \in Byte /\ ~IsStem(FST_AT_MISC, typ)
    BY MiscIs DEF IsStem, Byte
  <1>2. FST_AT_MISC \in Byte /\ Misc.ENUMTABLE \in Byte /\ ~IsStem(FST_AT_MISC, Misc.ENUMTABLE)
    BY MiscIs DEF IsStem, Byte, FST_AT_MISC
  <1>3. \A typ \in {Misc.SOURCESTEM, Misc.SOURCEISTEM} : typ \in Byte
    BY MiscIs DEF Byte
  <1>4. ASSUME NEW typ \in {Misc.COMMENT, Misc.ENVVAR, Misc.SUPVAR, Misc.PATHNAME, Misc.VALUELIST}
        PROVE  Sound(GenericEntry(name, typ, arg), h, h)
    BY <1>1, GenericMeans
  <1>5. Sound(AttrEntry(FST_AT_MISC, Misc.ENUMTABLE, name, arg), h, h)
    BY <1>2, AttrMeans
  <1>6. ASSUME NEW typ \in {Misc.SOURCESTEM, Misc.SOURCEISTEM}, Len(name) <= AttrSiz
        PROVE  Sound(AttrEntry(FST_AT_MISC, typ, name, arg), h, h)
    BY <1>2, <1>3, <1>6, AttrMeans
  <1> QED
    BY <1>4, <1>5, <1>6

(* Paths among what is said; a call that says nothing of them.              *)
IsPath(record) == record.htyp = "attrbegin" /\ record.typ = FST_AT_MISC /\ record.subtype = Misc.PATHNAME
SamePaths(w) == w.path_array = xw.path_array /\ w.path_array_count = xw.path_array_count /\ stems' = stems
AddsOne(e, w) == WritesOne(e, w) /\ SamePaths(w) /\ ~IsPath(e.record)
AddsTwo(d, e, w) == WritesTwo(d, e, w) /\ SamePaths(w) /\ ~IsPath(d.record) /\ ~IsPath(e.record)

(* What is said of an attribute.                                            *)
LEMMA AttrRecordIs ==
  ASSUME NEW typ, NEW subtype, NEW name, NEW arg
  PROVE  LET e == AttrEntry(typ, subtype, name, arg) IN
         /\ e.record.htyp = "attrbegin" /\ e.record.arg = arg /\ e.record.name = Cut(name, AttrSiz)
         /\ typ = FST_AT_MISC => /\ e.record.typ = typ /\ e.record.subtype = subtype
                                 /\ IsStem(typ, subtype) => e.record.arg_from_name = GetVarint(Zeroed(name), 1)
         /\ typ # FST_AT_MISC => ~IsPath(e.record)
  <1> DEFINE attrtype == IF typ > FST_AT_MAX THEN FST_AT_MISC ELSE typ
             sub == IF typ > FST_AT_MAX THEN Misc.UNKNOWN
                    ELSE IF typ # FST_AT_MISC /\ subtype > AttrSubtypeMax[typ] THEN 0 ELSE subtype
             text == Cut(name, AttrSiz)
             from == IF IsStem(attrtype, sub) THEN GetVarint(Zeroed(name), 1) ELSE 0
             record == AttrEntry(typ, subtype, name, arg).record
  <1>1. record = [htyp |-> "attrbegin", typ |-> attrtype, subtype |-> sub, name |-> text, arg |-> arg, arg_from_name |-> from]
    BY DEF AttrEntry, Entry
  <1>2. typ = FST_AT_MISC => attrtype = typ /\ sub = subtype
    <2>1. ~(FST_AT_MISC > FST_AT_MAX)
      BY DEF FST_AT_MISC, FST_AT_MAX
    <2> QED
      BY <2>1, Zenon
  <1>3. typ # FST_AT_MISC => attrtype # FST_AT_MISC \/ sub # Misc.PATHNAME
    BY MiscIs
  <1> HIDE DEF attrtype, sub, text, record
  <1>4. record.htyp = "attrbegin" /\ record.typ = attrtype /\ record.subtype = sub /\ record.name = text /\ record.arg = arg
        /\ record.arg_from_name = from
    BY <1>1
  <1>5. typ # FST_AT_MISC => ~IsPath(record)
    BY <1>3, <1>4, Zenon DEF IsPath
  <1> QED
    BY <1>2, <1>4, <1>5, Zenon DEF record, text

(* Records that are no paths.                                               *)
LEMMA NoPaths ==
  ASSUME NEW name, NEW arg
  PROVE  /\ \A typ : typ # Misc.PATHNAME => ~IsPath(AttrEntry(FST_AT_MISC, typ, name, arg).record)
                                          /\ ~IsPath(GenericEntry(name, typ, arg).record)
         /\ ~IsPath(Entry(<<FST_ST_VCD_UPSCOPE>>, 1, [htyp |-> "upscope"]).record)
         /\ ~IsPath(Entry(<<FST_ST_GEN_ATTREND>>, 1, [htyp |-> "attrend"]).record)
         /\ \A s : ~IsPath(ScopeEntry(s.typ, s.name, s.component).record)
         /\ \A v : ~IsPath(VarEntry(v).record)
  <1>1. ASSUME NEW typ, typ # Misc.PATHNAME
        PROVE  ~IsPath(AttrEntry(FST_AT_MISC, typ, name, arg).record) /\ ~IsPath(GenericEntry(name, typ, arg).record)
    <2>1. \A nm : ~IsPath(AttrEntry(FST_AT_MISC, typ, nm, arg).record)
      <3> SUFFICES ASSUME NEW nm PROVE AttrEntry(FST_AT_MISC, typ, nm, arg).record.subtype # Misc.PATHNAME
        BY Zenon DEF IsPath
      <3>1. AttrEntry(FST_AT_MISC, typ, nm, arg).record.subtype = typ
        BY AttrRecordIs
      <3> QED
        BY <1>1, <3>1, Zenon
    <2> QED
      BY <2>1, Zenon DEF GenericEntry
  <1>2. /\ ~IsPath(Entry(<<FST_ST_VCD_UPSCOPE>>, 1, [htyp |-> "upscope"]).record)
        /\ ~IsPath(Entry(<<FST_ST_GEN_ATTREND>>, 1, [htyp |-> "attrend"]).record)
    BY DEF IsPath, Entry
  <1>3. \A s : ~IsPath(ScopeEntry(s.typ, s.name, s.component).record)
    BY DEF IsPath, Entry, ScopeEntry
  <1>4. \A v : ~IsPath(VarEntry(v).record)
    BY DEF IsPath, Entry, VarEntry
  <1> QED
    BY <1>1, <1>2, <1>3, <1>4

(* The numbers of calls are numbers a varint is read for.                   *)
LEMMA UnsignedAre ==
  /\ Unsigned \subseteq Nat /\ 0 \in Unsigned /\ \A n \in Nat : n <= MaxCalls => n \in Unsigned
  <1>1. Modulus \in Nat /\ Modulus > 255
    BY ModulusIs
  <1>2. MaxCalls \in Unsigned
    BY HierAssumption
  <1> QED
    BY <1>1, <1>2 DEF Unsigned

(* One entry, where the registers change that the length does not depend on.*)
LEMMA OneWritten ==
  ASSUME HierType, Writing, NEW e, NEW w, Declare(<<e>>, w) \/ Call(<<e>>, w), Counted(e),
         Within(w, xw.calls + 1), w.hier_file_len = xw.hier_file_len, w.calls = xw.calls,
         TypesKnown => Means(e.bytes, e.record, xw.maxhandle, w.maxhandle)
  PROVE  WritesOne(e, w)
  BY Zenon DEF Declare, Writing, WritesOne, Writes

(* What the invariant says of the counters of the writer.                   *)
LEMMA SameCounters ==
  ASSUME HierType
  PROVE  /\ Within(xw, xw.calls + 1)
         /\ xw.maxhandle \in Nat /\ xw.max_enumhandle \in Nat /\ xw.path_array_count \in Nat
         /\ xw.calls \in Nat /\ xw.hier_file_len \in Nat /\ xw \in Counters
         /\ MaxCalls \in Nat
         /\ \A p \in Paths : xw.path_array[p] \in Nat /\ xw.path_array[p] <= xw.path_array_count
  BY UnsignedAre, HierAssumption DEF HierType, Within, Counters

(* The calls that declare neither variable nor stem add one entry, and no   *)
(* path.                                                                    *)
LEMMA PlainWrites ==
  ASSUME HierType
  PROVE  /\ \A s \in Scopes : SetScope(s) => \E e, w : AddsOne(e, w)
         /\ SetUpscope => \E e, w : AddsOne(e, w)
         /\ \A a \in Attrs : SetAttrBegin(a) => \E e, w : AddsOne(e, w)
         /\ SetAttrEnd => \E e, w : AddsOne(e, w)
         /\ \A c \in Comments : SetComment(c.comm, c.typ) => \E e, w : AddsOne(e, w)
         /\ \A handle \in 1 .. xw.max_enumhandle : EmitEnumTableRef(handle) => \E e, w : AddsOne(e, w)
         /\ \A t \in EnumTables : CreateEnumTable(t) => \E e, w : AddsOne(e, w)
  <1>1. /\ Within(xw, xw.calls + 1) /\ xw.maxhandle \in Nat /\ xw \in Counters /\ xw.calls \in Nat
        /\ xw.max_enumhandle \in Nat
    BY SameCounters
  <1>2. ASSUME NEW e, Writing, Declare(<<e>>, xw), Sound(e, xw.maxhandle, xw.maxhandle), ~IsPath(e.record)
        PROVE  \E d, w : AddsOne(d, w)
    <2>1. stems' = stems
      BY <1>2, Zenon DEF Declare
    <2> QED
      BY <1>1, <1>2, <2>1, OneWritten, Zenon DEF Sound, AddsOne, SamePaths
  <1>3. ASSUME NEW s \in Scopes, SetScope(s) PROVE \E e, w : AddsOne(e, w)
    <2> DEFINE e == ScopeEntry(s.typ, s.name, s.component)
               w == [xw EXCEPT !.numscopes = @ + 1]
    <2>1. s.typ \in Byte /\ s.name \in CString /\ s.component \in CString
      BY HierAssumption
    <2>2. Sound(e, xw.maxhandle, xw.maxhandle)
      BY <1>1, <2>1, ScopeMeans
    <2>3. Within(w, xw.calls + 1) /\ w.hier_file_len = xw.hier_file_len /\ w.calls = xw.calls /\ w.maxhandle = xw.maxhandle
          /\ w.path_array = xw.path_array /\ w.path_array_count = xw.path_array_count
      BY <1>1 DEF Within, Counters
    <2>4. Writing /\ Declare(<<e>>, w)
      BY <1>3, Zenon DEF SetScope
    <2>5. ~IsPath(e.record)
      BY NoPaths, Zenon
    <2> HIDE DEF e, w
    <2>6. stems' = stems
      BY <2>4, Zenon DEF Declare
    <2> QED
      BY <2>2, <2>3, <2>4, <2>5, <2>6, OneWritten, Zenon DEF Sound, AddsOne, SamePaths
  <1>4. ASSUME SetUpscope PROVE \E e, w : AddsOne(e, w)
    <2>1. Writing /\ Declare(<<Entry(<<FST_ST_VCD_UPSCOPE>>, 1, [htyp |-> "upscope"])>>, xw)
      BY <1>4, Zenon DEF SetUpscope
    <2> QED
      BY <1>1, <1>2, <2>1, TagMeans, NoPaths, Zenon
  <1>5. ASSUME SetAttrEnd PROVE \E e, w : AddsOne(e, w)
    <2>1. Writing /\ Declare(<<Entry(<<FST_ST_GEN_ATTREND>>, 1, [htyp |-> "attrend"])>>, xw)
      BY <1>5, Zenon DEF SetAttrEnd
    <2> QED
      BY <1>1, <1>2, <2>1, TagMeans, NoPaths, Zenon
  <1>6. ASSUME NEW a \in Attrs, SetAttrBegin(a) PROVE \E e, w : AddsOne(e, w)
    <2>1. a.typ \in Byte /\ a.subtype \in Byte /\ a.name \in CString /\ a.arg \in Unsigned
      BY HierAssumption
    <2>2. ~IsStem(a.typ, a.subtype)
      <3>1. a.typ = FST_AT_MISC => a.subtype \notin {Misc.PATHNAME, Misc.SOURCESTEM, Misc.SOURCEISTEM}
        BY HierAssumption
      <3> QED
        BY <3>1, Zenon DEF IsStem
    <2>3. Sound(AttrEntry(a.typ, a.subtype, a.name, a.arg), xw.maxhandle, xw.maxhandle)
      BY <1>1, <2>1, <2>2, AttrMeans
    <2>4. Writing /\ Declare(<<AttrEntry(a.typ, a.subtype, a.name, a.arg)>>, xw)
      BY <1>6, Zenon DEF SetAttrBegin
    <2>5. ~IsPath(AttrEntry(a.typ, a.subtype, a.name, a.arg).record)
      <3>1. a.typ = FST_AT_MISC => a.subtype # Misc.PATHNAME
        BY HierAssumption
      <3> QED
        BY <3>1, AttrRecordIs, NoPaths, Zenon
    <2> QED
      BY <1>2, <2>3, <2>4, <2>5, Zenon
  <1>7. ASSUME NEW c \in Comments, SetComment(c.comm, c.typ) PROVE \E e, w : AddsOne(e, w)
    <2>1. c.comm \in CString /\ c.typ \in {Misc.COMMENT, Misc.ENVVAR, Misc.SUPVAR, Misc.PATHNAME, Misc.VALUELIST}
      BY HierAssumption
    <2>2. Sound(GenericEntry(c.comm, c.typ, 0), xw.maxhandle, xw.maxhandle)
      BY <1>1, <2>1, MiscMeans, UnsignedAre
    <2>3. Writing /\ Declare(<<GenericEntry(c.comm, c.typ, 0)>>, xw)
      BY <1>7, Zenon DEF SetComment
    <2>4. c.typ # Misc.PATHNAME
      BY HierAssumption, MiscIs
    <2> QED
      BY <1>2, <2>2, <2>3, <2>4, NoPaths, Zenon
  <1>8. ASSUME NEW handle \in 1 .. xw.max_enumhandle, EmitEnumTableRef(handle) PROVE \E e, w : AddsOne(e, w)
    <2>1. handle \in Unsigned
      <3>1. handle \in Nat /\ handle <= MaxCalls
        BY <1>1, SameCounters DEF HierType, Within
      <3> QED
        BY <3>1, UnsignedAre
    <2>2. <<>> \in CString
      BY DEF CString
    <2>3. Sound(AttrEntry(FST_AT_MISC, Misc.ENUMTABLE, <<>>, handle), xw.maxhandle, xw.maxhandle)
      BY <1>1, <2>1, <2>2, MiscMeans
    <2>4. Writing /\ Declare(<<AttrEntry(FST_AT_MISC, Misc.ENUMTABLE, <<>>, handle)>>, xw)
      BY <1>8, Zenon DEF EmitEnumTableRef
    <2>5. Misc.ENUMTABLE # Misc.PATHNAME
      BY MiscIs
    <2> QED
      BY <1>2, <2>3, <2>4, <2>5, NoPaths, Zenon
  <1>9. ASSUME NEW t \in EnumTables, CreateEnumTable(t) PROVE \E e, w : AddsOne(e, w)
    <2> DEFINE text == EnumTableString(t.name, t.literals, t.vals, 2)
               e == AttrEntry(FST_AT_MISC, Misc.ENUMTABLE, text, xw.max_enumhandle + 1)
               w == [xw EXCEPT !.max_enumhandle = @ + 1]
    <2>1. Writing /\ Declare(<<e>>, w)
      BY <1>9, Zenon DEF CreateEnumTable
    <2>2. text \in CString
      <3>1. t \in [name : CString, literals : Seq(CString), vals : Seq(CString)] /\ 2 \in Nat
        BY HierAssumption
      <3> QED
        BY <3>1, EnumTableStringIs, Zenon
    <2>3. xw.max_enumhandle + 1 \in Unsigned
      <3>1. xw.calls < MaxCalls
        BY <2>1, Zenon DEF Writing
      <3>2. xw.max_enumhandle + 1 \in Nat /\ xw.max_enumhandle + 1 <= MaxCalls
        BY <1>1, <3>1, SameCounters DEF HierType, Within
      <3> QED
        BY <3>2, UnsignedAre
    <2> HIDE DEF text
    <2>4. Sound(e, xw.maxhandle, xw.maxhandle)
      BY <1>1, <2>2, <2>3, MiscMeans
    <2>5. Within(w, xw.calls + 1) /\ w.hier_file_len = xw.hier_file_len /\ w.calls = xw.calls /\ w.maxhandle = xw.maxhandle
          /\ w.path_array = xw.path_array /\ w.path_array_count = xw.path_array_count
      <3>1. w \in Counters /\ w.max_enumhandle = xw.max_enumhandle + 1
        BY <1>1 DEF Counters
      <3>2. xw.max_enumhandle <= xw.calls
        BY DEF HierType, Within
      <3>3. w.path_array_count = xw.path_array_count /\ w.path_array = xw.path_array
            /\ w.hier_file_len = xw.hier_file_len /\ w.calls = xw.calls /\ w.maxhandle = xw.maxhandle
        BY <1>1 DEF Counters
      <3> HIDE DEF w
      <3>4. w.max_enumhandle <= xw.calls + 1
        BY <1>1, <3>1, <3>2
      <3> QED
        BY <1>1, <3>1, <3>3, <3>4, Zenon DEF Within
    <2>6. ~IsPath(e.record)
      <3>1. Misc.ENUMTABLE # Misc.PATHNAME
        BY MiscIs
      <3> QED
        BY <3>1, NoPaths, Zenon
    <2> HIDE DEF e, w
    <2>7. stems' = stems
      BY <2>1, Zenon DEF Declare
    <2> QED
      BY <2>1, <2>4, <2>5, <2>6, <2>7, OneWritten, Zenon DEF Sound, AddsOne, SamePaths
  <1> QED
    BY <1>3, <1>4, <1>5, <1>6, <1>7, <1>8, <1>9

(* The counters behind a variable.                                          *)
LEMMA VarCounters ==
  ASSUME HierType, NEW v \in Vars
  PROVE  /\ Within(WithVar(xw, v), xw.calls + 1)
         /\ WithVar(xw, v).hier_file_len = xw.hier_file_len /\ WithVar(xw, v).calls = xw.calls
         /\ WithVar(xw, v).maxhandle = (IF AliasOf(v.alias) = 0 THEN xw.maxhandle + 1 ELSE xw.maxhandle)
         /\ WithVar(xw, v).path_array = xw.path_array /\ WithVar(xw, v).path_array_count = xw.path_array_count
  <1> DEFINE sig == [xw EXCEPT !.numsigs = @ + 1]
             field == Varint[Geom(v.vt, v.len)]
             more == [sig EXCEPT !.maxhandle = @ + 1, !.geom = @ \o field]
  <1>1. /\ Within(xw, xw.calls + 1) /\ xw \in Counters /\ xw.maxhandle \in Nat /\ xw.calls \in Nat
    BY SameCounters
  <1>2. Geom(v.vt, v.len) \in Nat
    <2>1. v.len \in Nat /\ Modulus - 1 \in Nat
      <3>1. v.len \in Unsigned
        BY HierAssumption
      <3>2. v.len \in Nat
        BY <3>1, UnsignedAre
      <3>3. Modulus - 1 \in Nat
        BY ModulusIs
      <3> QED
        BY <3>2, <3>3
    <2> QED
      BY <2>1 DEF Geom
  <1>3. field \in Bytes
    BY <1>2, VarintIs, Zenon
  <1>4. sig \in Counters /\ sig.hier_file_len = xw.hier_file_len /\ sig.calls = xw.calls /\ sig.maxhandle = xw.maxhandle
        /\ sig.max_enumhandle = xw.max_enumhandle /\ sig.path_array_count = xw.path_array_count
        /\ sig.path_array = xw.path_array
    BY <1>1 DEF Counters
  <1> HIDE DEF field, sig
  <1>5. \A g \in Bytes : g \o field \in Bytes
    BY <1>3 DEF Bytes
  <1>6. more \in Counters /\ more.hier_file_len = xw.hier_file_len /\ more.calls = xw.calls /\ more.maxhandle = xw.maxhandle + 1
        /\ more.max_enumhandle = xw.max_enumhandle /\ more.path_array_count = xw.path_array_count
        /\ more.path_array = xw.path_array
    <2> DEFINE geom == sig.geom \o field
               handle == sig.maxhandle + 1
    <2>1. geom \in Bytes /\ handle \in Nat
      BY <1>1, <1>4, <1>5 DEF Counters
    <2>2. more = [sig EXCEPT !.maxhandle = handle, !.geom = geom]
      BY <1>4 DEF Counters
    <2>3. handle = xw.maxhandle + 1
      BY <1>4
    <2> HIDE DEF geom, handle, more
    <2> QED
      BY <1>4, <2>1, <2>2, <2>3 DEF Counters
  <1>7. Within(sig, xw.calls + 1) /\ Within(more, xw.calls + 1)
    BY <1>1, <1>4, <1>6, Zenon DEF Within
  <1>8. WithVar(xw, v) = IF AliasOf(v.alias) = 0 THEN more ELSE sig
    BY Zenon DEF WithVar, sig, field
  <1> HIDE DEF more
  <1> QED
    BY <1>4, <1>6, <1>7, <1>8, Zenon

(* A variable adds an entry, and one in front of it if it has a supplement. *)
LEMMA VarWrites ==
  ASSUME HierType, NEW v \in Vars
  PROVE  /\ CreateVar(v) => \E e, w : AddsOne(e, w)
         /\ \A sup \in Supplements : CreateVar2(v, sup) => \E d, e, w : AddsTwo(d, e, w)
  <1> DEFINE w == WithVar(xw, v)
             e == VarEntry(v)
  <1>1. Within(w, xw.calls + 1) /\ w.hier_file_len = xw.hier_file_len /\ w.calls = xw.calls
        /\ w.maxhandle = (IF AliasOf(v.alias) = 0 THEN xw.maxhandle + 1 ELSE xw.maxhandle)
        /\ w.path_array = xw.path_array /\ w.path_array_count = xw.path_array_count /\ ~IsPath(e.record)
    BY VarCounters, NoPaths, Zenon
  <1>2. /\ v \in [vt : Byte, vd : Byte, len : Unsigned, nam : CString, alias : Unsigned] /\ xw.maxhandle \in Nat
    BY HierAssumption, SameCounters
  <1>3. Counted(e) /\ (TypesKnown => Means(e.bytes, e.record, xw.maxhandle, w.maxhandle))
    <2>1. TypesKnown => v.vt \in VarTypesRead
      BY DEF TypesKnown
    <2>2. Counted(e) /\ (v.vt \in VarTypesRead =>
             Sound(e, xw.maxhandle, IF AliasOf(v.alias) = 0 THEN xw.maxhandle + 1 ELSE xw.maxhandle))
      BY <1>2, VarMeans, Zenon
    <2> HIDE DEF e, w
    <2> QED
      BY <1>1, <2>1, <2>2, Zenon DEF Sound
  <1>4. ASSUME CreateVar(v) PROVE AddsOne(e, w)
    <2>1. Writing /\ Declare(<<e>>, w)
      BY <1>4, Zenon DEF CreateVar
    <2> HIDE DEF e, w
    <2>2. stems' = stems
      BY <2>1, Zenon DEF Declare
    <2> QED
      BY <1>1, <1>3, <2>1, <2>2, OneWritten, Zenon DEF AddsOne, SamePaths
  <1>5. ASSUME NEW sup \in Supplements, CreateVar2(v, sup) PROVE \E d : AddsTwo(d, e, w)
    <2> DEFINE arg == sup.svt * 1024 + (sup.sdt % 1024)
               d == GenericEntry(sup.type, Misc.SUPVAR, arg)
    <2>1. Writing /\ Call(<<d, e>>, w) /\ stems' = stems
      BY <1>5, Zenon DEF CreateVar2, Declare
    <2>2. arg \in Unsigned /\ sup.type \in CString
      BY HierAssumption
    <2> HIDE DEF arg
    <2>3. Sound(d, xw.maxhandle, xw.maxhandle)
      BY <1>2, <2>2, MiscMeans
    <2>4. ~IsPath(d.record)
      <3>1. Misc.SUPVAR # Misc.PATHNAME
        BY MiscIs
      <3> QED
        BY <3>1, NoPaths, Zenon
    <2> HIDE DEF d, e, w
    <2>5. WritesTwo(d, e, w)
      BY <1>1, <1>3, <2>1, <2>3, Zenon DEF WritesTwo, Writes, Writing, Sound
    <2> QED
      BY <1>1, <2>1, <2>4, <2>5, Zenon DEF AddsTwo, SamePaths
  <1> QED
    BY <1>4, <1>5, Zenon

(* A stem, and the path in front of it when it is a new one.                *)
StemOne(s, e, w) ==
  /\ WritesOne(e, w) /\ w = xw /\ xw.path_array[s.path] # 0
  /\ ~IsPath(e.record) /\ e.record.arg_from_name = xw.path_array[s.path]
  /\ stems' = Append(stems, [at |-> Len(said) + 1, path |-> s.path])
StemTwo(s, d, e, w) ==
  LET n == xw.path_array_count + 1 IN
  /\ WritesTwo(d, e, w) /\ xw.path_array[s.path] = 0
  /\ w.path_array = [xw.path_array EXCEPT ![s.path] = n] /\ w.path_array_count = n
  /\ IsPath(d.record) /\ d.record.arg = n /\ d.record.name = Cut(Blanked(s.path), AttrSiz)
  /\ ~IsPath(e.record) /\ e.record.arg_from_name = n
  /\ stems' = Append(stems, [at |-> Len(said) + 2, path |-> s.path])

(* A stem adds an entry, and its path in front of it the first time.        *)
LEMMA StemWrites ==
  ASSUME HierType, NEW s \in Stems, SetSourceStem(s.path, s.line, s.typ)
  PROVE  (\E e, w : StemOne(s, e, w)) \/ (\E d, e, w : StemTwo(s, d, e, w))
  <1> DEFINE known == xw.path_array[s.path] # 0
             w == IF known THEN xw ELSE WithPath(s.path)
             sidx == w.path_array[s.path]
             name == IF sidx = 0 THEN <<>> ELSE Varint[sidx]
             e == AttrEntry(FST_AT_MISC, s.typ, name, s.line)
             d == GenericEntry(s.path, Misc.PATHNAME, sidx)
  <1>1. /\ Within(xw, xw.calls + 1) /\ xw \in Counters /\ xw.maxhandle \in Nat /\ xw.calls \in Nat
        /\ xw.path_array_count \in Nat /\ MaxCalls \in Nat
        /\ \A p \in Paths : xw.path_array[p] \in Nat /\ xw.path_array[p] <= xw.path_array_count
        /\ xw.path_array_count <= xw.calls
    BY SameCounters DEF HierType, Within
  <1>2. /\ s.path \in Paths /\ s.path \in CString /\ s.line \in Unsigned /\ s.typ \in {Misc.SOURCESTEM, Misc.SOURCEISTEM}
    BY HierAssumption DEF Paths
  <1>3. Writing /\ Call(IF known THEN <<e>> ELSE <<d, e>>, w)
    BY Zenon DEF SetSourceStem
  <1>4. xr = <<>> /\ xw.calls < MaxCalls
    BY <1>3, Zenon DEF Writing
  <1>5. /\ Within(w, xw.calls + 1) /\ w.hier_file_len = xw.hier_file_len /\ w.calls = xw.calls /\ w.maxhandle = xw.maxhandle
        /\ sidx \in 1 .. MaxCalls
        /\ known => w = xw
        /\ ~known => /\ w.path_array = [xw.path_array EXCEPT ![s.path] = xw.path_array_count + 1]
                     /\ w.path_array_count = xw.path_array_count + 1 /\ sidx = xw.path_array_count + 1
    <2>1. CASE known
      <3>1. w = xw
        BY <2>1
      <3>2. xw.path_array[s.path] \in 1 .. MaxCalls
        BY <1>1, <1>2, <1>4, <2>1
      <3> HIDE DEF w
      <3> QED
        BY <1>1, <2>1, <3>1, <3>2
    <2>2. CASE ~known
      <3> DEFINE x == WithPath(s.path)
      <3>1. /\ x \in Counters /\ x.path_array_count = xw.path_array_count + 1 /\ x.max_enumhandle = xw.max_enumhandle
            /\ x.hier_file_len = xw.hier_file_len /\ x.calls = xw.calls /\ x.maxhandle = xw.maxhandle
            /\ x.path_array = [xw.path_array EXCEPT ![s.path] = xw.path_array_count + 1]
        <4> DEFINE count == xw.path_array_count + 1
                   table == [xw.path_array EXCEPT ![s.path] = count]
        <4>1. count \in Nat
          BY <1>1
        <4>2. xw.path_array \in [Paths -> Nat]
          BY <1>1 DEF Counters
        <4>3. x = [xw EXCEPT !.path_array = table, !.path_array_count = count]
          BY <1>1 DEF WithPath, Counters
        <4> HIDE DEF count
        <4>4. table \in [Paths -> Nat]
          BY <4>1, <4>2
        <4> HIDE DEF table, x
        <4>5. /\ x \in Counters /\ x.path_array_count = count /\ x.path_array = table /\ x.max_enumhandle = xw.max_enumhandle
              /\ x.hier_file_len = xw.hier_file_len /\ x.calls = xw.calls /\ x.maxhandle = xw.maxhandle
          BY <1>1, <4>1, <4>3, <4>4 DEF Counters
        <4> QED
          BY <4>5, Zenon DEF count, table
      <3>2. x.path_array[s.path] = xw.path_array_count + 1
            /\ \A p \in Paths : p # s.path => x.path_array[p] = xw.path_array[p]
        BY <1>1, <1>2 DEF WithPath, Counters
      <3>3. w = x
        BY <2>2
      <3> HIDE DEF x, w
      <3>4. \A p \in Paths : x.path_array[p] <= x.path_array_count
        BY <1>1, <3>1, <3>2
      <3>5. x.path_array_count <= xw.calls + 1 /\ xw.path_array_count + 1 \in 1 .. MaxCalls
        BY <1>1, <1>4, <3>1
      <3>6. x.max_enumhandle <= xw.calls + 1
        BY <1>1, <3>1 DEF Within
      <3> QED
        BY <2>2, <3>1, <3>2, <3>3, <3>4, <3>5, <3>6, Zenon DEF Within
    <2> QED
      BY <2>1, <2>2
  <1> HIDE DEF w, sidx
  <1>6. sidx \in Nat \ {0} /\ sidx # 0 /\ sidx \in Unsigned /\ Len(Varint[sidx]) <= AttrSiz
    <2>1. sidx \in Nat \ {0} /\ sidx # 0 /\ sidx <= MaxCalls
      BY <1>1, <1>5
    <2>2. Len(Varint[sidx]) <= AttrSiz
      BY <1>5, HierAssumption
    <2> QED
      BY <2>1, <2>2, UnsignedAre
  <1>7. name \in CString /\ Len(name) <= AttrSiz
    <2>1. name = Varint[sidx]
      BY <1>6
    <2> HIDE DEF name
    <2> QED
      BY <1>6, <2>1, VarintIsText, Zenon
  <1> HIDE DEF name
  <1>8. Sound(e, xw.maxhandle, xw.maxhandle) /\ Sound(d, xw.maxhandle, xw.maxhandle)
    BY <1>1, <1>2, <1>6, <1>7, MiscMeans
  <1>9. /\ IsPath(d.record) /\ d.record.arg = sidx /\ d.record.name = Cut(Blanked(s.path), AttrSiz)
        /\ ~IsPath(e.record) /\ e.record.arg_from_name = sidx
    <2>1. IsPath(d.record) /\ d.record.arg = sidx /\ d.record.name = Cut(Blanked(s.path), AttrSiz)
      <3>1. d = AttrEntry(FST_AT_MISC, Misc.PATHNAME, Blanked(s.path), sidx)
        BY Zenon DEF GenericEntry
      <3> HIDE DEF d
      <3>2. d.record.htyp = "attrbegin" /\ d.record.arg = sidx /\ d.record.name = Cut(Blanked(s.path), AttrSiz)
            /\ d.record.typ = FST_AT_MISC /\ d.record.subtype = Misc.PATHNAME
        BY <3>1, AttrRecordIs
      <3> QED
        BY <3>2, Zenon DEF IsPath
    <2>2. ~IsPath(e.record)
      <3>1. s.typ # Misc.PATHNAME
        BY <1>2, MiscIs
      <3> QED
        BY <3>1, NoPaths, Zenon
    <2>3. e.record.arg_from_name = GetVarint(Zeroed(name), 1)
      <3>1. IsStem(FST_AT_MISC, s.typ)
        BY <1>2, Zenon DEF IsStem
      <3> QED
        BY <3>1, AttrRecordIs
    <2>4. GetVarint(Zeroed(name), 1) = sidx
      <3>1. name = Varint[sidx]
        BY <1>6 DEF name
      <3>2. name \in Bytes /\ Zeroed(name) \in Bytes /\ Len(name) \in Nat /\ Len(Zeroed(name)) = Len(name) + 1
            /\ \A i \in 1 .. Len(name) : Zeroed(name)[i] = name[i] /\ 1 + i - 1 = i
        BY <1>7, TextIs
      <3>3. Holds(Zeroed(name), 1, Varint[sidx])
        <4>1. 1 + Len(name) - 1 <= Len(Zeroed(name))
          BY <3>2
        <4> QED
          BY <3>1, <3>2, <4>1, Zenon DEF Holds
      <3> DEFINE mem == Zeroed(name)
                 one == 1
      <3>4. mem \in Bytes /\ one \in Nat \ {0} /\ sidx \in Unsigned /\ Holds(mem, one, Varint[sidx])
        BY <1>6, <3>2, <3>3
      <3> HIDE DEF mem, one
      <3>5. GetVarint(mem, one) = sidx
        BY <3>4, VarintAt
      <3> QED
        BY <3>5, Zenon DEF mem, one
    <2> QED
      BY <2>1, <2>2, <2>3, <2>4
  <1>10. stems' = Append(stems, [at |-> Len(said) + (IF known THEN 1 ELSE 2), path |-> s.path])
    BY Zenon DEF SetSourceStem
  <1>11. known => sidx = xw.path_array[s.path]
    BY <1>5, Zenon DEF sidx
  <1> HIDE DEF e, d
  <1>12. CASE known
    <2>1. StemOne(s, e, w)
      BY <1>3, <1>4, <1>5, <1>8, <1>9, <1>10, <1>11, <1>12, Zenon DEF StemOne, WritesOne, Writes, Sound
    <2> QED
      BY <2>1
  <1>13. CASE ~known
    <2>1. StemTwo(s, d, e, w)
      BY <1>3, <1>4, <1>5, <1>8, <1>9, <1>10, <1>13, Zenon DEF StemTwo, WritesTwo, Writes, Sound
    <2> QED
      BY <2>1
  <1> QED
    BY <1>12, <1>13

(* What any step does to the file.                                          *)
LEMMA StepWrites ==
  ASSUME HierType, HierNext
  PROVE  \/ \E e, w : AddsOne(e, w)
         \/ \E d, e, w : AddsTwo(d, e, w)
         \/ \E s \in Stems : (\E e, w : StemOne(s, e, w)) \/ (\E d, e, w : StemTwo(s, d, e, w))
         \/ UNCHANGED <<hier, xw, said, stems>> /\ (OpenReader \/ IterateHierRewind \/ IterateHier \/ ProcessHier)
  <1>1. ASSUME OpenReader \/ IterateHierRewind \/ IterateHier \/ ProcessHier PROVE UNCHANGED <<hier, xw, said, stems>>
    BY <1>1, Zenon DEF OpenReader, IterateHierRewind, IterateHier, ProcessHier
  <1> QED
    BY <1>1, PlainWrites, VarWrites, StemWrites, Zenon DEF HierNext

(* A step adds an entry, adds two, or leaves the file and the writer alone. *)
LEMMA StepAdds ==
  ASSUME HierType, HierNext
  PROVE  \/ \E e, w : WritesOne(e, w)
         \/ \E d, e, w : WritesTwo(d, e, w)
         \/ UNCHANGED <<hier, xw, said, stems>> /\ (OpenReader \/ IterateHierRewind \/ IterateHier \/ ProcessHier)
  BY StepWrites, Zenon DEF AddsOne, AddsTwo, StemOne, StemTwo

(* The sequence of what was said stays a sequence.                          *)
LEMMA AppendedIs ==
  ASSUME NEW s, \E S : s \in Seq(S), NEW r
  PROVE  /\ \E S : Append(s, r) \in Seq(S)
         /\ Len(s) \in Nat /\ Len(Append(s, r)) = Len(s) + 1 /\ Append(s, r)[Len(s) + 1] = r
         /\ \A i \in 1 .. Len(s) : Append(s, r)[i] = s[i]
  <1>1. PICK S : s \in Seq(S)
    OBVIOUS
  <1> DEFINE R == S \cup {r}
  <1>2. s \in Seq(R) /\ r \in R
    <2>1. S \subseteq R
      OBVIOUS
    <2> QED
      BY <1>1, <2>1, SeqMonotonic
  <1> HIDE DEF R
  <1> QED
    BY <1>2

(* The counters behind a call.                                              *)
Recounted(w, n) == [w EXCEPT !.hier_file_len = n, !.calls = @ + 1]
(* The counters behind a call stay in their bounds.                         *)
LEMMA CountersAfter ==
  ASSUME HierType, NEW w, Writes(w), NEW n \in Nat, NEW x, x = Recounted(w, n)
  PROVE  /\ Within(x, x.calls) /\ x.calls <= MaxCalls /\ x.hier_file_len = n /\ x.maxhandle = w.maxhandle
         /\ w.hier_file_len = xw.hier_file_len /\ w.hier_file_len \in Nat /\ w.maxhandle \in Nat
         /\ x.path_array = w.path_array /\ x.path_array_count = w.path_array_count
  <1>1. /\ w \in Counters /\ w.max_enumhandle <= xw.calls + 1 /\ w.path_array_count <= xw.calls + 1
        /\ (\A p \in Paths : w.path_array[p] <= w.path_array_count)
        /\ w.hier_file_len = xw.hier_file_len /\ w.calls = xw.calls /\ xw.calls < MaxCalls
    BY DEF Writes, Within
  <1>2. MaxCalls \in Nat /\ xw.calls \in Nat
    BY SameCounters
  <1>3. /\ x \in Counters /\ x.calls = xw.calls + 1 /\ x.hier_file_len = n /\ x.maxhandle = w.maxhandle
        /\ x.max_enumhandle = w.max_enumhandle /\ x.path_array = w.path_array /\ x.path_array_count = w.path_array_count
        /\ w.hier_file_len \in Nat /\ w.maxhandle \in Nat
    <2> DEFINE m == w.calls + 1
    <2>1. m \in Nat /\ m = xw.calls + 1
      BY <1>1, <1>2
    <2>2. x = [w EXCEPT !.hier_file_len = n, !.calls = m]
      BY DEF Recounted
    <2> HIDE DEF m
    <2>3. /\ x \in Counters /\ x.calls = m /\ x.hier_file_len = n /\ x.maxhandle = w.maxhandle
          /\ x.max_enumhandle = w.max_enumhandle /\ x.path_array = w.path_array /\ x.path_array_count = w.path_array_count
          /\ w.hier_file_len \in Nat /\ w.maxhandle \in Nat
      BY <1>1, <2>1, <2>2 DEF Counters
    <2> QED
      BY <2>1, <2>3
  <1>4. x.calls <= MaxCalls
    BY <1>1, <1>2, <1>3
  <1> QED
    BY <1>1, <1>3, <1>4, Zenon DEF Within

(* Type correctness, and the length counted, behind one entry.              *)
LEMMA AfterOne ==
  ASSUME HierType, NEW e, NEW w, WritesOne(e, w)
  PROVE  /\ HierType' /\ hier' = hier \o e.bytes /\ said' = Append(said, e.record)
         /\ xw'.hier_file_len = xw.hier_file_len + e.len /\ xw'.maxhandle = w.maxhandle /\ w.maxhandle \in Nat
         /\ xw'.path_array = w.path_array /\ xw'.path_array_count = w.path_array_count
         /\ xr = <<>> /\ xr' = xr /\ returned' = returned
         /\ e.bytes \in Bytes /\ e.len = Len(e.bytes) /\ e.len \in Nat
  <1>1. PICK S : said \in Seq(S)
    BY DEF HierType
  <1>2. /\ hier \in Bytes /\ Counted(e) /\ Call(<<e>>, w) /\ Writes(w) /\ w.hier_file_len = xw.hier_file_len /\ xr = <<>>
    BY DEF HierType, WritesOne, Writes
  <1>3. e.bytes \in Bytes /\ e.len = Len(e.bytes) /\ e.len \in Nat
    BY <1>2 DEF Counted, Bytes
  <1>4. xw.hier_file_len \in Nat
    BY SameCounters
  <1>5. /\ hier' = hier \o e.bytes /\ said' = Append(said, e.record)
        /\ xw' = [w EXCEPT !.hier_file_len = w.hier_file_len + e.len, !.calls = @ + 1] /\ xr' = xr /\ returned' = returned
    <2>1. w.hier_file_len \in Nat
      BY <1>2, <1>4
    <2> QED
      BY <1>1, <1>2, <2>1, CallAddsOne, Zenon
  <1> DEFINE n == w.hier_file_len + e.len
  <1>6. n \in Nat /\ n = xw.hier_file_len + e.len
    BY <1>2, <1>3, <1>4
  <1> HIDE DEF n
  <1>7. /\ Within(xw', xw'.calls) /\ xw'.calls <= MaxCalls /\ xw'.hier_file_len = n /\ xw'.maxhandle = w.maxhandle
        /\ w.maxhandle \in Nat
        /\ xw'.path_array = w.path_array /\ xw'.path_array_count = w.path_array_count
    <2>1. xw' = Recounted(w, n)
      BY <1>5, Zenon DEF n, Recounted
    <2>2. HierType /\ Writes(w) /\ n \in Nat
      BY <1>2, <1>6
    <2> DEFINE x == Recounted(w, n)
    <2>3. x = Recounted(w, n)
      OBVIOUS
    <2> HIDE DEF x
    <2>4. /\ Within(x, x.calls) /\ x.calls <= MaxCalls /\ x.hier_file_len = n /\ x.maxhandle = w.maxhandle
          /\ w.maxhandle \in Nat /\ x.path_array = w.path_array /\ x.path_array_count = w.path_array_count
      BY <2>2, <2>3, CountersAfter
    <2> QED
      BY <2>1, <2>4, Zenon DEF x
  <1>8. hier' \in Bytes
    BY <1>2, <1>3, <1>5 DEF Bytes
  <1>9. \E R : said' \in Seq(R)
    BY <1>1, <1>5, AppendedIs, Zenon
  <1> QED
    BY <1>2, <1>3, <1>5, <1>6, <1>7, <1>8, <1>9, Zenon DEF HierType

(* The same behind two.                                                     *)
LEMMA AfterTwo ==
  ASSUME HierType, NEW d, NEW e, NEW w, WritesTwo(d, e, w)
  PROVE  /\ HierType' /\ hier' = (hier \o d.bytes) \o e.bytes /\ said' = Append(Append(said, d.record), e.record)
         /\ xw'.hier_file_len = (xw.hier_file_len + d.len) + e.len /\ xw'.maxhandle = w.maxhandle /\ w.maxhandle \in Nat
         /\ xw'.path_array = w.path_array /\ xw'.path_array_count = w.path_array_count
         /\ xr = <<>> /\ xr' = xr /\ returned' = returned
         /\ d.bytes \in Bytes /\ d.len = Len(d.bytes) /\ d.len \in Nat
         /\ e.bytes \in Bytes /\ e.len = Len(e.bytes) /\ e.len \in Nat
  <1>1. PICK S : said \in Seq(S)
    BY DEF HierType
  <1>2. /\ hier \in Bytes /\ Counted(d) /\ Counted(e) /\ Call(<<d, e>>, w) /\ Writes(w)
        /\ w.hier_file_len = xw.hier_file_len /\ xr = <<>>
    BY DEF HierType, WritesTwo, Writes
  <1>3. /\ d.bytes \in Bytes /\ d.len = Len(d.bytes) /\ d.len \in Nat
        /\ e.bytes \in Bytes /\ e.len = Len(e.bytes) /\ e.len \in Nat
    BY <1>2 DEF Counted, Bytes
  <1>4. xw.hier_file_len \in Nat
    BY SameCounters
  <1>5. /\ hier' = (hier \o d.bytes) \o e.bytes /\ said' = Append(Append(said, d.record), e.record)
        /\ xw' = [w EXCEPT !.hier_file_len = (w.hier_file_len + d.len) + e.len, !.calls = @ + 1]
        /\ xr' = xr /\ returned' = returned
    <2>1. w.hier_file_len \in Nat
      BY <1>2, <1>4
    <2> QED
      BY <1>1, <1>2, <2>1, CallAddsTwo, Zenon
  <1> DEFINE n == (w.hier_file_len + d.len) + e.len
  <1>6. n \in Nat /\ n = (xw.hier_file_len + d.len) + e.len
    BY <1>2, <1>3, <1>4
  <1> HIDE DEF n
  <1>7. /\ Within(xw', xw'.calls) /\ xw'.calls <= MaxCalls /\ xw'.hier_file_len = n /\ xw'.maxhandle = w.maxhandle
        /\ w.maxhandle \in Nat
        /\ xw'.path_array = w.path_array /\ xw'.path_array_count = w.path_array_count
    <2>1. xw' = Recounted(w, n)
      BY <1>5, Zenon DEF n, Recounted
    <2>2. HierType /\ Writes(w) /\ n \in Nat
      BY <1>2, <1>6
    <2> DEFINE x == Recounted(w, n)
    <2>3. x = Recounted(w, n)
      OBVIOUS
    <2> HIDE DEF x
    <2>4. /\ Within(x, x.calls) /\ x.calls <= MaxCalls /\ x.hier_file_len = n /\ x.maxhandle = w.maxhandle
          /\ w.maxhandle \in Nat /\ x.path_array = w.path_array /\ x.path_array_count = w.path_array_count
      BY <2>2, <2>3, CountersAfter
    <2> QED
      BY <2>1, <2>4, Zenon DEF x
  <1>8. hier' \in Bytes
    <2>1. hier \o d.bytes \in Bytes
      BY <1>2, <1>3 DEF Bytes
    <2> QED
      BY <1>3, <1>5, <2>1 DEF Bytes
  <1>9. \E R : said' \in Seq(R)
    <2>1. \E R : Append(said, d.record) \in Seq(R)
      BY <1>1, AppendedIs, Zenon
    <2> QED
      BY <1>5, <2>1, AppendedIs, Zenon
  <1> QED
    BY <1>2, <1>3, <1>5, <1>6, <1>7, <1>8, <1>9, Zenon DEF HierType

----------------------------------------------------------------------------
(* The length with the types; every call of the writer adds one or two      *)
(* entries.                                                                 *)
LengthInv == HierType /\ LengthCounted

(* HierType holds of a file nothing is written to (fstapi.c:1155-1214).     *)
LEMMA TypeInit == HierInit => HierType
  <1> SUFFICES ASSUME HierInit PROVE HierType
    OBVIOUS
  <1>1. hier = <<>> /\ said = <<>>
    BY DEF HierInit
  <1>2. hier \in Bytes /\ \E S : said \in Seq(S)
    BY <1>1 DEF Bytes
  <1> DEFINE table == [p \in Paths |-> 0]
  <1>3. xw = [hier_file_len |-> 0, numsigs |-> 0, numscopes |-> 0, maxhandle |-> 0, geom |-> <<>>,
              max_enumhandle |-> 0, path_array |-> table, path_array_count |-> 0, calls |-> 0]
    BY DEF HierInit, Paths
  <1>4. table \in [Paths -> Nat] /\ \A p \in Paths : table[p] <= 0
    OBVIOUS
  <1> HIDE DEF table
  <1>5. xw \in Counters /\ xw.max_enumhandle <= xw.calls /\ xw.path_array_count <= xw.calls
        /\ xw.path_array = table /\ xw.path_array_count = 0 /\ xw.calls = 0
    BY <1>3, <1>4 DEF Counters, Bytes
  <1>6. xw.calls <= MaxCalls
    <2>1. MaxCalls \in Nat
      BY HierAssumption, UnsignedAre
    <2> QED
      BY <1>5, <2>1
  <1> QED
    BY <1>2, <1>4, <1>5, <1>6 DEF HierType, Within

(* Every call of the writer and of the reader keeps HierType.               *)
LEMMA TypeStep == HierType /\ [HierNext]_hierVars => HierType'
  <1> SUFFICES ASSUME HierType, [HierNext]_hierVars PROVE HierType'
    OBVIOUS
  <1>1. CASE UNCHANGED <<hier, xw, said>>
    BY <1>1 DEF HierType, Within
  <1>2. CASE UNCHANGED hierVars
    BY <1>1, <1>2, Zenon DEF hierVars
  <1>3. CASE HierNext
    BY <1>1, <1>3, StepAdds, AfterOne, AfterTwo, Zenon
  <1> QED
    BY <1>2, <1>3

(* Every call keeps the length counted equal to the bytes written.          *)
LEMMA LengthStep == LengthInv /\ [HierNext]_hierVars => LengthInv'
  <1> SUFFICES ASSUME LengthInv, [HierNext]_hierVars PROVE LengthCounted'
    BY TypeStep DEF LengthInv
  <1>1. HierType /\ xw.hier_file_len = Len(hier) /\ hier \in Seq(Byte)
    BY DEF LengthInv, LengthCounted, HierType, Bytes
  <1>2. CASE UNCHANGED <<hier, xw>>
    BY <1>1, <1>2 DEF LengthCounted
  <1>3. CASE UNCHANGED hierVars
    BY <1>2, <1>3, Zenon DEF hierVars
  <1>4. ASSUME NEW e, NEW w, WritesOne(e, w) PROVE LengthCounted'
    <2>1. hier' = hier \o e.bytes /\ xw'.hier_file_len = xw.hier_file_len + Len(e.bytes) /\ e.bytes \in Seq(Byte)
      BY <1>1, <1>4, AfterOne, Zenon DEF Bytes
    <2>2. Len(hier \o e.bytes) = Len(hier) + Len(e.bytes)
      BY <1>1, <2>1
    <2> QED
      BY <1>1, <2>1, <2>2, Zenon DEF LengthCounted
  <1>5. ASSUME NEW d, NEW e, NEW w, WritesTwo(d, e, w) PROVE LengthCounted'
    <2>1. /\ hier' = (hier \o d.bytes) \o e.bytes /\ xw'.hier_file_len = (xw.hier_file_len + Len(d.bytes)) + Len(e.bytes)
          /\ d.bytes \in Seq(Byte) /\ e.bytes \in Seq(Byte)
      <3>1. HierType /\ WritesTwo(d, e, w)
        BY <1>1, <1>5
      <3>2. /\ hier' = (hier \o d.bytes) \o e.bytes /\ xw'.hier_file_len = (xw.hier_file_len + d.len) + e.len
            /\ d.bytes \in Bytes /\ e.bytes \in Bytes /\ d.len = Len(d.bytes) /\ e.len = Len(e.bytes)
        BY <3>1, AfterTwo, Zenon
      <3> QED
        BY <3>2, Zenon DEF Bytes
    <2>2. hier \o d.bytes \in Seq(Byte) /\ Len(hier \o d.bytes) = Len(hier) + Len(d.bytes)
      BY <1>1, <2>1
    <2>3. Len((hier \o d.bytes) \o e.bytes) = Len(hier \o d.bytes) + Len(e.bytes)
      BY <2>1, <2>2
    <2> QED
      BY <1>1, <2>1, <2>2, <2>3, Zenon DEF LengthCounted
  <1> QED
    BY <1>1, <1>2, <1>3, <1>4, <1>5, StepAdds, Zenon

(* LengthCounted: hier_file_len is what was written to the hierarchy file,  *)
(* whatever is declared in whatever order (fstapi.c:2078-2122, 2651-2918),  *)
(* so that the block closing writes says the length of what it holds. No    *)
(* assumption on the types of the variables.                                *)
THEOREM LengthAlwaysCounted == HierSpec => []LengthCounted
  <1>1. HierInit => LengthInv
    <2> SUFFICES ASSUME HierInit PROVE LengthCounted
      BY TypeInit DEF LengthInv
    <2>1. hier = <<>> /\ xw.hier_file_len = 0
      BY DEF HierInit
    <2> QED
      BY <2>1 DEF LengthCounted
  <1>2. LengthInv => LengthCounted
    BY DEF LengthInv
  <1> QED
    BY <1>1, <1>2, LengthStep, PTL DEF HierSpec

(* Where an entry stands that is read as record, with the handles from h to *)
(* g, and what stands behind it; where all of them stand.                   *)
Describes(mem, p, h, record, q, g) ==
  \E b \in Bytes : b # <<>> /\ Holds(mem, p, b) /\ q = p + Len(b) /\ Means(b, record, h, g)
LaidOut(off, cnt, mem, recs, n, mh) ==
  /\ off \in [1 .. n + 1 -> Nat \ {0}] /\ cnt \in [1 .. n + 1 -> Nat]
  /\ off[1] = 1 /\ cnt[1] = 0 /\ off[n + 1] = Len(mem) + 1 /\ cnt[n + 1] = mh
  /\ \A i \in 1 .. n : Describes(mem, off[i], cnt[i], recs[i], off[i + 1], cnt[i + 1])

(* An entry that is described is read as its record, and what is behind it  *)
(* next.                                                                    *)
LEMMA DescribedReads ==
  ASSUME NEW mem \in Bytes, NEW p \in Nat \ {0}, NEW h \in Nat, NEW record, NEW q, NEW g, Describes(mem, p, h, record, q, g)
  PROVE  /\ p <= Len(mem) /\ At(mem, p).next = q /\ At(mem, p).htyp # "unknown"
         /\ RecordOf(mem, At(mem, p), h) = record /\ g = h + NewHandle(At(mem, p))
  <1>1. PICK b \in Bytes : b # <<>> /\ Holds(mem, p, b) /\ q = p + Len(b) /\ Means(b, record, h, g)
    BY DEF Describes
  <1>2. p <= Len(mem)
    <2>1. Len(b) \in Nat /\ Len(b) # 0 /\ Len(mem) \in Nat
      BY <1>1, EmptySeq DEF Bytes
    <2>2. p + Len(b) - 1 <= Len(mem)
      BY <1>1 DEF Holds
    <2> QED
      BY <2>1, <2>2
  <1>3. /\ At(mem, p).next = p + Len(b) /\ At(mem, p).htyp # "unknown"
        /\ RecordOf(mem, At(mem, p), h) = record /\ g = h + NewHandle(At(mem, p))
    BY <1>1, Zenon DEF Means
  <1> QED
    BY <1>1, <1>2, <1>3, Zenon

(* What is described stays described when more is written.                  *)
LEMMA StillDescribed ==
  ASSUME NEW mem \in Bytes, NEW more \in Bytes, NEW p \in Nat \ {0}, NEW h, NEW record, NEW q, NEW g,
         Describes(mem, p, h, record, q, g)
  PROVE  Describes(mem \o more, p, h, record, q, g)
  <1>1. PICK b \in Bytes : b # <<>> /\ Holds(mem, p, b) /\ q = p + Len(b) /\ Means(b, record, h, g)
    BY DEF Describes
  <1>2. Holds(mem \o more, p, b)
    <2> DEFINE all == mem \o more
    <2>1. Len(all) = Len(mem) + Len(more) /\ Len(mem) \in Nat /\ Len(more) \in Nat
          /\ \A i \in 1 .. Len(mem) : all[i] = mem[i]
      BY DEF Bytes
    <2>2. Len(b) \in Nat /\ p + Len(b) - 1 <= Len(mem) /\ \A i \in 1 .. Len(b) : mem[p + i - 1] = b[i]
      BY <1>1 DEF Holds, Bytes
    <2> HIDE DEF all
    <2>3. \A i \in 1 .. Len(b) : p + i - 1 \in 1 .. Len(mem)
      BY <2>1, <2>2
    <2>4. p + Len(b) - 1 <= Len(all) /\ \A i \in 1 .. Len(b) : all[p + i - 1] = b[i]
      <3>1. p + Len(b) - 1 <= Len(all)
        BY <2>1, <2>2
      <3>2. \A i \in 1 .. Len(b) : all[p + i - 1] = b[i]
        BY <2>1, <2>2, <2>3, Zenon
      <3> QED
        BY <3>1, <3>2
    <2> QED
      BY <2>4 DEF Holds, all
  <1> QED
    BY <1>1, <1>2, Zenon DEF Describes

(* One entry more at the end of the file, and everything is described       *)
(* still.                                                                   *)
LEMMA OneMore ==
  ASSUME NEW mem \in Bytes, NEW recs, \E S : recs \in Seq(S), NEW n \in Nat, n = Len(recs), NEW mh, NEW off, NEW cnt,
         LaidOut(off, cnt, mem, recs, n, mh),
         NEW b \in Bytes, b # <<>>, NEW record, NEW g \in Nat, Means(b, record, mh, g)
  PROVE  \E off1, cnt1 : LaidOut(off1, cnt1, mem \o b, Append(recs, record), n + 1, g)
  <1> DEFINE all == mem \o b
             said1 == Append(recs, record)
             last == Len(all) + 1
             m == n + 1
             off1 == [i \in 1 .. m + 1 |-> IF i = m + 1 THEN last ELSE off[i]]
             cnt1 == [i \in 1 .. m + 1 |-> IF i = m + 1 THEN g ELSE cnt[i]]
  <1>1. /\ Len(all) = Len(mem) + Len(b) /\ Len(mem) \in Nat /\ Len(b) \in Nat /\ last \in Nat \ {0}
        /\ m \in Nat /\ all \in Bytes
    BY DEF Bytes
  <1>2. said1[m] = record /\ \A i \in 1 .. n : said1[i] = recs[i]
    BY AppendedIs
  <1>3. /\ off \in [1 .. m -> Nat \ {0}] /\ cnt \in [1 .. m -> Nat]
        /\ off[1] = 1 /\ cnt[1] = 0 /\ off[m] = Len(mem) + 1 /\ cnt[m] = mh
        /\ \A i \in 1 .. n : Describes(mem, off[i], cnt[i], recs[i], off[i + 1], cnt[i + 1])
    BY DEF LaidOut
  <1> HIDE DEF all, said1, last
  <1>4. /\ off1 \in [1 .. m + 1 -> Nat \ {0}] /\ cnt1 \in [1 .. m + 1 -> Nat]
        /\ off1[m + 1] = last /\ cnt1[m + 1] = g
        /\ \A i \in 1 .. m : off1[i] = off[i] /\ cnt1[i] = cnt[i]
    BY <1>1, <1>3
  <1> HIDE DEF off1, cnt1
  <1>5. off1[1] = 1 /\ cnt1[1] = 0
    <2>1. 1 \in 1 .. m
      OBVIOUS
    <2> QED
      BY <1>3, <1>4, <2>1
  <1>6. ASSUME NEW i \in 1 .. n
        PROVE  Describes(all, off1[i], cnt1[i], said1[i], off1[i + 1], cnt1[i + 1])
    <2>1. i \in 1 .. m /\ i + 1 \in 1 .. m
      OBVIOUS
    <2>2. off[i] \in Nat \ {0} /\ Describes(mem, off[i], cnt[i], recs[i], off[i + 1], cnt[i + 1])
      BY <1>3, <2>1
    <2>3. Describes(all, off[i], cnt[i], recs[i], off[i + 1], cnt[i + 1])
      BY <2>2, StillDescribed, Zenon DEF all
    <2> QED
      BY <1>2, <1>4, <2>1, <2>3, Zenon
  <1>7. Describes(all, off1[m], cnt1[m], said1[m], off1[m + 1], cnt1[m + 1])
    <2>1. Holds(all, Len(mem) + 1, b)
      <3>1. \A i \in 1 .. Len(b) : all[Len(mem) + i] = b[i] /\ (Len(mem) + 1) + i - 1 = Len(mem) + i
        BY DEF all, Bytes
      <3>2. (Len(mem) + 1) + Len(b) - 1 <= Len(all)
        BY <1>1
      <3> QED
        BY <3>1, <3>2, Zenon DEF Holds
    <2>2. last = (Len(mem) + 1) + Len(b)
      BY <1>1 DEF last
    <2>3. Describes(all, Len(mem) + 1, mh, record, last, g)
      BY <2>1, <2>2, Zenon DEF Describes
    <2>4. m \in 1 .. m
      OBVIOUS
    <2> QED
      BY <1>2, <1>3, <1>4, <2>3, <2>4, Zenon
  <1>8. \A i \in 1 .. m : i \in 1 .. n \/ i = m
    OBVIOUS
  <1>9. LaidOut(off1, cnt1, all, said1, m, g)
    BY <1>4, <1>5, <1>6, <1>7, <1>8, Zenon DEF LaidOut, last
  <1> QED
    BY <1>9, Zenon DEF all, said1

(* The reader and what it returned: where it stands, if nothing moved it.   *)
Reader == \E G, P : xr \in [pos : Nat, current_handle : Nat, do_rewind : BOOLEAN, ended : BOOLEAN, disturbed : BOOLEAN,
                            geom : G, processed : P]
Repeats ==
  /\ (\E S : returned \in Seq(S)) /\ Len(returned) <= Len(said)
  /\ \A i \in 1 .. Len(returned) : returned[i] = said[i]
Stands(off, cnt) ==
  /\ Reader /\ Repeats
  /\ xr.ended /\ ~xr.disturbed => Len(returned) = Len(said)
  /\ ~xr.do_rewind /\ xr.disturbed => xr.pos = Len(hier) + 1
  /\ ~xr.do_rewind /\ ~xr.disturbed /\ ~xr.ended =>
       xr.pos = off[Len(returned) + 1] /\ xr.current_handle = cnt[Len(returned) + 1]
IterationInv ==
  /\ HierType /\ (xr = <<>> => returned = <<>>)
  /\ \E off, cnt : /\ LaidOut(off, cnt, hier, said, Len(said), xw.maxhandle)
                   /\ xr # <<>> => Stands(off, cnt)

(* A file nothing is written to is described.                               *)
LEMMA IterationInit == HierInit => IterationInv
  <1> SUFFICES ASSUME HierInit PROVE IterationInv
    OBVIOUS
  <1>1. hier = <<>> /\ said = <<>> /\ xr = <<>> /\ returned = <<>> /\ xw.maxhandle = 0
    BY DEF HierInit
  <1> DEFINE n == 0
             off == [i \in 1 .. n + 1 |-> 1]
             cnt == [i \in 1 .. n + 1 |-> 0]
  <1>2. Len(hier) = 0 /\ Len(said) = 0
    BY <1>1
  <1>3. off \in [1 .. n + 1 -> Nat \ {0}] /\ cnt \in [1 .. n + 1 -> Nat] /\ off[1] = 1 /\ cnt[1] = 0
        /\ off[n + 1] = Len(hier) + 1 /\ cnt[n + 1] = xw.maxhandle /\ \A i \in 1 .. n : FALSE
    BY <1>1, <1>2
  <1>4. LaidOut(off, cnt, hier, said, n, xw.maxhandle)
    <2> HIDE DEF off, cnt, n
    <2> QED
      BY <1>3, Zenon DEF LaidOut
  <1> HIDE DEF off, cnt
  <1> QED
    BY <1>1, <1>2, <1>4, TypeInit, Zenon DEF IterationInv

(* The writer.                                                              *)
LEMMA IterationWrites ==
  ASSUME TypesKnown, IterationInv, HierType',
         (\E e, w : WritesOne(e, w)) \/ (\E d, e, w : WritesTwo(d, e, w))
  PROVE  IterationInv'
  <1>1. HierType /\ hier \in Bytes /\ (\E S : said \in Seq(S)) /\ Len(said) \in Nat
    BY AppendedIs, Zenon DEF IterationInv, HierType
  <1>2. PICK off, cnt : LaidOut(off, cnt, hier, said, Len(said), xw.maxhandle)
    BY DEF IterationInv
  <1>3. xw.maxhandle \in Nat
    BY <1>1, SameCounters
  <1>4. ASSUME NEW e, NEW w, WritesOne(e, w) PROVE IterationInv'
    <2>1. /\ hier' = hier \o e.bytes /\ said' = Append(said, e.record) /\ xw'.maxhandle = w.maxhandle
          /\ w.maxhandle \in Nat /\ xr = <<>> /\ xr' = xr /\ returned' = returned /\ e.bytes \in Bytes
      BY <1>1, <1>4, AfterOne, Zenon
    <2>2. e.bytes # <<>> /\ Means(e.bytes, e.record, xw.maxhandle, w.maxhandle)
      BY <1>4, Zenon DEF WritesOne, Counted
    <2>3. \E off1, cnt1 : LaidOut(off1, cnt1, hier \o e.bytes, Append(said, e.record), Len(said) + 1, w.maxhandle)
      BY <1>1, <1>2, <2>1, <2>2, OneMore
    <2>4. Len(said') = Len(said) + 1
      BY <1>1, <2>1, AppendedIs
    <2>5. \E off1, cnt1 : LaidOut(off1, cnt1, hier', said', Len(said'), xw'.maxhandle)
      BY <2>1, <2>3, <2>4, Zenon
    <2>6. xr' = <<>> /\ returned' = <<>>
      BY <2>1, Zenon DEF IterationInv
    <2> QED
      BY <2>5, <2>6, Zenon DEF IterationInv
  <1>5. ASSUME NEW d, NEW e, NEW w, WritesTwo(d, e, w) PROVE IterationInv'
    <2> DEFINE mem == hier \o d.bytes
               recs == Append(said, d.record)
               n == Len(said) + 1
    <2>1. /\ hier' = mem \o e.bytes /\ said' = Append(recs, e.record) /\ xw'.maxhandle = w.maxhandle
          /\ w.maxhandle \in Nat /\ xr = <<>> /\ xr' = xr /\ returned' = returned /\ e.bytes \in Bytes /\ d.bytes \in Bytes
      BY <1>1, <1>5, AfterTwo, Zenon
    <2>2. /\ e.bytes # <<>> /\ Means(e.bytes, e.record, xw.maxhandle, w.maxhandle)
          /\ d.bytes # <<>> /\ Means(d.bytes, d.record, xw.maxhandle, xw.maxhandle)
      BY <1>5, Zenon DEF WritesTwo, Counted
    <2>3. PICK off1, cnt1 : LaidOut(off1, cnt1, mem, recs, n, xw.maxhandle)
      BY <1>1, <1>2, <1>3, <2>1, <2>2, OneMore
    <2>4. mem \in Bytes /\ (\E S : recs \in Seq(S)) /\ n \in Nat /\ n = Len(recs)
      <3>1. mem \in Bytes
        BY <1>1, <2>1 DEF Bytes
      <3>2. (\E S : recs \in Seq(S)) /\ n = Len(recs)
        BY <1>1, AppendedIs
      <3> QED
        BY <1>1, <3>1, <3>2
    <2> HIDE DEF mem, recs, n
    <2>5. \E off2, cnt2 : LaidOut(off2, cnt2, mem \o e.bytes, Append(recs, e.record), n + 1, w.maxhandle)
      BY <2>1, <2>2, <2>3, <2>4, OneMore
    <2>6. Len(said') = n + 1
      BY <2>1, <2>4, AppendedIs
    <2>7. \E off2, cnt2 : LaidOut(off2, cnt2, hier', said', Len(said'), xw'.maxhandle)
      BY <2>1, <2>5, <2>6, Zenon
    <2>8. xr' = <<>> /\ returned' = <<>>
      BY <2>1, Zenon DEF IterationInv
    <2> QED
      BY <2>7, <2>8, Zenon DEF IterationInv
  <1> QED
    BY <1>4, <1>5

(* Opening the reader, which stands at the beginning.                       *)
LEMMA ReaderOpens ==
  ASSUME IterationInv, OpenReader PROVE IterationInv'
  <1>1. UNCHANGED <<hier, xw, said, stems, returned>> /\ xr = <<>> /\ returned = <<>>
    BY DEF OpenReader, IterationInv
  <1>2. HierType' /\ \E S : said \in Seq(S)
    BY <1>1 DEF IterationInv, HierType, Within
  <1>3. PICK off, cnt : LaidOut(off, cnt, hier, said, Len(said), xw.maxhandle)
    BY DEF IterationInv
  <1>4. LaidOut(off, cnt, hier', said', Len(said'), xw'.maxhandle)
    BY <1>1, <1>3, Zenon
  <1> DEFINE geom == ReadGeom(xw.geom, xw.maxhandle)
             r == [pos |-> 1, current_handle |-> 0, do_rewind |-> TRUE, ended |-> FALSE, disturbed |-> FALSE,
                   geom |-> geom, processed |-> <<>>]
  <1>5. xr' = r
    BY DEF OpenReader
  <1> HIDE DEF geom
  <1>6. /\ r \in [pos : Nat, current_handle : Nat, do_rewind : BOOLEAN, ended : BOOLEAN, disturbed : BOOLEAN,
                  geom : {geom}, processed : {<<>>}]
        /\ r.do_rewind /\ ~r.ended
    OBVIOUS
  <1> HIDE DEF r
  <1>7. Reader' /\ xr'.do_rewind /\ ~xr'.ended
    BY <1>5, <1>6, Zenon DEF Reader
  <1>8. Repeats'
    <2>1. returned' = <<>> /\ said' = said /\ Len(said) \in Nat
      BY <1>1, <1>2, AppendedIs, Zenon
    <2>2. (\E S : <<>> \in Seq(S)) /\ Len(<<>>) = 0 /\ \A i \in 1 .. Len(<<>>) : FALSE
      OBVIOUS
    <2>3. 0 <= Len(said)
      BY <2>1
    <2> QED
      BY <2>1, <2>2, <2>3, Zenon DEF Repeats
  <1>9. Stands(off, cnt)'
    BY <1>7, <1>8, Zenon DEF Stands
  <1>10. xr' = <<>> => returned' = <<>>
    BY <1>1
  <1> QED
    BY <1>2, <1>4, <1>9, <1>10, Zenon DEF IterationInv

(* A reader's step, from where it stands.                                   *)
LEMMA StaysInv ==
  ASSUME IterationInv, UNCHANGED <<hier, xw, said, stems>>, xr # <<>>, xr' # <<>>,
         \A off, cnt : LaidOut(off, cnt, hier, said, Len(said), xw.maxhandle) /\ Stands(off, cnt) => Stands(off, cnt)'
  PROVE  IterationInv'
  <1>1. HierType'
    BY DEF IterationInv, HierType, Within
  <1>2. PICK off, cnt : LaidOut(off, cnt, hier, said, Len(said), xw.maxhandle) /\ Stands(off, cnt)
    BY DEF IterationInv
  <1>3. Stands(off, cnt)'
    BY <1>2, Zenon
  <1>4. LaidOut(off, cnt, hier', said', Len(said'), xw'.maxhandle)
    BY <1>2, Zenon
  <1> QED
    BY <1>1, <1>3, <1>4, Zenon DEF IterationInv

(* fstReaderIterateHierRewind goes back to the first entry;                 *)
(* fstReaderProcessHier leaves the reader at the end of the file.           *)
LEMMA RewindAndProcess ==
  ASSUME IterationInv, IterateHierRewind \/ ProcessHier PROVE IterationInv'
  <1>1. UNCHANGED <<hier, xw, said, stems, returned>> /\ xr # <<>>
    BY DEF IterateHierRewind, ProcessHier
  <1>2. Len(hier) \in Nat
    BY DEF IterationInv, HierType, Bytes
  <1>3. Reader
    BY <1>1, Zenon DEF IterationInv, Stands
  <1>4. PICK G, P : xr \in [pos : Nat, current_handle : Nat, do_rewind : BOOLEAN, ended : BOOLEAN, disturbed : BOOLEAN,
                            geom : G, processed : P]
    BY <1>3, Zenon DEF Reader
  <1>5. /\ Reader' /\ xr' # <<>>
        /\ \/ xr'.do_rewind /\ xr'.ended = xr.ended /\ xr'.disturbed = xr.disturbed
           \/ xr'.pos = Len(hier) + 1 /\ xr'.disturbed
    <2>1. CASE IterateHierRewind
      <3> DEFINE r == [xr EXCEPT !.do_rewind = TRUE]
      <3>1. r \in [pos : Nat, current_handle : Nat, do_rewind : BOOLEAN, ended : BOOLEAN, disturbed : BOOLEAN,
                   geom : G, processed : P]
            /\ r.do_rewind /\ r.ended = xr.ended /\ r.disturbed = xr.disturbed
        BY <1>4
      <3>2. xr' = r
        BY <2>1 DEF IterateHierRewind
      <3>3. r # <<>>
        BY <3>1
      <3> HIDE DEF r
      <3> QED
        BY <3>1, <3>2, <3>3, Zenon DEF Reader
    <2>2. CASE ProcessHier
      <3> DEFINE all == ProcessAll(hier)
                 end == Len(hier) + 1
                 r == [xr EXCEPT !.processed = all, !.pos = end, !.disturbed = TRUE]
      <3>1. xr' = r
        BY <2>2 DEF ProcessHier
      <3>2. end \in Nat
        BY <1>2
      <3> HIDE DEF all, end
      <3>3. r \in [pos : Nat, current_handle : Nat, do_rewind : BOOLEAN, ended : BOOLEAN, disturbed : BOOLEAN,
                   geom : G, processed : P \cup {all}]
            /\ r.pos = end /\ r.disturbed
        BY <1>4, <3>2
      <3>4. r # <<>>
        <4>1. "pos" \in DOMAIN r
          BY <1>4
        <4>2. DOMAIN <<>> = {}
          OBVIOUS
        <4> QED
          BY <4>1, <4>2
      <3> HIDE DEF r
      <3> QED
        BY <3>1, <3>3, <3>4, Zenon DEF Reader, end
    <2> QED
      BY <2>1, <2>2
  <1>6. ASSUME NEW off, NEW cnt, Stands(off, cnt) PROVE Stands(off, cnt)'
    <2>1. Repeats' /\ Len(returned') = Len(returned) /\ Len(said') = Len(said) /\ Len(hier') = Len(hier)
      BY <1>1, <1>6, Zenon DEF Stands, Repeats
    <2> QED
      BY <1>5, <1>6, <2>1, Zenon DEF Stands
  <1>7. UNCHANGED <<hier, xw, said, stems>>
    BY <1>1
  <1> QED
    BY <1>1, <1>5, <1>6, <1>7, StaysInv, Zenon

----------------------------------------------------------------------------
(* An iteration starts where it was rewound to.                             *)
LEMMA RewoundStands ==
  ASSUME IterationInv, xr # <<>>, xr.ended => xr.do_rewind, NEW off, NEW cnt,
         LaidOut(off, cnt, hier, said, Len(said), xw.maxhandle), Stands(off, cnt),
         NEW before, before = IF xr.do_rewind THEN <<>> ELSE returned, NEW r, r = Rewound(xr)
  PROVE  /\ \E G, P : r \in [pos : Nat, current_handle : Nat, do_rewind : BOOLEAN, ended : BOOLEAN, disturbed : BOOLEAN,
                             geom : G, processed : P]
         /\ ~r.do_rewind /\ ~r.ended
         /\ (\E S : before \in Seq(S)) /\ Len(before) <= Len(said) /\ Len(before) \in Nat
         /\ \A i \in 1 .. Len(before) : before[i] = said[i]
         /\ r.disturbed => r.pos = Len(hier) + 1
         /\ ~r.disturbed => r.pos = off[Len(before) + 1] /\ r.current_handle = cnt[Len(before) + 1]
  <1>1. PICK G, P : xr \in [pos : Nat, current_handle : Nat, do_rewind : BOOLEAN, ended : BOOLEAN, disturbed : BOOLEAN,
                            geom : G, processed : P]
    BY DEF Stands, Reader
  <1>2. off[1] = 1 /\ cnt[1] = 0
    BY DEF LaidOut
  <1>3. Len(said) \in Nat
    BY AppendedIs DEF IterationInv, HierType
  <1>4. CASE xr.do_rewind
    <2>1. r = [xr EXCEPT !.do_rewind = FALSE, !.pos = 1, !.ended = FALSE, !.disturbed = FALSE, !.current_handle = 0]
      BY <1>4, Zenon DEF Rewound
    <2>2. /\ r \in [pos : Nat, current_handle : Nat, do_rewind : BOOLEAN, ended : BOOLEAN, disturbed : BOOLEAN,
                    geom : G, processed : P]
          /\ ~r.do_rewind /\ ~r.ended /\ ~r.disturbed /\ r.pos = 1 /\ r.current_handle = 0
      <3> DEFINE a == [xr EXCEPT !.do_rewind = FALSE, !.pos = 1]
                 b == [a EXCEPT !.ended = FALSE, !.disturbed = FALSE]
                 c == [b EXCEPT !.current_handle = 0]
      <3>1. r = c
        BY <2>1
      <3>2. /\ a \in [pos : Nat, current_handle : Nat, do_rewind : BOOLEAN, ended : BOOLEAN, disturbed : BOOLEAN,
                      geom : G, processed : P]
            /\ ~a.do_rewind /\ a.pos = 1
        BY <1>1
      <3> HIDE DEF a
      <3>3. /\ b \in [pos : Nat, current_handle : Nat, do_rewind : BOOLEAN, ended : BOOLEAN, disturbed : BOOLEAN,
                      geom : G, processed : P]
            /\ ~b.do_rewind /\ b.pos = 1 /\ ~b.ended /\ ~b.disturbed
        BY <3>2
      <3> HIDE DEF b
      <3>4. /\ c \in [pos : Nat, current_handle : Nat, do_rewind : BOOLEAN, ended : BOOLEAN, disturbed : BOOLEAN,
                      geom : G, processed : P]
            /\ ~c.do_rewind /\ c.pos = 1 /\ ~c.ended /\ ~c.disturbed /\ c.current_handle = 0
        BY <3>3
      <3> HIDE DEF c
      <3> QED
        BY <3>1, <3>4, Zenon
    <2>3. before = <<>>
      BY <1>4
    <2>4. (\E S : before \in Seq(S)) /\ Len(before) = 0 /\ Len(before) + 1 = 1 /\ Len(before) <= Len(said)
          /\ \A i \in 1 .. Len(before) : before[i] = said[i]
      <3>1. (\E S : <<>> \in Seq(S)) /\ Len(<<>>) = 0 /\ \A i \in 1 .. Len(<<>>) : FALSE
        OBVIOUS
      <3>2. 0 + 1 = 1 /\ 0 <= Len(said)
        BY <1>3
      <3> QED
        BY <2>3, <3>1, <3>2, Zenon
    <2>5. Len(before) \in Nat
      BY <2>4
    <2> QED
      BY <1>2, <2>2, <2>4, <2>5, Zenon
  <1>5. CASE ~xr.do_rewind
    <2>1. r = xr /\ ~xr.ended /\ before = returned
      BY <1>5, Zenon DEF Rewound
    <2>2. Len(before) \in Nat
      BY <2>1, AppendedIs DEF Stands, Repeats
    <2> QED
      BY <1>1, <1>5, <2>1, <2>2, Zenon DEF Stands, Repeats
  <1> QED
    BY <1>4, <1>5

(* A step of the reader writes nothing.                                     *)
LEMMA HierStays ==
  ASSUME IterationInv, UNCHANGED <<hier, xw, said, stems>>
  PROVE  HierType' /\ Len(said') = Len(said)
  BY DEF IterationInv, HierType, Within

(* fstReaderIterateHier returns the record of the entry it stands at and    *)
(* goes on to the next, or ends behind the last.                            *)
LEMMA IterationReads ==
  ASSUME IterationInv, IterateHier PROVE IterationInv'
  <1> DEFINE r == Rewound(xr)
             before == IF xr.do_rewind THEN <<>> ELSE returned
             e == IF r.pos > Len(hier) THEN [htyp |-> "unknown", next |-> r.pos] ELSE At(hier, r.pos)
             k == Len(before)
             ends == [r EXCEPT !.pos = e.next, !.ended = TRUE]
             goes == [r EXCEPT !.pos = e.next, !.current_handle = @ + NewHandle(e)]
  <1>1. xr # <<>> /\ (xr.ended => xr.do_rewind) /\ UNCHANGED <<hier, xw, said, stems>>
    BY DEF IterateHier
  <1>2. IF e.htyp = "unknown" THEN xr' = ends /\ returned' = before
        ELSE xr' = goes /\ returned' = Append(before, RecordOf(hier, e, r.current_handle))
    BY DEF IterateHier
  <1>3. PICK off, cnt : LaidOut(off, cnt, hier, said, Len(said), xw.maxhandle) /\ Stands(off, cnt)
    BY <1>1, Zenon DEF IterationInv
  <1>4. Len(said) \in Nat /\ Len(hier) \in Nat /\ hier \in Bytes
    BY AppendedIs DEF IterationInv, HierType, Bytes
  <1> HIDE DEF r, before
  <1>5. /\ \E G, P : r \in [pos : Nat, current_handle : Nat, do_rewind : BOOLEAN, ended : BOOLEAN, disturbed : BOOLEAN,
                             geom : G, processed : P]
        /\ ~r.do_rewind /\ ~r.ended
        /\ (\E S : before \in Seq(S)) /\ k <= Len(said) /\ k \in Nat
        /\ \A i \in 1 .. k : before[i] = said[i]
        /\ r.disturbed => r.pos = Len(hier) + 1
        /\ ~r.disturbed => r.pos = off[k + 1] /\ r.current_handle = cnt[k + 1]
    <2>1. /\ IterationInv /\ xr # <<>> /\ (xr.ended => xr.do_rewind)
          /\ LaidOut(off, cnt, hier, said, Len(said), xw.maxhandle) /\ Stands(off, cnt)
          /\ before = (IF xr.do_rewind THEN <<>> ELSE returned) /\ r = Rewound(xr)
      BY <1>1, <1>3 DEF r, before
    <2> QED
      BY <2>1, RewoundStands
  <1> HIDE DEF k
  <1>6. PICK G, P : r \in [pos : Nat, current_handle : Nat, do_rewind : BOOLEAN, ended : BOOLEAN, disturbed : BOOLEAN,
                            geom : G, processed : P]
    BY <1>5, Zenon
  <1>7. /\ off[Len(said) + 1] = Len(hier) + 1
        /\ \A i \in 1 .. Len(said) : /\ Describes(hier, off[i], cnt[i], said[i], off[i + 1], cnt[i + 1])
                                     /\ i \in 1 .. Len(said) + 1 /\ off[i] \in Nat \ {0} /\ cnt[i] \in Nat
                                     /\ off[i + 1] \in Nat /\ cnt[i + 1] \in Nat
    <2> DEFINE n == Len(said)
    <2>1. /\ off \in [1 .. n + 1 -> Nat \ {0}] /\ cnt \in [1 .. n + 1 -> Nat] /\ off[n + 1] = Len(hier) + 1
          /\ \A i \in 1 .. n : Describes(hier, off[i], cnt[i], said[i], off[i + 1], cnt[i + 1])
      BY <1>3, Zenon DEF LaidOut
    <2>2. n \in Nat
      BY <1>4
    <2> HIDE DEF n
    <2>3. \A i \in 1 .. n : i \in 1 .. n + 1 /\ i + 1 \in 1 .. n + 1
      BY <2>2
    <2>4. \A i \in 1 .. n + 1 : off[i] \in Nat \ {0} /\ off[i] \in Nat /\ cnt[i] \in Nat
      BY <2>1
    <2> QED
      BY <2>1, <2>3, <2>4, Zenon DEF n
  <1>8. CASE r.pos > Len(hier)
    <2>1. e.htyp = "unknown" /\ e.next = r.pos
      BY <1>8
    <2> HIDE DEF e
    <2>2. xr' = ends /\ returned' = before
      BY <1>2, <2>1, Zenon
    <2>3. /\ ends \in [pos : Nat, current_handle : Nat, do_rewind : BOOLEAN, ended : BOOLEAN, disturbed : BOOLEAN,
                       geom : G, processed : P]
          /\ ends.pos = r.pos /\ ends.ended /\ ends.disturbed = r.disturbed /\ ends # <<>>
      <3>1. ends = [r EXCEPT !.pos = r.pos, !.ended = TRUE]
        BY <2>1, Zenon
      <3>2. /\ ends \in [pos : Nat, current_handle : Nat, do_rewind : BOOLEAN, ended : BOOLEAN, disturbed : BOOLEAN,
                       geom : G, processed : P]
            /\ ends.pos = r.pos /\ ends.ended /\ ends.disturbed = r.disturbed
        BY <1>6, <3>1
      <3>3. ends # <<>>
        <4>1. "pos" \in DOMAIN ends
          BY <1>6
        <4>2. DOMAIN <<>> = {}
          OBVIOUS
        <4> HIDE DEF ends
        <4> QED
          BY <4>1, <4>2
      <3> QED
        BY <3>2, <3>3
    <2> HIDE DEF ends
    <2>4. Reader' /\ Repeats' /\ Len(returned') = k /\ Len(said') = Len(said)
      BY <1>1, <1>5, <2>2, <2>3, Zenon DEF Reader, Repeats, k
    <2>5. ~r.disturbed => k = Len(said)
      <3>1. ASSUME ~r.disturbed, k # Len(said) PROVE FALSE
        <4>1. k + 1 \in 1 .. Len(said)
          BY <1>4, <1>5, <3>1
        <4>2. off[k + 1] <= Len(hier)
          BY <1>4, <1>7, <4>1, DescribedReads
        <4> QED
          BY <1>4, <1>5, <1>6, <1>8, <3>1, <4>2
      <3> QED
        BY <3>1
    <2>6. Stands(off, cnt)'
      BY <1>1, <1>5, <2>2, <2>3, <2>4, <2>5, Zenon DEF Stands
    <2> QED
      BY <1>1, <1>3, <2>2, <2>3, <2>6, HierStays, Zenon DEF IterationInv
  <1>9. CASE ~(r.pos > Len(hier))
    <2>1. ~r.disturbed
      BY <1>4, <1>5, <1>9
    <2>2. k + 1 \in 1 .. Len(said) /\ k + 1 + 1 = (k + 1) + 1
      BY <1>4, <1>5, <1>7, <1>9, <2>1
    <2>3. e = At(hier, r.pos) /\ r.pos = off[k + 1] /\ r.current_handle = cnt[k + 1]
      BY <1>5, <1>9, <2>1, Zenon
    <2> HIDE DEF e
    <2>4. /\ e.next = off[(k + 1) + 1] /\ e.htyp # "unknown" /\ RecordOf(hier, e, r.current_handle) = said[k + 1]
          /\ cnt[(k + 1) + 1] = r.current_handle + NewHandle(e)
      <3>1. /\ Describes(hier, off[k + 1], cnt[k + 1], said[k + 1], off[(k + 1) + 1], cnt[(k + 1) + 1])
            /\ off[k + 1] \in Nat \ {0} /\ cnt[k + 1] \in Nat
        BY <1>7, <2>2, Zenon
      <3>2. /\ At(hier, off[k + 1]).next = off[(k + 1) + 1] /\ At(hier, off[k + 1]).htyp # "unknown"
            /\ RecordOf(hier, At(hier, off[k + 1]), cnt[k + 1]) = said[k + 1]
            /\ cnt[(k + 1) + 1] = cnt[k + 1] + NewHandle(At(hier, off[k + 1]))
        <4> DEFINE p == off[k + 1]
                   h == cnt[k + 1]
                   record == said[k + 1]
                   q == off[(k + 1) + 1]
                   g == cnt[(k + 1) + 1]
        <4>1. hier \in Bytes /\ p \in Nat \ {0} /\ h \in Nat /\ Describes(hier, p, h, record, q, g)
          BY <1>4, <3>1
        <4> HIDE DEF p, h, record, q, g
        <4>2. /\ At(hier, p).next = q /\ At(hier, p).htyp # "unknown"
              /\ RecordOf(hier, At(hier, p), h) = record /\ g = h + NewHandle(At(hier, p))
          BY <4>1, DescribedReads
        <4> QED
          BY <4>2, Zenon DEF p, h, record, q, g
      <3> QED
        BY <2>3, <3>2, Zenon
    <2> DEFINE next == off[(k + 1) + 1]
               handle == cnt[(k + 1) + 1]
    <2>5. next \in Nat /\ handle \in Nat
      BY <1>7, <2>2
    <2>6. goes = [r EXCEPT !.pos = next, !.current_handle = handle]
      <3>1. goes = [r EXCEPT !.pos = e.next, !.current_handle = r.current_handle + NewHandle(e)]
        BY <1>6
      <3> QED
        BY <2>4, <3>1, Zenon
    <2>7. xr' = goes /\ returned' = Append(before, said[k + 1])
      BY <1>2, <2>4, Zenon
    <2> HIDE DEF next, handle, goes
    <2>8. /\ goes \in [pos : Nat, current_handle : Nat, do_rewind : BOOLEAN, ended : BOOLEAN, disturbed : BOOLEAN,
                       geom : G, processed : P]
          /\ goes.pos = next /\ goes.current_handle = handle /\ ~goes.ended /\ ~goes.disturbed /\ goes # <<>>
      <3>1. /\ goes \in [pos : Nat, current_handle : Nat, do_rewind : BOOLEAN, ended : BOOLEAN, disturbed : BOOLEAN,
                       geom : G, processed : P]
            /\ goes.pos = next /\ goes.current_handle = handle /\ goes.ended = r.ended /\ goes.disturbed = r.disturbed
        BY <1>6, <2>5, <2>6
      <3>2. goes # <<>>
        <4>1. "pos" \in DOMAIN goes
          BY <1>6, <2>6
        <4>2. DOMAIN <<>> = {}
          OBVIOUS
        <4> QED
          BY <4>1, <4>2
      <3> QED
        BY <1>5, <2>1, <3>1, <3>2, Zenon
    <2>9. /\ (\E S : returned' \in Seq(S)) /\ Len(returned') = k + 1
          /\ \A i \in 1 .. k + 1 : returned'[i] = said[i]
      <3>1. /\ (\E S : returned' \in Seq(S)) /\ Len(returned') = k + 1 /\ returned'[k + 1] = said[k + 1]
            /\ \A i \in 1 .. k : returned'[i] = before[i]
        <4> DEFINE record == said[k + 1]
        <4>1. (\E S : before \in Seq(S)) /\ returned' = Append(before, record)
          BY <1>5, <2>7
        <4> HIDE DEF record
        <4>2. /\ \E S : Append(before, record) \in Seq(S)
              /\ Len(Append(before, record)) = Len(before) + 1 /\ Append(before, record)[Len(before) + 1] = record
              /\ \A i \in 1 .. Len(before) : Append(before, record)[i] = before[i]
          BY <4>1, AppendedIs
        <4> QED
          BY <4>1, <4>2, Zenon DEF k, record
      <3>2. \A i \in 1 .. k + 1 : i \in 1 .. k \/ i = k + 1
        BY <1>5
      <3> QED
        BY <1>5, <3>1, <3>2, Zenon
    <2>10. Reader' /\ Repeats' /\ xr' # <<>>
      <3>1. k + 1 <= Len(said)
        BY <1>4, <2>2
      <3> QED
        BY <1>1, <2>7, <2>8, <2>9, <3>1, Zenon DEF Reader, Repeats
    <2>11. Stands(off, cnt)'
      BY <2>7, <2>8, <2>9, <2>10, Zenon DEF Stands, next, handle
    <2> QED
      BY <1>1, <1>3, <2>10, <2>11, HierStays, Zenon DEF IterationInv
  <1> QED
    BY <1>8, <1>9

(* Every step keeps what is written described, and the reader where the     *)
(* next record is.                                                          *)
LEMMA IterationStep == TypesKnown /\ IterationInv /\ [HierNext]_hierVars => IterationInv'
  <1> SUFFICES ASSUME TypesKnown, IterationInv, [HierNext]_hierVars PROVE IterationInv'
    OBVIOUS
  <1>1. HierType /\ HierType'
    BY TypeStep DEF IterationInv
  <1>2. CASE UNCHANGED hierVars
    <2>1. UNCHANGED <<hier, xw, said, stems, xr, returned>>
      BY <1>2, Zenon DEF hierVars
    <2> QED
      BY <1>1, <2>1, Zenon DEF IterationInv, Stands, Reader, Repeats
  <1>3. CASE HierNext
    <2>1. \/ (\E e, w : WritesOne(e, w)) \/ (\E d, e, w : WritesTwo(d, e, w))
          \/ OpenReader \/ IterateHierRewind \/ IterateHier \/ ProcessHier
      BY <1>1, <1>3, StepAdds, Zenon
    <2> QED
      BY <1>1, <2>1, IterationWrites, ReaderOpens, RewindAndProcess, IterationReads, Zenon
  <1> QED
    BY <1>2, <1>3

(* A reader that stands there returned what was said, in its order, and all *)
(* of it when it ended.                                                     *)
LEMMA IterationSafe == IterationInv => IterationFaithful /\ IterationComplete
  <1> SUFFICES ASSUME IterationInv PROVE IterationFaithful /\ IterationComplete
    OBVIOUS
  <1>1. PICK S : said \in Seq(S)
    BY DEF IterationInv, HierType
  <1>2. CASE xr = <<>>
    <2>1. returned = <<>>
      BY <1>2 DEF IterationInv
    <2>2. IsPrefix(returned, said)
      BY <1>1, <2>1 DEF IsPrefix
    <2> QED
      BY <1>2, <2>2 DEF IterationFaithful, IterationComplete
  <1>3. CASE xr # <<>>
    <2>1. xr.ended /\ ~xr.disturbed => Len(returned) = Len(said)
      BY <1>3, Zenon DEF IterationInv, Stands
    <2>2. PICK R : returned \in Seq(R)
      BY <1>3, Zenon DEF IterationInv, Stands, Repeats
    <2>3. Len(returned) <= Len(said) /\ \A i \in 1 .. Len(returned) : returned[i] = said[i]
      BY <1>3, Zenon DEF IterationInv, Stands, Repeats
    <2> DEFINE T == S \cup R
               n == Len(returned)
    <2>4. said \in Seq(T) /\ returned \in Seq(T)
      <3>1. S \subseteq T /\ R \subseteq T
        OBVIOUS
      <3> QED
        BY <1>1, <2>2, <3>1, SeqMonotonic
    <2> HIDE DEF T
    <2>5. n \in Nat /\ Len(said) \in Nat
      BY <2>4
    <2>6. IsPrefix(returned, said)
      <3> DEFINE left == SubSeq(returned, 1, n)
                 right == SubSeq(said, 1, n)
      <3>1. left \in Seq(T) /\ Len(left) = n /\ \A i \in 1 .. n : left[i] = returned[i]
        BY <2>4, <2>5
      <3>2. right \in Seq(T) /\ Len(right) = n /\ \A i \in 1 .. n : right[i] = said[i]
        BY <2>3, <2>4, <2>5
      <3> HIDE DEF left, right
      <3>3. \A i \in 1 .. n : left[i] = right[i]
        BY <2>3, <3>1, <3>2, Zenon
      <3>4. left = right
        BY <3>1, <3>2, <3>3, SeqEqual
      <3> QED
        BY <2>3, <3>4, Zenon DEF IsPrefix, left, right
    <2>7. Len(returned) = Len(said) => returned = said
      BY <2>3, <2>4, SeqEqual
    <2> QED
      BY <2>1, <2>6, <2>7, Zenon DEF IterationFaithful, IterationComplete
  <1> QED
    BY <1>2, <1>3

(* IterationFaithful: what fstReaderIterateHier returns is what the         *)
(* declaring calls said, in their order, from the first (fstapi.c:2651-2918 *)
(* against 4112-4289). For variables whose type the reader has a case for:  *)
(* it stops at an entry of any other type.                                  *)
THEOREM IterationAlwaysFaithful == TypesKnown => (HierSpec => []IterationFaithful)
  <1> SUFFICES ASSUME TypesKnown PROVE HierSpec => []IterationFaithful
    OBVIOUS
  <1>1. IterationInv /\ [HierNext]_hierVars => IterationInv'
    BY IterationStep
  <1>2. IterationInv => IterationFaithful
    BY IterationSafe
  <1> QED
    BY <1>1, <1>2, IterationInit, PTL DEF HierSpec

(* IterationComplete: an iteration that ends, and that fstReaderProcessHier *)
(* did not move, returned all that was said (fstapi.c:4112-4289), for the   *)
(* same variables.                                                          *)
THEOREM IterationAlwaysComplete == TypesKnown => (HierSpec => []IterationComplete)
  <1> SUFFICES ASSUME TypesKnown PROVE HierSpec => []IterationComplete
    OBVIOUS
  <1>1. IterationInv /\ [HierNext]_hierVars => IterationInv'
    BY IterationStep
  <1>2. IterationInv => IterationComplete
    BY IterationSafe
  <1> QED
    BY <1>1, <1>2, IterationInit, PTL DEF HierSpec

(* Every number of a path was said once, and every stem behind the path it  *)
(* is of.                                                                   *)
PathOf(table, record, p) == table[p] # 0 /\ record.arg = table[p] /\ record.name = Cut(Blanked(p), AttrSiz)
NumberSaid(table, recs, number, n) == \E j \in 1 .. n : IsPath(recs[j]) /\ recs[j].arg = number
OwnNumbers(table) == \A p, q \in Paths : table[p] = table[q] /\ table[p] # 0 => p = q
NumbersSaid(table, recs) == \A p \in Paths : table[p] # 0 => NumberSaid(table, recs, table[p], Len(recs))
PathsNumbered(table, recs) == \A j \in 1 .. Len(recs) : IsPath(recs[j]) => \E p \in Paths : PathOf(table, recs[j], p)
SaidOnce(recs) == \A j, k \in 1 .. Len(recs) : IsPath(recs[j]) /\ IsPath(recs[k]) /\ recs[j].arg = recs[k].arg => j = k
StemSaid(table, recs, s) ==
  /\ s.path \in Paths /\ s.at \in 1 .. Len(recs) /\ table[s.path] # 0
  /\ recs[s.at].arg_from_name = table[s.path] /\ NumberSaid(table, recs, table[s.path], s.at - 1)
StemsSaid(table, recs, sts) == \A i \in 1 .. Len(sts) : StemSaid(table, recs, sts[i])
Numbered(table, recs, sts) ==
  /\ OwnNumbers(table) /\ NumbersSaid(table, recs) /\ PathsNumbered(table, recs) /\ SaidOnce(recs)
  /\ StemsSaid(table, recs, sts)
StemInv ==
  /\ IterationInv /\ (\E S : stems \in Seq(S))
  /\ Numbered(xw.path_array, said, stems)

(* More records: what was said stays said.                                  *)
LEMMA StillSaid ==
  ASSUME NEW table, NEW recs, NEW more, Len(recs) \in Nat, Len(more) = Len(recs) + 1,
         \A i \in 1 .. Len(recs) : more[i] = recs[i], NEW s, StemSaid(table, recs, s),
         NEW new, new[s.path] = table[s.path]
  PROVE  StemSaid(new, more, s)
  <1>1. /\ s.path \in Paths /\ s.at \in 1 .. Len(recs) /\ table[s.path] # 0
        /\ recs[s.at].arg_from_name = table[s.path]
    BY DEF StemSaid
  <1>2. PICK j \in 1 .. s.at - 1 : IsPath(recs[j]) /\ recs[j].arg = table[s.path]
    BY DEF StemSaid, NumberSaid
  <1>3. j \in 1 .. Len(recs) /\ s.at \in 1 .. Len(more)
    BY <1>1
  <1>4. more[j] = recs[j] /\ more[s.at] = recs[s.at]
    BY <1>1, <1>3
  <1>5. NumberSaid(new, more, new[s.path], s.at - 1)
    BY <1>2, <1>4, Zenon DEF NumberSaid
  <1> QED
    BY <1>1, <1>3, <1>4, <1>5, Zenon DEF StemSaid

(* Numbers given to paths stay given when more is said.                     *)
LEMMA StillNumbered ==
  ASSUME NEW table, NEW recs, NEW more, Len(recs) \in Nat, Len(more) = Len(recs) + 1,
         \A i \in 1 .. Len(recs) : more[i] = recs[i], NEW number, NumberSaid(table, recs, number, Len(recs)), NEW new
  PROVE  NumberSaid(new, more, number, Len(more))
  <1>1. PICK j \in 1 .. Len(recs) : IsPath(recs[j]) /\ recs[j].arg = number
    BY DEF NumberSaid
  <1>2. j \in 1 .. Len(more) /\ more[j] = recs[j]
    OBVIOUS
  <1> QED
    BY <1>1, <1>2, Zenon DEF NumberSaid

(* A record that is no path, behind the others.                             *)
LEMMA NumberedMore ==
  ASSUME NEW table, NEW recs, \E S : recs \in Seq(S), NEW sts, Numbered(table, recs, sts), NEW r, ~IsPath(r)
  PROVE  Numbered(table, Append(recs, r), sts)
  <1> DEFINE more == Append(recs, r)
             n == Len(recs)
  <1>1. n \in Nat /\ Len(more) = n + 1 /\ more[n + 1] = r /\ \A i \in 1 .. n : more[i] = recs[i]
    BY AppendedIs
  <1> HIDE DEF more
  <1>2. \A j \in 1 .. Len(more) : IsPath(more[j]) => j \in 1 .. n /\ more[j] = recs[j]
    <2>1. \A j \in 1 .. n + 1 : j \in 1 .. n \/ j = n + 1
      BY <1>1
    <2> QED
      BY <1>1, <2>1, Zenon
  <1>3. OwnNumbers(table) /\ NumbersSaid(table, recs) /\ PathsNumbered(table, recs) /\ SaidOnce(recs) /\ StemsSaid(table, recs, sts)
    BY DEF Numbered
  <1>4. NumbersSaid(table, more)
    <2> SUFFICES ASSUME NEW p \in Paths, table[p] # 0 PROVE NumberSaid(table, more, table[p], Len(more))
      BY Zenon DEF NumbersSaid
    <2>1. NumberSaid(table, recs, table[p], Len(recs))
      BY <1>3, Zenon DEF NumbersSaid
    <2> QED
      BY <1>1, <2>1, StillNumbered
  <1>5. PathsNumbered(table, more)
    BY <1>2, <1>3, Zenon DEF PathsNumbered
  <1>6. SaidOnce(more)
    <2> SUFFICES ASSUME NEW j \in 1 .. Len(more), NEW k \in 1 .. Len(more), IsPath(more[j]), IsPath(more[k]), more[j].arg = more[k].arg
                 PROVE  j = k
      BY Zenon DEF SaidOnce
    <2>1. j \in 1 .. n /\ k \in 1 .. n /\ more[j] = recs[j] /\ more[k] = recs[k]
      BY <1>2, Zenon
    <2>2. IsPath(recs[j]) /\ IsPath(recs[k]) /\ recs[j].arg = recs[k].arg
      BY <2>1, Zenon
    <2> QED
      BY <1>3, <2>1, <2>2, Zenon DEF SaidOnce
  <1>7. StemsSaid(table, more, sts)
    <2> SUFFICES ASSUME NEW i \in 1 .. Len(sts) PROVE StemSaid(table, more, sts[i])
      BY Zenon DEF StemsSaid
    <2>1. StemSaid(table, recs, sts[i])
      BY <1>3, Zenon DEF StemsSaid
    <2> QED
      BY <1>1, <2>1, StillSaid
  <1> QED
    BY <1>3, <1>4, <1>5, <1>6, <1>7, Zenon DEF Numbered, more

(* A path that had no number gets the next one.                             *)
LEMMA NumberedPath ==
  ASSUME NEW table \in [Paths -> Nat], NEW recs, \E S : recs \in Seq(S), NEW sts, Numbered(table, recs, sts),
         NEW path \in Paths, table[path] = 0, NEW n \in Nat \ {0}, \A p \in Paths : table[p] < n,
         NEW r, IsPath(r), r.arg = n, r.name = Cut(Blanked(path), AttrSiz)
  PROVE  Numbered([table EXCEPT ![path] = n], Append(recs, r), sts)
  <1> DEFINE more == Append(recs, r)
             m == Len(recs)
             new == [table EXCEPT ![path] = n]
  <1>1. m \in Nat /\ Len(more) = m + 1 /\ more[m + 1] = r /\ \A i \in 1 .. m : more[i] = recs[i]
    BY AppendedIs
  <1>2. new[path] = n /\ n # 0 /\ \A p \in Paths : p # path => new[p] = table[p]
    OBVIOUS
  <1>3. \A p \in Paths : table[p] # n
    OBVIOUS
  <1> HIDE DEF more, new
  <1>4. OwnNumbers(table) /\ NumbersSaid(table, recs) /\ PathsNumbered(table, recs) /\ SaidOnce(recs) /\ StemsSaid(table, recs, sts)
    BY DEF Numbered
  <1>5. m + 1 \in 1 .. Len(more) /\ \A i \in 1 .. Len(more) : i \in 1 .. m \/ i = m + 1
    BY <1>1
  <1>6. OwnNumbers(new)
    <2> SUFFICES ASSUME NEW p \in Paths, NEW q \in Paths, new[p] = new[q], new[p] # 0 PROVE p = q
      BY Zenon DEF OwnNumbers
    <2>1. CASE p # path /\ q # path
      BY <1>2, <1>4, <2>1, Zenon DEF OwnNumbers
    <2>2. CASE p = path \/ q = path
      BY <1>2, <1>3, <2>2, Zenon
    <2> QED
      BY <2>1, <2>2
  <1>7. NumbersSaid(new, more)
    <2> SUFFICES ASSUME NEW p \in Paths, new[p] # 0 PROVE NumberSaid(new, more, new[p], Len(more))
      BY Zenon DEF NumbersSaid
    <2>1. CASE p = path
      <3>1. IsPath(more[m + 1]) /\ more[m + 1].arg = new[p]
        BY <1>1, <1>2, <2>1, Zenon
      <3> QED
        BY <1>5, <3>1, Zenon DEF NumberSaid
    <2>2. CASE p # path
      <3>1. new[p] = table[p] /\ NumberSaid(table, recs, table[p], Len(recs))
        BY <1>2, <1>4, <2>2, Zenon DEF NumbersSaid
      <3>2. NumberSaid(new, more, table[p], Len(more))
        BY <1>1, <3>1, StillNumbered
      <3> QED
        BY <3>1, <3>2, Zenon
    <2> QED
      BY <2>1, <2>2
  <1>8. ASSUME NEW j \in 1 .. m, IsPath(recs[j]) PROVE recs[j].arg # n /\ \E p \in Paths : PathOf(new, recs[j], p)
    <2>1. PICK p \in Paths : PathOf(table, recs[j], p)
      BY <1>4, <1>8, Zenon DEF PathsNumbered
    <2>2. table[p] # 0 /\ recs[j].arg = table[p] /\ recs[j].name = Cut(Blanked(p), AttrSiz)
      BY <2>1, Zenon DEF PathOf
    <2>3. p # path
      BY <2>2, Zenon
    <2>4. new[p] = table[p] /\ table[p] # n
      BY <1>2, <1>3, <2>3, Zenon
    <2>5. PathOf(new, recs[j], p)
      BY <2>2, <2>4, Zenon DEF PathOf
    <2> QED
      BY <2>2, <2>4, <2>5, Zenon
  <1>9. PathsNumbered(new, more)
    <2> SUFFICES ASSUME NEW j \in 1 .. Len(more), IsPath(more[j]) PROVE \E p \in Paths : PathOf(new, more[j], p)
      BY Zenon DEF PathsNumbered
    <2>1. CASE j \in 1 .. m
      BY <1>1, <1>8, <2>1, Zenon
    <2>2. CASE j = m + 1
      <3>1. PathOf(new, more[j], path)
        BY <1>1, <1>2, <2>2, Zenon DEF PathOf
      <3> QED
        BY <3>1
    <2> QED
      BY <1>5, <2>1, <2>2, Zenon
  <1>10. SaidOnce(more)
    <2> SUFFICES ASSUME NEW j \in 1 .. Len(more), NEW k \in 1 .. Len(more), IsPath(more[j]), IsPath(more[k]), more[j].arg = more[k].arg
                 PROVE  j = k
      BY Zenon DEF SaidOnce
    <2>1. ASSUME j \in 1 .. m, k \in 1 .. m PROVE j = k
      <3>1. more[j] = recs[j] /\ more[k] = recs[k]
        BY <1>1, <2>1, Zenon
      <3>2. IsPath(recs[j]) /\ IsPath(recs[k]) /\ recs[j].arg = recs[k].arg
        BY <3>1, Zenon
      <3> QED
        BY <1>4, <2>1, <3>2, Zenon DEF SaidOnce
    <2>2. \A i \in 1 .. m : IsPath(more[i]) => more[i].arg # n
      BY <1>1, <1>8, Zenon
    <2>3. more[m + 1].arg = n
      BY <1>1, Zenon
    <2> QED
      BY <1>5, <2>1, <2>2, <2>3, Zenon
  <1>11. StemsSaid(new, more, sts)
    <2> SUFFICES ASSUME NEW i \in 1 .. Len(sts) PROVE StemSaid(new, more, sts[i])
      BY Zenon DEF StemsSaid
    <2>1. StemSaid(table, recs, sts[i])
      BY <1>4, Zenon DEF StemsSaid
    <2>2. sts[i].path \in Paths /\ sts[i].path # path
      BY <2>1, Zenon DEF StemSaid
    <2>3. new[sts[i].path] = table[sts[i].path]
      BY <1>2, <2>2, Zenon
    <2> QED
      BY <1>1, <2>1, <2>3, StillSaid
  <1> QED
    BY <1>6, <1>7, <1>9, <1>10, <1>11, Zenon DEF Numbered, more, new

(* A stem behind its path.                                                  *)
LEMMA NumberedStem ==
  ASSUME NEW table, NEW recs, \E S : recs \in Seq(S), NEW sts, \E S : sts \in Seq(S), Numbered(table, recs, sts),
         NEW path \in Paths, table[path] # 0, NEW r, ~IsPath(r), r.arg_from_name = table[path],
         NEW s, s.at = Len(recs) + 1, s.path = path
  PROVE  Numbered(table, Append(recs, r), Append(sts, s))
  <1> DEFINE more == Append(recs, r)
             all == Append(sts, s)
             m == Len(sts)
             n == Len(recs)
  <1>1. n \in Nat /\ Len(more) = n + 1 /\ more[n + 1] = r /\ \A i \in 1 .. n : more[i] = recs[i]
    BY AppendedIs
  <1>2. m \in Nat /\ Len(all) = m + 1 /\ all[m + 1] = s /\ \A i \in 1 .. m : all[i] = sts[i]
    BY AppendedIs
  <1>3. Numbered(table, more, sts)
    BY NumberedMore
  <1> HIDE DEF all
  <1>4. NumberSaid(table, recs, table[path], n)
    BY Zenon DEF Numbered, NumbersSaid
  <1>5. StemSaid(table, more, s)
    <2>1. s.at - 1 = n /\ s.at \in 1 .. Len(more) /\ \A j \in 1 .. n : more[j] = recs[j]
      BY <1>1
    <2>2. more[s.at].arg_from_name = table[path]
      BY <1>1
    <2> HIDE DEF more, n
    <2>3. NumberSaid(table, more, table[path], n)
      BY <1>4, <2>1, Zenon DEF NumberSaid
    <2> QED
      BY <2>1, <2>2, <2>3, Zenon DEF StemSaid
  <1>6. StemsSaid(table, more, all)
    <2> SUFFICES ASSUME NEW i \in 1 .. Len(all) PROVE StemSaid(table, more, all[i])
      BY Zenon DEF StemsSaid
    <2>1. i \in 1 .. m \/ i = m + 1
      BY <1>2
    <2>2. \A k \in 1 .. m : StemSaid(table, more, sts[k])
      BY <1>3, Zenon DEF Numbered, StemsSaid
    <2> QED
      BY <1>2, <1>5, <2>1, <2>2, Zenon
  <1> HIDE DEF more
  <1> QED
    BY <1>3, <1>6, Zenon DEF Numbered, more, all

(* No path has a number at first.                                           *)
LEMMA StemInit == HierInit => StemInv
  <1> SUFFICES ASSUME HierInit PROVE StemInv
    OBVIOUS
  <1>1. said = <<>> /\ stems = <<>> /\ \A p \in Paths : xw.path_array[p] = 0
    BY DEF HierInit, Paths
  <1>2. (\E S : stems \in Seq(S)) /\ \A i \in 1 .. Len(<<>>) : FALSE
    BY <1>1
  <1>3. Numbered(xw.path_array, said, stems)
    BY <1>1, <1>2, Zenon DEF Numbered, OwnNumbers, NumbersSaid, PathsNumbered, SaidOnce, StemsSaid
  <1> QED
    BY <1>2, <1>3, IterationInit DEF StemInv

(* Every step keeps the numbers of paths unique, and each stem behind its   *)
(* path.                                                                    *)
LEMMA StemStep == TypesKnown /\ StemInv /\ [HierNext]_hierVars => StemInv'
  <1> SUFFICES ASSUME TypesKnown, StemInv, [HierNext]_hierVars PROVE StemInv'
    OBVIOUS
  <1>1. IterationInv' /\ HierType /\ (\E S : said \in Seq(S)) /\ (\E S : stems \in Seq(S))
        /\ Numbered(xw.path_array, said, stems)
    BY IterationStep DEF StemInv, IterationInv, HierType
  <1>2. /\ xw.path_array \in [Paths -> Nat] /\ xw.path_array_count \in Nat
        /\ \A p \in Paths : xw.path_array[p] < xw.path_array_count + 1
    <2>1. /\ xw \in Counters /\ xw.path_array_count \in Nat
          /\ \A p \in Paths : xw.path_array[p] \in Nat /\ xw.path_array[p] <= xw.path_array_count
      BY <1>1, SameCounters
    <2>2. xw.path_array \in [Paths -> Nat]
      BY <2>1 DEF Counters
    <2> QED
      BY <2>1, <2>2
  <1>3. ASSUME UNCHANGED <<xw, said, stems>> PROVE StemInv'
    BY <1>1, <1>3, Zenon DEF StemInv
  <1>4. ASSUME NEW e, NEW w, AddsOne(e, w) PROVE StemInv'
    <2>1. WritesOne(e, w) /\ w.path_array = xw.path_array /\ stems' = stems /\ ~IsPath(e.record)
      BY <1>4, Zenon DEF AddsOne, SamePaths
    <2>2. said' = Append(said, e.record) /\ xw'.path_array = w.path_array
      BY <1>1, <2>1, AfterOne, Zenon
    <2> DEFINE r == e.record
               table == xw.path_array
    <2>3. ~IsPath(r) /\ Numbered(table, said, stems) /\ \E S : said \in Seq(S)
      BY <1>1, <2>1
    <2> HIDE DEF r, table
    <2>4. Numbered(table, Append(said, r), stems)
      BY <2>3, NumberedMore
    <2> QED
      BY <1>1, <2>1, <2>2, <2>4, Zenon DEF StemInv, r, table
  <1>5. ASSUME NEW d, NEW e, NEW w, AddsTwo(d, e, w) PROVE StemInv'
    <2>1. WritesTwo(d, e, w) /\ w.path_array = xw.path_array /\ stems' = stems /\ ~IsPath(d.record) /\ ~IsPath(e.record)
      BY <1>5, Zenon DEF AddsTwo, SamePaths
    <2>2. said' = Append(Append(said, d.record), e.record) /\ xw'.path_array = w.path_array
      BY <1>1, <2>1, AfterTwo, Zenon
    <2> DEFINE r == d.record
               q == e.record
               table == xw.path_array
               recs == Append(said, r)
    <2>3. ~IsPath(r) /\ ~IsPath(q) /\ Numbered(table, said, stems) /\ \E S : said \in Seq(S)
      BY <1>1, <2>1
    <2> HIDE DEF r, q, table
    <2>4. Numbered(table, recs, stems)
      BY <2>3, NumberedMore
    <2>5. \E S : recs \in Seq(S)
      BY <2>3, AppendedIs
    <2> HIDE DEF recs
    <2>6. Numbered(table, Append(recs, q), stems)
      BY <2>3, <2>4, <2>5, NumberedMore
    <2> QED
      BY <1>1, <2>1, <2>2, <2>6, Zenon DEF StemInv, r, q, table, recs
  <1>6. ASSUME NEW s \in Stems, NEW e, NEW w, StemOne(s, e, w) PROVE StemInv'
    <2> DEFINE r == e.record
               table == xw.path_array
               path == s.path
               stem == [at |-> Len(said) + 1, path |-> path]
    <2>1. WritesOne(e, w) /\ w = xw /\ table[path] # 0 /\ ~IsPath(r) /\ r.arg_from_name = table[path] /\ stems' = Append(stems, stem)
      BY <1>6, Zenon DEF StemOne
    <2>2. said' = Append(said, r) /\ xw'.path_array = table
      <3>1. said' = Append(said, e.record) /\ xw'.path_array = w.path_array
        BY <1>1, <2>1, AfterOne, Zenon
      <3> QED
        BY <2>1, <3>1, Zenon
    <2>3. path \in Paths /\ stem.at = Len(said) + 1 /\ stem.path = path
      BY DEF Paths
    <2>4. /\ Numbered(table, said, stems) /\ (\E S : said \in Seq(S)) /\ (\E S : stems \in Seq(S))
          /\ path \in Paths /\ table[path] # 0 /\ ~IsPath(r) /\ r.arg_from_name = table[path]
          /\ stem.at = Len(said) + 1 /\ stem.path = path
      BY <1>1, <2>1, <2>3
    <2> HIDE DEF r, table, path, stem
    <2>5. Numbered(table, Append(said, r), Append(stems, stem))
      BY <2>4, NumberedStem
    <2>6. \E S : Append(stems, stem) \in Seq(S)
      BY <2>4, AppendedIs
    <2> QED
      BY <1>1, <2>1, <2>2, <2>5, <2>6, Zenon DEF StemInv
  <1>7. ASSUME NEW s \in Stems, NEW d, NEW e, NEW w, StemTwo(s, d, e, w) PROVE StemInv'
    <2> DEFINE r == d.record
               q == e.record
               table == xw.path_array
               path == s.path
               n == xw.path_array_count + 1
               new == [table EXCEPT ![path] = n]
               recs == Append(said, r)
               stem == [at |-> Len(said) + 2, path |-> path]
    <2>1. /\ WritesTwo(d, e, w) /\ table[path] = 0 /\ w.path_array = new /\ stems' = Append(stems, stem)
          /\ IsPath(r) /\ r.arg = n /\ r.name = Cut(Blanked(path), AttrSiz)
          /\ ~IsPath(q) /\ q.arg_from_name = n
      BY <1>7, Zenon DEF StemTwo
    <2>2. said' = Append(recs, q) /\ xw'.path_array = new
      <3>1. HierType /\ WritesTwo(d, e, w) /\ w.path_array = new
        BY <1>1, <2>1, Zenon
      <3> HIDE DEF r, q, table, path, n, new, stem
      <3>2. said' = Append(Append(said, d.record), e.record) /\ xw'.path_array = w.path_array
        BY <3>1, AfterTwo, Zenon
      <3> QED
        BY <3>1, <3>2, Zenon DEF r, q, recs
    <2>3. /\ (\E S : recs \in Seq(S)) /\ Len(recs) = Len(said) + 1 /\ Len(said) \in Nat
      BY <1>1, AppendedIs
    <2>4. path \in Paths /\ stem.at = Len(said) + 2 /\ stem.path = path
      BY DEF Paths
    <2>5. /\ table \in [Paths -> Nat] /\ Numbered(table, said, stems) /\ (\E S : said \in Seq(S)) /\ (\E S : stems \in Seq(S))
          /\ path \in Paths /\ table[path] = 0 /\ n \in Nat \ {0} /\ (\A p \in Paths : table[p] < n)
          /\ IsPath(r) /\ r.arg = n /\ r.name = Cut(Blanked(path), AttrSiz)
      BY <1>1, <1>2, <2>1, <2>4
    <2>6. new[path] = n /\ n # 0
      BY <2>5
    <2>7. stem.at = Len(recs) + 1
      BY <2>3, <2>4
    <2> HIDE DEF r, q, table, path, n, stem
    <2>8. Numbered(new, recs, stems)
      BY <2>5, NumberedPath
    <2>9. /\ Numbered(new, recs, stems) /\ (\E S : recs \in Seq(S)) /\ (\E S : stems \in Seq(S)) /\ path \in Paths
          /\ new[path] # 0 /\ ~IsPath(q) /\ q.arg_from_name = new[path] /\ stem.at = Len(recs) + 1 /\ stem.path = path
      BY <2>1, <2>3, <2>4, <2>5, <2>6, <2>7, <2>8, Zenon
    <2> HIDE DEF new, recs
    <2>10. Numbered(new, Append(recs, q), Append(stems, stem))
      BY <2>9, NumberedStem
    <2>11. \E S : Append(stems, stem) \in Seq(S)
      BY <2>5, AppendedIs
    <2> QED
      BY <1>1, <2>1, <2>2, <2>10, <2>11, Zenon DEF StemInv
  <1>8. CASE UNCHANGED hierVars
    BY <1>3, <1>8, Zenon DEF hierVars
  <1>9. CASE HierNext
    BY <1>1, <1>3, <1>4, <1>5, <1>6, <1>7, <1>9, StepWrites, Zenon
  <1> QED
    BY <1>8, <1>9

(* A stem that was returned has one path with its number, returned in front *)
(* of it.                                                                   *)
LEMMA StemSafe == StemInv => StemsResolve
  <1> SUFFICES ASSUME StemInv, NEW i \in 1 .. Len(stems), stems[i].at <= Len(returned)
               PROVE  LET paths == {j \in 1 .. Len(returned) :
                                      returned[j].htyp = "attrbegin" /\ returned[j].typ = FST_AT_MISC
                                      /\ returned[j].subtype = Misc.PATHNAME
                                      /\ returned[j].arg = returned[stems[i].at].arg_from_name}
                      IN \E j \in paths : /\ paths = {j} /\ j < stems[i].at
                                          /\ returned[j].name = Cut(Blanked(stems[i].path), AttrSiz)
    BY Zenon DEF StemsResolve
  <1> DEFINE n == Len(returned)
             at == stems[i].at
             path == stems[i].path
             table == xw.path_array
             paths == {j \in 1 .. n : returned[j].htyp = "attrbegin" /\ returned[j].typ = FST_AT_MISC
                                      /\ returned[j].subtype = Misc.PATHNAME /\ returned[j].arg = returned[at].arg_from_name}
  <1>1. Numbered(table, said, stems) /\ IterationInv /\ \E S : said \in Seq(S)
    BY DEF StemInv, IterationInv, HierType
  <1>2. StemSaid(table, said, stems[i])
    BY <1>1, Zenon DEF Numbered, StemsSaid
  <1>3. /\ path \in Paths /\ at \in 1 .. Len(said) /\ table[path] # 0
        /\ said[at].arg_from_name = table[path] /\ NumberSaid(table, said, table[path], at - 1)
    BY <1>2, Zenon DEF StemSaid
  <1>4. Len(said) \in Nat
    BY <1>1, AppendedIs
  <1>5. n \in Nat /\ n <= Len(said) /\ \A j \in 1 .. n : returned[j] = said[j]
    <2>1. CASE xr = <<>>
      <3>1. returned = <<>>
        BY <1>1, <2>1 DEF IterationInv
      <3>2. n = 0
        BY <3>1
      <3> QED
        BY <1>4, <3>2
    <2>2. CASE xr # <<>>
      <3>1. Repeats
        BY <1>1, <2>2, Zenon DEF IterationInv, Stands
      <3>2. (\E S : returned \in Seq(S)) /\ n <= Len(said) /\ \A j \in 1 .. n : returned[j] = said[j]
        BY <3>1, Zenon DEF Repeats
      <3>3. n \in Nat
        BY <3>2, AppendedIs
      <3> QED
        BY <3>2, <3>3, Zenon
    <2> QED
      BY <2>1, <2>2
  <1>6. at <= n
    OBVIOUS
  <1> HIDE DEF n, at, path, table
  <1>7. PICK j \in 1 .. at - 1 : IsPath(said[j]) /\ said[j].arg = table[path]
    BY <1>3, Zenon DEF NumberSaid
  <1>8. at \in 1 .. n /\ j \in 1 .. n /\ j < at /\ \A k \in 1 .. n : k \in 1 .. Len(said)
    BY <1>3, <1>4, <1>5, <1>6, <1>7
  <1>9. returned[at] = said[at] /\ returned[j] = said[j]
    BY <1>5, <1>8, Zenon
  <1>10. j \in paths
    <2>1. /\ returned[j].htyp = "attrbegin" /\ returned[j].typ = FST_AT_MISC
          /\ returned[j].subtype = Misc.PATHNAME /\ returned[j].arg = returned[at].arg_from_name
      BY <1>3, <1>7, <1>9, Zenon DEF IsPath
    <2> QED
      BY <1>8, <2>1
  <1>11. ASSUME NEW k \in paths PROVE k = j
    <2>1. k \in 1 .. n /\ IsPath(returned[k]) /\ returned[k].arg = returned[at].arg_from_name
      BY <1>11, Zenon DEF IsPath
    <2>2. returned[k] = said[k] /\ k \in 1 .. Len(said) /\ j \in 1 .. Len(said)
      BY <1>5, <1>8, <2>1, Zenon
    <2>3. IsPath(said[k]) /\ IsPath(said[j]) /\ said[k].arg = said[j].arg
      BY <1>3, <1>7, <1>9, <2>1, <2>2, Zenon
    <2>4. SaidOnce(said)
      BY <1>1, Zenon DEF Numbered
    <2> QED
      BY <2>2, <2>3, <2>4, Zenon DEF SaidOnce
  <1>12. returned[j].name = Cut(Blanked(path), AttrSiz)
    <2>1. j \in 1 .. Len(said)
      BY <1>8, Zenon
    <2>2. PICK p \in Paths : PathOf(table, said[j], p)
      BY <1>1, <1>7, <2>1, Zenon DEF Numbered, PathsNumbered
    <2>3. table[p] # 0 /\ said[j].arg = table[p] /\ said[j].name = Cut(Blanked(p), AttrSiz)
      BY <2>2, Zenon DEF PathOf
    <2>4. p = path
      BY <1>1, <1>3, <1>7, <2>3, Zenon DEF Numbered, OwnNumbers
    <2> QED
      BY <1>9, <2>3, <2>4, Zenon
  <1>13. paths = {j}
    <2> HIDE DEF paths
    <2> QED
      BY <1>10, <1>11
  <1>14. j \in paths /\ paths = {j} /\ j < at /\ returned[j].name = Cut(Blanked(path), AttrSiz)
    BY <1>8, <1>10, <1>12, <1>13, Zenon
  <1> QED
    BY <1>14, Zenon DEF n, at, path

(* StemsResolve: the number in a source stem that is returned is the one of *)
(* exactly one path attribute returned before it, whose name is the path of *)
(* the call (fstapi.c:2377-2441), for variables of the types the reader has *)
(* a case for.                                                              *)
THEOREM StemsAlwaysResolve == TypesKnown => (HierSpec => []StemsResolve)
  <1> SUFFICES ASSUME TypesKnown PROVE HierSpec => []StemsResolve
    OBVIOUS
  <1>1. StemInv /\ [HierNext]_hierVars => StemInv'
    BY StemStep
  <1> QED
    BY <1>1, StemInit, StemSafe, PTL DEF HierSpec
=============================================================================
