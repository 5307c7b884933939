----------------------------- MODULE Induction ------------------------------
(***************************************************************************)
(* Induction over the natural numbers in the form the proofs use it: for a *)
(* set of numbers instead of an operator, and from it that two functions   *)
(* which satisfy the same recursive equation on 0 .. n agree there, that a *)
(* recursion has a solution, and the same for folds over 1 .. n.           *)
(***************************************************************************)
EXTENDS Integers, WellFoundedInduction, FiniteSetsExt, TLAPS

(* A set of natural numbers has a least element.                            *)
LEMMA LeastElement ==
  ASSUME NEW S \in SUBSET Nat, S # {}
  PROVE  \E x \in S : \A y \in S : x <= y
  <1> DEFINE R == OpToRel(<, Nat)
  <1>1. IsWellFoundedOn(R, Nat)
    BY NatLessThanWellFounded, Zenon
  <1>2. \A x, y \in Nat : y < x => <<y, x>> \in R
    BY DEF OpToRel
  <1> HIDE DEF R
  <1>3. PICK x \in S : \A y \in S : <<y, x>> \notin R
    BY <1>1, WFMin
  <1>4. ASSUME NEW y \in S PROVE x <= y
    <2>1. x \in Nat /\ y \in Nat /\ ~(y < x)
      BY <1>2, <1>3
    <2> QED
      BY <2>1
  <1> QED
    BY <1>3, <1>4

(* Induction, for a set.                                                     *)
LEMMA SetInduction ==
  ASSUME NEW S \in SUBSET Nat, 0 \in S, \A k \in S : k + 1 \in S
  PROVE  S = Nat
  <1> SUFFICES ASSUME Nat \ S # {} PROVE FALSE
    OBVIOUS
  <1>1. Nat \ S \in SUBSET Nat
    OBVIOUS
  <1>2. PICK x \in Nat \ S : \A y \in Nat \ S : x <= y
    BY <1>1, LeastElement
  <1>3. x - 1 \in S
    BY <1>2
  <1> QED
    BY <1>2, <1>3

(* The same for the numbers up to n.                                        *)
LEMMA BoundedInduction ==
  ASSUME NEW n \in Nat, NEW S, 0 \in S, \A k \in 1 .. n : k - 1 \in S => k \in S
  PROVE  0 .. n \subseteq S
  <1> DEFINE T == {k \in Nat : k <= n => k \in S}
  <1>1. T \in SUBSET Nat /\ 0 \in T
    OBVIOUS
  <1>2. ASSUME NEW k \in T PROVE k + 1 \in T
    <2>1. CASE k + 1 <= n
      <3>1. k + 1 \in 1 .. n /\ (k + 1) - 1 \in S
        BY <2>1
      <3> QED
        BY <3>1
    <2> QED
      BY <2>1
  <1> HIDE DEF T
  <1>3. T = Nat
    BY <1>1, <1>2, SetInduction
  <1> QED
    BY <1>3 DEF T

(* Induction from all smaller numbers.                                      *)
LEMMA StrongInduction ==
  ASSUME NEW S, \A v \in Nat : (\A u \in 0 .. v - 1 : u \in S) => v \in S
  PROVE  \A v \in Nat : v \in S
  <1> DEFINE T == {v \in Nat : v \notin S}
  <1> SUFFICES ASSUME T # {} PROVE FALSE
    OBVIOUS
  <1>1. T \in SUBSET Nat
    OBVIOUS
  <1>2. PICK v \in T : \A u \in T : v <= u
    BY <1>1, LeastElement
  <1>3. v \in Nat /\ v \notin S /\ \A u \in 0 .. v - 1 : u \in S
    BY <1>2
  <1> QED
    BY <1>3

(* Functions that start equal, and stay equal where they were, are equal.   *)
Alike(f, g, n) ==
  f[0] = g[0] /\ \A k \in 1 .. n : f[k - 1] = g[k - 1] => f[k] = g[k]
(* Two functions with the same recursive equation agree.                    *)
LEMMA SameRecursion ==
  ASSUME NEW n \in Nat, NEW f, NEW g, Alike(f, g, n)
  PROVE  \A k \in 0 .. n : f[k] = g[k]
  <1> DEFINE S == {k \in Nat : f[k] = g[k]}
  <1>1. 0 \in S
    BY DEF Alike
  <1>2. ASSUME NEW k \in 1 .. n, k - 1 \in S PROVE k \in S
    BY <1>2 DEF Alike
  <1> HIDE DEF S
  <1>3. 0 .. n \subseteq S
    BY <1>1, <1>2, BoundedInduction
  <1> QED
    BY <1>3 DEF S

----------------------------------------------------------------------------
(* A recursion over 0 .. n has a solution: step[k] takes the value at k - 1 *)
(* to the one at k.                                                         *)
Recurs(f, A, base, step, n) ==
  f \in [0 .. n -> A] /\ f[0] = base /\ \A k \in 1 .. n : f[k] = step[k][f[k - 1]]
(* A recursive equation has a solution.                                     *)
LEMMA RecursionExists ==
  ASSUME NEW n \in Nat, NEW A, NEW base \in A, NEW step \in [1 .. n -> [A -> A]]
  PROVE  \E f : Recurs(f, A, base, step, n)
  <1> DEFINE Has(m) == \E f : Recurs(f, A, base, step, m)
             S == {m \in 0 .. n : Has(m)}
  <1>1. Has(0)
    <2> DEFINE f == [k \in 0 .. 0 |-> base]
    <2>1. Recurs(f, A, base, step, 0)
      BY DEF Recurs
    <2> QED
      BY <2>1
  <1>2. ASSUME NEW m \in 1 .. n, Has(m - 1) PROVE Has(m)
    <2>1. PICK f : Recurs(f, A, base, step, m - 1)
      BY <1>2
    <2> DEFINE g == [k \in 0 .. m |-> IF k = m THEN step[m][f[m - 1]] ELSE f[k]]
    <2>2. f[m - 1] \in A /\ step[m] \in [A -> A]
      BY <2>1 DEF Recurs
    <2>3. step[m][f[m - 1]] \in A
      BY <2>2
    <2>4. \A k \in 0 .. m - 1 : f[k] \in A /\ k # m /\ k \in 0 .. m
      BY <2>1 DEF Recurs
    <2>5. g \in [0 .. m -> A]
      BY <2>3, <2>4
    <2>6. \A k \in 0 .. m - 1 : g[k] = f[k]
      BY <2>4
    <2>7. g[m] = step[m][f[m - 1]]
      OBVIOUS
    <2> HIDE DEF g
    <2>8. g[0] = base
      BY <2>1, <2>6 DEF Recurs
    <2>9. ASSUME NEW k \in 1 .. m PROVE g[k] = step[k][g[k - 1]]
      <3>1. k - 1 \in 0 .. m - 1 /\ (k = m \/ (k \in 0 .. m - 1 /\ k \in 1 .. m - 1))
        OBVIOUS
      <3>2. g[k - 1] = f[k - 1]
        BY <2>6, <3>1
      <3>3. CASE k = m
        BY <2>7, <3>2, <3>3
      <3>4. CASE k \in 1 .. m - 1
        BY <2>1, <2>6, <3>1, <3>2, <3>4 DEF Recurs
      <3> QED
        BY <3>1, <3>3, <3>4
    <2>10. Recurs(g, A, base, step, m)
      BY <2>5, <2>8, <2>9 DEF Recurs
    <2> QED
      BY <2>10
  <1> HIDE DEF Has
  <1>3. 0 \in S /\ \A k \in 1 .. n : k - 1 \in S => k \in S
    BY <1>1, <1>2
  <1> HIDE DEF S
  <1>4. n \in S
    <2>1. 0 .. n \subseteq S
      BY <1>3, BoundedInduction
    <2> QED
      BY <2>1
  <1> QED
    BY <1>4 DEF S, Has

(* A fold over the numbers 1 .. n, from the least to the greatest, as the   *)
(* community modules write it: a function of all sets of them.              *)
Folds(F, base, step, n) ==
  F = [s \in SUBSET (1 .. n) |-> IF s = {} THEN base ELSE step[Max(s)][F[s \ {Max(s)}]]]

(* The greatest of them is one.                                            *)
LEMMA MaxIsIn ==
  ASSUME NEW n \in Nat, NEW s \in SUBSET (1 .. n), s # {}
  PROVE  Max(s) \in s /\ \A y \in s : Max(s) >= y
  <1> DEFINE T == {k \in Nat : n - k \in s}
  <1>1. T \in SUBSET Nat /\ T # {}
    <2>1. PICK x \in s : TRUE
      OBVIOUS
    <2>2. n - x \in Nat /\ n - (n - x) = x
      BY <2>1
    <2> QED
      BY <2>1, <2>2
  <1>2. PICK k \in T : \A j \in T : k <= j
    BY <1>1, LeastElement
  <1>3. n - k \in s /\ \A y \in s : n - k >= y
    <2>1. ASSUME NEW y \in s PROVE n - k >= y
      <3>1. n - y \in Nat /\ n - (n - y) = y
        OBVIOUS
      <3>2. k <= n - y
        BY <1>2, <3>1
      <3> QED
        BY <1>2, <3>1, <3>2
    <2> QED
      BY <1>2, <2>1
  <1>4. \E x : x \in s /\ \A y \in s : x >= y
    BY <1>3
  <1>5. Max(s) = CHOOSE x : x \in s /\ \A y \in s : x >= y
    BY DEF Max
  <1> QED
    BY <1>4, <1>5, Zenon

(* The greatest of 1 .. n is n.                                            *)
LEMMA MaxOfUpTo ==
  ASSUME NEW n \in Nat, n > 0
  PROVE  Max(1 .. n) = n
  <1>1. Max(1 .. n) \in 1 .. n /\ Max(1 .. n) >= n
    <2>1. 1 .. n \in SUBSET (1 .. n) /\ 1 .. n # {} /\ n \in 1 .. n
      OBVIOUS
    <2> QED
      BY <2>1, MaxIsIn, Zenon
  <1> QED
    BY <1>1

(* The sets 1 .. k, as a fold goes through them.                            *)
LEMMA FrontSets ==
  ASSUME NEW n \in Nat
  PROVE  /\ 1 .. 0 = {} /\ {} \in SUBSET (1 .. n)
         /\ \A k \in 1 .. n : /\ 1 .. k \in SUBSET (1 .. n) /\ 1 .. k # {}
                              /\ Max(1 .. k) = k /\ (1 .. k) \ {k} = 1 .. (k - 1)
  <1>1. 1 .. 0 = {} /\ {} \in SUBSET (1 .. n)
    OBVIOUS
  <1>2. ASSUME NEW k \in 1 .. n
        PROVE  /\ 1 .. k \in SUBSET (1 .. n) /\ 1 .. k # {}
               /\ Max(1 .. k) = k /\ (1 .. k) \ {k} = 1 .. (k - 1)
    <2>1. k \in Nat /\ k > 0 /\ k \in 1 .. k
      OBVIOUS
    <2>2. 1 .. k \in SUBSET (1 .. n) /\ (1 .. k) \ {k} = 1 .. (k - 1)
      OBVIOUS
    <2>3. Max(1 .. k) = k
      BY <2>1, MaxOfUpTo, Zenon
    <2> QED
      BY <2>1, <2>2, <2>3, Zenon
  <1> QED
    BY <1>1, <1>2, Zenon

(* Such a function exists.                                                  *)
LEMMA FoldsExist ==
  ASSUME NEW n \in Nat, NEW A, NEW base \in A, NEW step \in [1 .. n -> [A -> A]]
  PROVE  \E F \in [SUBSET (1 .. n) -> A] : Folds(F, base, step, n)
  <1> DEFINE Fits(F, m) == F \in [SUBSET (1 .. m) -> A] /\ Folds(F, base, step, m)
             Has(m) == \E F : Fits(F, m)
             S == {m \in 0 .. n : Has(m)}
  <1>1. Has(0)
    <2> DEFINE F == [s \in SUBSET (1 .. 0) |-> base]
    <2>1. \A s \in SUBSET (1 .. 0) : s = {}
      OBVIOUS
    <2>2. F = [s \in SUBSET (1 .. 0) |->
                 IF s = {} THEN base ELSE step[Max(s)][F[s \ {Max(s)}]]]
      BY <2>1, Zenon
    <2>3. F \in [SUBSET (1 .. 0) -> A]
      OBVIOUS
    <2>4. Fits(F, 0)
      BY <2>2, <2>3, Zenon DEF Folds
    <2> QED
      BY <2>4
  <1>2. ASSUME NEW m \in 1 .. n, Has(m - 1) PROVE Has(m)
    <2>1. PICK F : Fits(F, m - 1)
      BY <1>2
    <2> DEFINE T == SUBSET (1 .. m)
               U == SUBSET (1 .. m - 1)
               G == [s \in T |-> IF m \in s THEN step[m][F[s \ {m}]] ELSE F[s]]
    <2>2. step[m] \in [A -> A] /\ F \in [U -> A]
      BY <2>1
    <2>3. \A s \in T : /\ m \in s => s \ {m} \in U
                       /\ m \notin s => s \in U
                       /\ s \ {m} \in T
      OBVIOUS
    <2>4. U \subseteq T /\ \A s \in U : m \notin s
      OBVIOUS
    <2>5. F = [s \in U |-> IF s = {} THEN base ELSE step[Max(s)][F[s \ {Max(s)}]]]
      BY <2>1, Zenon DEF Folds
    <2>6. ASSUME NEW s \in T, m \in s PROVE Max(s) = m
      <3>1. Max(s) \in 1 .. m /\ Max(s) >= m
        <4>1. s \in SUBSET (1 .. m) /\ s # {} /\ m \in Nat
          BY <2>6
        <4> QED
          BY <2>6, <4>1, MaxIsIn, Zenon
      <3> QED
        BY <3>1
    <2>7. \A s \in U : s \ {Max(s)} \in U
      OBVIOUS
    <2> HIDE DEF T, U
    <2>8. G \in [T -> A]
      <3>1. \A s \in T : m \in s => step[m][F[s \ {m}]] \in A
        BY <2>2, <2>3
      <3>2. \A s \in T : m \notin s => F[s] \in A
        BY <2>2, <2>3
      <3> QED
        BY <3>1, <3>2
    <2>9. \A s \in T : G[s] = IF m \in s THEN step[m][F[s \ {m}]] ELSE F[s]
      OBVIOUS
    <2>10. \A s \in U : G[s] = F[s]
      BY <2>4, <2>9, Zenon
    <2> HIDE DEF G
    <2>11. ASSUME NEW s \in T
           PROVE  G[s] = IF s = {} THEN base ELSE step[Max(s)][G[s \ {Max(s)}]]
      <3>1. CASE m \in s
        <4>1. G[s \ {m}] = F[s \ {m}]
          BY <2>3, <2>10, <3>1, Zenon
        <4> QED
          BY <2>6, <2>9, <3>1, <4>1, Zenon
      <3>2. CASE m \notin s
        <4>1. s \in U
          BY <2>3, <3>2, Zenon
        <4>2. G[s] = F[s] /\ G[s \ {Max(s)}] = F[s \ {Max(s)}]
          BY <2>7, <2>10, <4>1, Zenon
        <4>3. F[s] = IF s = {} THEN base ELSE step[Max(s)][F[s \ {Max(s)}]]
          BY <2>5, <4>1, Zenon
        <4> QED
          BY <4>2, <4>3, Zenon
      <3> QED
        BY <3>1, <3>2
    <2>12. G = [s \in T |-> G[s]]
      BY <2>8
    <2>13. Folds(G, base, step, m)
      BY <2>11, <2>12, Zenon DEF Folds, T
    <2>14. Fits(G, m)
      BY <2>8, <2>13, Zenon DEF T
    <2> QED
      BY <2>14
  <1> HIDE DEF Has
  <1>3. 0 \in S /\ \A k \in 1 .. n : k - 1 \in S => k \in S
    BY <1>1, <1>2
  <1> HIDE DEF S
  <1>4. n \in S
    <2>1. 0 .. n \subseteq S
      BY <1>3, BoundedInduction
    <2> QED
      BY <2>1
  <1> QED
    BY <1>4, Zenon DEF S, Has

(* A property of the first value that every step keeps holds of all.        *)
LEMMA RecursionKeeps ==
  ASSUME NEW n \in Nat, NEW S, NEW f,
         f[0] \in S, \A k \in 1 .. n : f[k - 1] \in S => f[k] \in S
  PROVE  \A k \in 0 .. n : f[k] \in S
  <1> DEFINE T == {k \in Nat : f[k] \in S}
  <1>1. 0 \in T /\ \A k \in 1 .. n : k - 1 \in T => k \in T
    OBVIOUS
  <1> HIDE DEF T
  <1>2. 0 .. n \subseteq T
    BY <1>1, BoundedInduction
  <1> QED
    BY <1>2 DEF T

----------------------------------------------------------------------------
(* A recursion that goes down has a solution on all numbers: at a number    *)
(* that does not stop it, step takes the value at a smaller one.            *)
Descends(f, D, stop, base, step, pred) ==
  \A v \in D : f[v] = IF v \in stop THEN base[v] ELSE step[v][f[pred[v]]]
GoesDown(stop, pred) == \A v \in Nat \ stop : pred[v] \in Nat /\ pred[v] < v
(* Two solutions agree where both are defined.                              *)
LEMMA DescentUnique ==
  ASSUME NEW stop, NEW base, NEW step, NEW pred, GoesDown(stop, pred),
         NEW m \in Nat, NEW k \in Nat, NEW f, NEW g,
         Descends(f, 0 .. m, stop, base, step, pred), Descends(g, 0 .. k, stop, base, step, pred),
         NEW w \in (0 .. m) \cap (0 .. k)
  PROVE  f[w] = g[w]
  <1> DEFINE S == {v \in (0 .. m) \cap (0 .. k) : f[v] # g[v]}
  <1> SUFFICES ASSUME S # {} PROVE FALSE
    OBVIOUS
  <1>1. S \in SUBSET Nat
    OBVIOUS
  <1>2. PICK v \in S : \A u \in S : v <= u
    BY <1>1, LeastElement
  <1>3. v \in Nat /\ v \in 0 .. m /\ v \in 0 .. k /\ f[v] # g[v]
    BY <1>2
  <1>4. v \notin stop
    BY <1>3 DEF Descends
  <1>5. pred[v] \in Nat /\ pred[v] < v
    BY <1>3, <1>4 DEF GoesDown
  <1>6. pred[v] \in 0 .. m /\ pred[v] \in 0 .. k /\ ~(v <= pred[v])
    BY <1>3, <1>5
  <1>7. f[pred[v]] = g[pred[v]]
    BY <1>2, <1>6
  <1> QED
    BY <1>3, <1>4, <1>7, Zenon DEF Descends

(* Such a recursion has a solution.                                         *)
LEMMA DescentExists ==
  ASSUME NEW A, NEW stop, NEW base \in [Nat -> A], NEW step \in [Nat -> [A -> A]],
         NEW pred, GoesDown(stop, pred)
  PROVE  \E f \in [Nat -> A] : Descends(f, Nat, stop, base, step, pred)
  <1> DEFINE Fits(f, m) == f \in [0 .. m -> A] /\ Descends(f, 0 .. m, stop, base, step, pred)
             Has(m) == \E f : Fits(f, m)
             S == {m \in Nat : Has(m)}
  <1>1. Has(0)
    <2> DEFINE f == [v \in 0 .. 0 |-> base[v]]
    <2>1. f \in [0 .. 0 -> A]
      OBVIOUS
    <2>2. \A v \in 0 .. 0 : v \in Nat /\ f[v] = base[v] /\ ~(\E u \in Nat : u < v)
      OBVIOUS
    <2>3. \A v \in 0 .. 0 : v \in stop
      BY <2>2 DEF GoesDown
    <2>4. Fits(f, 0)
      BY <2>1, <2>2, <2>3, Zenon DEF Descends
    <2> QED
      BY <2>4
  <1>2. ASSUME NEW m \in Nat, Has(m) PROVE Has(m + 1)
    <2>1. PICK f : Fits(f, m)
      BY <1>2
    <2> DEFINE last == IF m + 1 \in stop THEN base[m + 1] ELSE step[m + 1][f[pred[m + 1]]]
               g == [v \in 0 .. m + 1 |-> IF v = m + 1 THEN last ELSE f[v]]
    <2>2. m + 1 \in Nat /\ m + 1 \in 0 .. m + 1 /\ base[m + 1] \in A /\ step[m + 1] \in [A -> A]
      OBVIOUS
    <2>3. m + 1 \notin stop => pred[m + 1] \in 0 .. m
      BY <2>2 DEF GoesDown
    <2>4. last \in A
      <3>1. CASE m + 1 \in stop
        BY <2>2, <3>1
      <3>2. CASE m + 1 \notin stop
        <4>1. f[pred[m + 1]] \in A
          BY <2>1, <2>3, <3>2
        <4> QED
          BY <2>2, <3>2, <4>1
      <3> QED
        BY <3>1, <3>2
    <2>5. \A v \in 0 .. m : v # m + 1 /\ v \in 0 .. m + 1 /\ v \in Nat /\ f[v] \in A
      BY <2>1
    <2>6. \A v \in 0 .. m + 1 : v = m + 1 \/ v \in 0 .. m
      OBVIOUS
    <2> HIDE DEF last
    <2>7. g \in [0 .. m + 1 -> A] /\ g[m + 1] = last /\ \A v \in 0 .. m : g[v] = f[v]
      <3>1. \A v \in 0 .. m + 1 : (IF v = m + 1 THEN last ELSE f[v]) \in A
        BY <2>4, <2>5, <2>6, Zenon
      <3>2. g \in [0 .. m + 1 -> A]
        BY <3>1
      <3>3. g[m + 1] = last
        BY <2>2, Zenon
      <3>4. \A v \in 0 .. m : g[v] = f[v]
        BY <2>5, Zenon
      <3> QED
        BY <3>2, <3>3, <3>4
    <2> HIDE DEF g
    <2>8. ASSUME NEW v \in 0 .. m + 1
          PROVE  g[v] = IF v \in stop THEN base[v] ELSE step[v][g[pred[v]]]
      <3>1. CASE v = m + 1
        BY <2>3, <2>7, <3>1, Zenon DEF last
      <3>2. CASE v \in 0 .. m
        <4>1. v \notin stop => pred[v] \in 0 .. m
          BY <2>5, <3>2 DEF GoesDown
        <4>2. f[v] = IF v \in stop THEN base[v] ELSE step[v][f[pred[v]]]
          BY <2>1, <3>2, Zenon DEF Descends
        <4> QED
          BY <2>7, <3>2, <4>1, <4>2, Zenon
      <3> QED
        BY <2>6, <3>1, <3>2
    <2>9. Fits(g, m + 1)
      BY <2>7, <2>8, Zenon DEF Descends
    <2> QED
      BY <2>9
  <1> HIDE DEF Has
  <1>3. S = Nat
    <2>1. S \in SUBSET Nat /\ 0 \in S /\ \A k \in S : k + 1 \in S
      BY <1>1, <1>2
    <2> HIDE DEF S
    <2> QED
      BY <2>1, SetInduction
  <1>4. \A m \in Nat : \E f : Fits(f, m)
    BY <1>3 DEF Has
  <1> DEFINE upto == [m \in Nat |-> CHOOSE f : Fits(f, m)]
             F == [v \in Nat |-> upto[v][v]]
  <1>5. \A m \in Nat : Fits(upto[m], m)
    BY <1>4, Zenon
  <1> HIDE DEF upto
  <1>6. ASSUME NEW m \in Nat PROVE \A v \in 0 .. m : F[v] = upto[m][v]
    <2> SUFFICES ASSUME NEW v \in 0 .. m PROVE upto[v][v] = upto[m][v]
      BY SMT
    <2>1. v \in Nat /\ v \in (0 .. v) \cap (0 .. m)
      OBVIOUS
    <2>2. Fits(upto[v], v) /\ Fits(upto[m], m)
      BY <1>5, <2>1, Zenon
    <2>3. upto[v][v] = upto[m][v]
      <3>1. /\ Descends(upto[v], 0 .. v, stop, base, step, pred)
            /\ Descends(upto[m], 0 .. m, stop, base, step, pred)
        BY <2>2, Zenon
      <3> HIDE DEF S, F
      <3>2. \A f, g : /\ Descends(f, 0 .. v, stop, base, step, pred)
                      /\ Descends(g, 0 .. m, stop, base, step, pred)
                      => f[v] = g[v]
        <4> SUFFICES ASSUME NEW f, NEW g, Descends(f, 0 .. v, stop, base, step, pred),
                            Descends(g, 0 .. m, stop, base, step, pred)
                     PROVE f[v] = g[v]
          OBVIOUS
        <4>1. v \in Nat /\ m \in Nat /\ v \in (0 .. v) \cap (0 .. m) /\ GoesDown(stop, pred)
          BY <2>1
        <4> QED
          BY <4>1, DescentUnique
      <3> QED
        BY <3>1, <3>2, Zenon
    <2> QED
      BY <2>1, <2>3, Zenon
  <1>7. ASSUME NEW v \in Nat PROVE F[v] \in A
    <2>1. Fits(upto[v], v) /\ v \in 0 .. v
      BY <1>5
    <2> QED
      BY <2>1
  <1>8. F \in [Nat -> A]
    BY <1>7, Zenon
  <1> HIDE DEF F
  <1>9. ASSUME NEW v \in Nat
        PROVE  F[v] = IF v \in stop THEN base[v] ELSE step[v][F[pred[v]]]
    <2>1. v \in 0 .. v /\ (v \notin stop => pred[v] \in 0 .. v)
      BY DEF GoesDown
    <2>2. upto[v][v] = IF v \in stop THEN base[v] ELSE step[v][upto[v][pred[v]]]
      BY <1>5, <2>1, Zenon DEF Descends
    <2> QED
      BY <1>6, <2>1, <2>2, Zenon
  <1> QED
    BY <1>8, <1>9, Zenon DEF Descends

(* The same for the least element, and folds from the greatest number down. *)
LEMMA MinIsIn ==
  ASSUME NEW n \in Nat, NEW s \in SUBSET (1 .. n), s # {}
  PROVE  Min(s) \in s /\ \A y \in s : Min(s) <= y
  <1>1. s \in SUBSET Nat
    OBVIOUS
  <1>2. \E x : x \in s /\ \A y \in s : x <= y
    BY <1>1, LeastElement
  <1>3. Min(s) = CHOOSE x : x \in s /\ \A y \in s : x <= y
    BY DEF Min
  <1> QED
    BY <1>2, <1>3, Zenon

FoldsRight(F, base, step, n) ==
  F = [s \in SUBSET (1 .. n) |-> IF s = {} THEN base ELSE step[Min(s)][F[s \ {Min(s)}]]]
(* A fold from the greatest number down has a solution.                     *)
LEMMA FoldsRightExist ==
  ASSUME NEW n \in Nat, NEW A, NEW base \in A, NEW step \in [1 .. n -> [A -> A]]
  PROVE  \E F \in [SUBSET (1 .. n) -> A] : FoldsRight(F, base, step, n)
  <1> DEFINE T == SUBSET (1 .. n)
             Turned(s) == {(n + 1) - i : i \in s}
             back == [k \in 1 .. n |-> step[(n + 1) - k]]
  <1>1. \A k \in 1 .. n : (n + 1) - k \in 1 .. n /\ (n + 1) - ((n + 1) - k) = k
    OBVIOUS
  <1>2. back \in [1 .. n -> [A -> A]] /\ \A k \in 1 .. n : back[(n + 1) - k] = step[k]
    BY <1>1
  <1> HIDE DEF back
  <1>3. PICK F \in [T -> A] : Folds(F, base, back, n)
    BY <1>2, FoldsExist
  <1>4. \A s \in T : Turned(s) \in T /\ (s = {} <=> Turned(s) = {})
    OBVIOUS
  <1>5. ASSUME NEW s \in T, s # {}
        PROVE  /\ Min(s) \in 1 .. n /\ s \ {Min(s)} \in T
               /\ Max(Turned(s)) = (n + 1) - Min(s)
               /\ Turned(s) \ {Max(Turned(s))} = Turned(s \ {Min(s)})
    <2>1. Min(s) \in s /\ \A y \in s : Min(s) <= y
      BY <1>5, MinIsIn, Zenon
    <2>2. Turned(s) \in SUBSET (1 .. n) /\ Turned(s) # {}
      BY <1>4, <1>5, Zenon
    <2> HIDE DEF Turned
    <2>3. Max(Turned(s)) \in Turned(s) /\ \A y \in Turned(s) : Max(Turned(s)) >= y
      BY <2>2, MaxIsIn, Zenon
    <2> USE DEF Turned
    <2>4. (n + 1) - Min(s) \in Turned(s)
      BY <2>1
    <2>5. PICK j \in s : Max(Turned(s)) = (n + 1) - j
      BY <2>3
    <2>6. Max(Turned(s)) = (n + 1) - Min(s)
      <3>1. Max(Turned(s)) >= (n + 1) - Min(s)
        BY <2>3, <2>4, Zenon
      <3>2. j \in 1 .. n /\ Min(s) \in 1 .. n /\ Min(s) <= j
        BY <2>1
      <3> HIDE DEF Turned
      <3> QED
        BY <2>5, <3>1, <3>2
    <2>7. Turned(s) \ {(n + 1) - Min(s)} = Turned(s \ {Min(s)})
      <3>1. \A i \in s : (n + 1) - i = (n + 1) - Min(s) <=> i = Min(s)
        <4> SUFFICES ASSUME NEW i \in s PROVE (n + 1) - i = (n + 1) - Min(s) <=> i = Min(s)
          BY Zenon
        <4>1. i \in 1 .. n /\ Min(s) \in 1 .. n
          BY <2>1
        <4> HIDE DEF Turned
        <4> QED
          BY <4>1
      <3>2. ASSUME NEW i \in s, i # Min(s)
            PROVE  (n + 1) - i \in Turned(s) \ {(n + 1) - Min(s)}
        BY <3>1, <3>2, Zenon
      <3>3. ASSUME NEW x \in Turned(s) \ {(n + 1) - Min(s)}
            PROVE  x \in Turned(s \ {Min(s)})
        BY Zenon
      <3>4. ASSUME NEW x \in Turned(s \ {Min(s)})
            PROVE  x \in Turned(s) \ {(n + 1) - Min(s)}
        BY <3>2, Zenon
      <3> HIDE DEF Turned
      <3> QED
        BY <3>3, <3>4
    <2> HIDE DEF Turned
    <2> QED
      BY <2>1, <2>6, <2>7
  <1> HIDE DEF Turned
  <1> DEFINE G == [s \in T |-> F[Turned(s)]]
  <1>6. G \in [T -> A]
    BY <1>4
  <1>7. ASSUME NEW s \in T
        PROVE  G[s] = IF s = {} THEN base ELSE step[Min(s)][G[s \ {Min(s)}]]
    <2>1. F[Turned(s)] = IF Turned(s) = {} THEN base
                         ELSE back[Max(Turned(s))][F[Turned(s) \ {Max(Turned(s))}]]
      BY <1>3, <1>4, Zenon DEF Folds
    <2> QED
      BY <1>2, <1>4, <1>5, <2>1, Zenon
  <1>8. G = [s \in T |-> G[s]]
    OBVIOUS
  <1> HIDE DEF G
  <1>9. FoldsRight(G, base, step, n)
    BY <1>7, <1>8, Zenon DEF FoldsRight
  <1> QED
    BY <1>6, <1>9
=============================================================================
