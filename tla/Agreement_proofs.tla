---------------------------- MODULE Agreement_proofs ----------------------------
(***************************************************************************)
(* Proofs about Agreement, for any tokens, identifiers, catalogue,         *)
(* datasets and bounds: a formula that the API accepts has one reading in  *)
(* Python, which is the engine's; a graph that the API admits is accepted  *)
(* by the worker's parser; a profile tells the frame of its file.          *)
(*                                                                         *)
(* Formulas.  The engine's methods at a token depend on what they return   *)
(* at later tokens, so both halves of the proof go through the table of    *)
(* the methods from the last token to the first.  Keeps: a reading is a    *)
(* tree of the rule of its level.  Finds: if the grammar has a tree of a   *)
(* part that is followed by nothing its method would read on, the method   *)
(* returns that tree, or it fails, or it stops at an opening bracket and   *)
(* so does every method that called it.  An accepted formula is read to    *)
(* its end, where the other two cases are excluded: the trees are one.     *)
(*                                                                         *)
(* Graphs.  A graph needs the invariant that its nodes and edges are       *)
(* sequences of nodes and edges.  Stripping is injective on the            *)
(* identifiers of a graph without collisions, so that the job is a copy of *)
(* it under other names.                                                   *)
(***************************************************************************)
EXTENDS Agreement, FiniteSetTheorems, NaturalsInduction, WellFoundedInduction, TLAPS

-----------------------------------------------------------------------------
(* Induction, and the functions that are defined by it.                     *)

\* A set with zero and the successors of its members holds every number.
LEMMA NaturalSet ==
    ASSUME NEW S, 0 \in S, \A k \in Nat : k \in S => k + 1 \in S
    PROVE  \A n \in Nat : n \in S
<1> DEFINE less == {p \in Nat \X Nat : p[1] < p[2]}
<1>1. SUFFICES ASSUME NEW bad, bad = {k \in Nat : k \notin S}, bad # {}
               PROVE  FALSE
    OBVIOUS
<1>2. IsWellFoundedOn(less, Nat)
    BY NatLessThanWellFounded DEF OpToRel
<1>3. PICK k \in bad : \A j \in bad : ~ (<<j, k>> \in less)
    BY <1>1, <1>2, WFMin
<1>4. k \in Nat /\ k # 0
    BY <1>1, <1>3
<1>5. k - 1 \in Nat /\ k - 1 < k /\ (k - 1) + 1 = k
    BY <1>4
<1>6. k - 1 \notin bad
    BY <1>3, <1>4, <1>5
<1> QED
    BY <1>1, <1>3, <1>5, <1>6

\* The same for what follows from all the numbers before.
LEMMA NaturalSetBelow ==
    ASSUME NEW S, \A n \in Nat : (\A m \in 0..(n - 1) : m \in S) => n \in S
    PROVE  \A n \in Nat : n \in S
<1> DEFINE T == {n \in Nat : \A m \in 0..n : m \in S}
<1>1. 0 \in T
    <2>1. \A m \in 0..(0 - 1) : m \in S
        OBVIOUS
    <2>2. 0 \in S
        BY <2>1
    <2> QED
        BY <2>2
<1>2. ASSUME NEW k \in Nat, k \in T PROVE k + 1 \in T
    <2>1. k + 1 \in Nat /\ (k + 1) - 1 = k
        OBVIOUS
    <2>2. k + 1 \in S
        BY <1>2, <2>1
    <2>3. \A m \in 0..(k + 1) : m \in 0..k \/ m = k + 1
        OBVIOUS
    <2> QED
        BY <1>2, <2>2, <2>3
<1> HIDE DEF T
<1>3. \A n \in Nat : n \in T
    BY <1>1, <1>2, NaturalSet
<1> QED
    BY <1>3 DEF T

\* r is the loop, cut after turn k.
IsTurns(r, ts, ops, method, later, first, k) ==
    r = [i \in 0..k |-> IF i = 0 THEN first ELSE Turn(ts, ops, method, later, r[i - 1])]

\* Turns is the function its recursion describes.
LEMMA TurnsExist ==
    ASSUME NEW ts, NEW ops, NEW method, NEW later, NEW first, NEW n \in Nat
    PROVE  \E r : IsTurns(r, ts, ops, method, later, first, n)
<1> DEFINE S == {k \in Nat : \E r : IsTurns(r, ts, ops, method, later, first, k)}
<1>1. 0 \in S
    <2>1. PICK r : r = [i \in 0..0 |-> first]
        OBVIOUS
    <2>2. IsTurns(r, ts, ops, method, later, first, 0)
        BY <2>1 DEF IsTurns
    <2> QED
        BY <2>2
<1>2. ASSUME NEW k \in Nat, k \in S PROVE k + 1 \in S
    <2>1. PICK r : IsTurns(r, ts, ops, method, later, first, k)
        BY <1>2
    <2>2. PICK q : q = [i \in 0..(k + 1) |-> IF i <= k THEN r[i] ELSE Turn(ts, ops, method, later, r[k])]
        OBVIOUS
    <2>3. ASSUME NEW i \in 0..(k + 1)
          PROVE  q[i] = IF i = 0 THEN first ELSE Turn(ts, ops, method, later, q[i - 1])
        <3>1. CASE i <= k
            <4>1. i \in 0..k /\ (i # 0 => i - 1 \in 0..k /\ i - 1 \in 0..(k + 1) /\ i - 1 <= k)
                BY <3>1
            <4>2. r[i] = IF i = 0 THEN first ELSE Turn(ts, ops, method, later, r[i - 1])
                BY <2>1, <4>1 DEF IsTurns
            <4>3. q[i] = r[i] /\ (i # 0 => q[i - 1] = r[i - 1])
                BY <2>2, <3>1, <4>1
            <4> QED
                BY <4>2, <4>3
        <3>2. CASE ~ (i <= k)
            <4>1. i = k + 1 /\ i # 0 /\ i - 1 = k /\ k \in 0..(k + 1) /\ k <= k
                BY <3>2
            <4>2. q[i] = Turn(ts, ops, method, later, r[k]) /\ q[k] = r[k]
                BY <2>2, <3>2, <4>1
            <4> QED
                BY <4>1, <4>2
        <3> QED
            BY <3>1, <3>2
    <2>4. IsTurns(q, ts, ops, method, later, first, k + 1)
        BY <2>2, <2>3 DEF IsTurns
    <2> QED
        BY <2>4
<1> HIDE DEF S
<1>3. n \in S
    BY <1>1, <1>2, NaturalSet
<1> QED
    BY <1>3 DEF S

LEMMA TurnsUnroll ==
    ASSUME NEW ts, NEW ops, NEW method, NEW later, NEW first, Len(ts) \in Nat
    PROVE  IsTurns(Turns(ts, ops, method, later, first), ts, ops, method, later, first, Len(ts))
<1>1. \E r : IsTurns(r, ts, ops, method, later, first, Len(ts))
    BY TurnsExist
<1>2. Turns(ts, ops, method, later, first) = CHOOSE r : IsTurns(r, ts, ops, method, later, first, Len(ts))
    BY Zenon DEF Turns, IsTurns
<1> QED
    BY <1>1, <1>2, Zenon

\* r is the table of the methods, up to the kth token from the end.
IsReadings(r, ts, k) ==
    r = [i \in 0..k |-> IF i = 0 THEN <<>> ELSE From(ts, Len(ts) + 2 - i, r[i - 1])]

\* So are Readings and PyParts.
LEMMA ReadingsExist ==
    ASSUME NEW ts, NEW n \in Nat
    PROVE  \E r : IsReadings(r, ts, n)
<1> DEFINE S == {k \in Nat : \E r : IsReadings(r, ts, k)}
<1>1. 0 \in S
    <2>1. PICK r : r = [i \in 0..0 |-> <<>>]
        OBVIOUS
    <2>2. IsReadings(r, ts, 0)
        BY <2>1 DEF IsReadings
    <2> QED
        BY <2>2
<1>2. ASSUME NEW k \in Nat, k \in S PROVE k + 1 \in S
    <2>1. PICK r : IsReadings(r, ts, k)
        BY <1>2
    <2>2. PICK q : q = [i \in 0..(k + 1) |-> IF i <= k THEN r[i] ELSE From(ts, Len(ts) + 2 - (k + 1), r[k])]
        OBVIOUS
    <2>3. ASSUME NEW i \in 0..(k + 1)
          PROVE  q[i] = IF i = 0 THEN <<>> ELSE From(ts, Len(ts) + 2 - i, q[i - 1])
        <3>1. CASE i <= k
            <4>1. i \in 0..k /\ (i # 0 => i - 1 \in 0..k /\ i - 1 \in 0..(k + 1) /\ i - 1 <= k)
                BY <3>1
            <4>2. r[i] = IF i = 0 THEN <<>> ELSE From(ts, Len(ts) + 2 - i, r[i - 1])
                BY <2>1, <4>1 DEF IsReadings
            <4>3. q[i] = r[i] /\ (i # 0 => q[i - 1] = r[i - 1])
                BY <2>2, <3>1, <4>1
            <4> QED
                BY <4>2, <4>3
        <3>2. CASE ~ (i <= k)
            <4>1. i = k + 1 /\ i # 0 /\ i - 1 = k /\ k \in 0..(k + 1) /\ k <= k
                BY <3>2
            <4>2. q[i] = From(ts, Len(ts) + 2 - (k + 1), r[k]) /\ q[k] = r[k]
                BY <2>2, <3>2, <4>1
            <4> QED
                BY <4>1, <4>2
        <3> QED
            BY <3>1, <3>2
    <2>4. IsReadings(q, ts, k + 1)
        BY <2>2, <2>3 DEF IsReadings
    <2> QED
        BY <2>4
<1> HIDE DEF S
<1>3. n \in S
    BY <1>1, <1>2, NaturalSet
<1> QED
    BY <1>3 DEF S

LEMMA ReadingsUnroll ==
    ASSUME NEW ts, Len(ts) \in Nat
    PROVE  IsReadings(Readings(ts), ts, Len(ts) + 1)
<1>1. \E r : IsReadings(r, ts, Len(ts) + 1)
    <2>1. Len(ts) + 1 \in Nat
        OBVIOUS
    <2> QED
        BY <2>1, ReadingsExist
<1>2. Readings(ts) = CHOOSE r : IsReadings(r, ts, Len(ts) + 1)
    BY Zenon DEF Readings, IsReadings
<1> QED
    BY <1>1, <1>2, Zenon

\* r holds the trees of the parts with up to k tokens.
IsParts(r, ts, k) ==
    r = [i \in 0..k |-> IF i = 0 THEN <<>> ELSE PyLonger(ts, i, r[i - 1])]

LEMMA PartsExist ==
    ASSUME NEW ts, NEW n \in Nat
    PROVE  \E r : IsParts(r, ts, n)
<1> DEFINE S == {k \in Nat : \E r : IsParts(r, ts, k)}
<1>1. 0 \in S
    <2>1. PICK r : r = [i \in 0..0 |-> <<>>]
        OBVIOUS
    <2>2. IsParts(r, ts, 0)
        BY <2>1 DEF IsParts
    <2> QED
        BY <2>2
<1>2. ASSUME NEW k \in Nat, k \in S PROVE k + 1 \in S
    <2>1. PICK r : IsParts(r, ts, k)
        BY <1>2
    <2>2. PICK q : q = [i \in 0..(k + 1) |-> IF i <= k THEN r[i] ELSE PyLonger(ts, (k + 1), r[k])]
        OBVIOUS
    <2>3. ASSUME NEW i \in 0..(k + 1)
          PROVE  q[i] = IF i = 0 THEN <<>> ELSE PyLonger(ts, i, q[i - 1])
        <3>1. CASE i <= k
            <4>1. i \in 0..k /\ (i # 0 => i - 1 \in 0..k /\ i - 1 \in 0..(k + 1) /\ i - 1 <= k)
                BY <3>1
            <4>2. r[i] = IF i = 0 THEN <<>> ELSE PyLonger(ts, i, r[i - 1])
                BY <2>1, <4>1 DEF IsParts
            <4>3. q[i] = r[i] /\ (i # 0 => q[i - 1] = r[i - 1])
                BY <2>2, <3>1, <4>1
            <4> QED
                BY <4>2, <4>3
        <3>2. CASE ~ (i <= k)
            <4>1. i = k + 1 /\ i # 0 /\ i - 1 = k /\ k \in 0..(k + 1) /\ k <= k
                BY <3>2
            <4>2. q[i] = PyLonger(ts, (k + 1), r[k]) /\ q[k] = r[k]
                BY <2>2, <3>2, <4>1
            <4> QED
                BY <4>1, <4>2
        <3> QED
            BY <3>1, <3>2
    <2>4. IsParts(q, ts, k + 1)
        BY <2>2, <2>3 DEF IsParts
    <2> QED
        BY <2>4
<1> HIDE DEF S
<1>3. n \in S
    BY <1>1, <1>2, NaturalSet
<1> QED
    BY <1>3 DEF S

LEMMA PartsUnroll ==
    ASSUME NEW ts, Len(ts) \in Nat
    PROVE  IsParts(PyParts(ts), ts, Len(ts))
<1>1. \E r : IsParts(r, ts, Len(ts))
    BY PartsExist
<1>2. PyParts(ts) = CHOOSE r : IsParts(r, ts, Len(ts))
    BY Zenon DEF PyParts, IsParts
<1> QED
    BY <1>1, <1>2, Zenon

\* The turns of a loop, one by one.
LEMMA TurnsStep ==
    ASSUME NEW ts, NEW ops, NEW method, NEW later, NEW first, Len(ts) \in Nat
    PROVE  /\ Turns(ts, ops, method, later, first)[0] = first
           /\ \A m \in 1..Len(ts) :
                Turns(ts, ops, method, later, first)[m] =
                    Turn(ts, ops, method, later, Turns(ts, ops, method, later, first)[m - 1])
<1>1. PICK r : r = Turns(ts, ops, method, later, first)
    OBVIOUS
<1>2. IsTurns(r, ts, ops, method, later, first, Len(ts))
    BY <1>1, TurnsUnroll
<1>3. \A m \in 0..Len(ts) :
        r[m] = IF m = 0 THEN first ELSE Turn(ts, ops, method, later, r[m - 1])
    BY <1>2 DEF IsTurns
<1>4. r[0] = first
    BY <1>3
<1>5. ASSUME NEW m \in 1..Len(ts)
      PROVE  r[m] = Turn(ts, ops, method, later, r[m - 1])
    <2>1. m \in 0..Len(ts) /\ m # 0
        OBVIOUS
    <2> QED
        BY <1>3, <2>1
<1> QED
    BY <1>1, <1>4, <1>5

\* A turn that changes nothing is the last one.
LEMMA TurnsStay ==
    ASSUME NEW ts, NEW ops, NEW method, NEW later, NEW first, Len(ts) \in Nat,
           NEW m \in 0..Len(ts), NEW r, r = Turns(ts, ops, method, later, first)[m],
           Turn(ts, ops, method, later, r) = r
    PROVE  Turns(ts, ops, method, later, first)[Len(ts)] = r
<1>1. PICK T : T = Turns(ts, ops, method, later, first)
    OBVIOUS
<1>2. T[m] = r /\ \A k \in 1..Len(ts) : T[k] = Turn(ts, ops, method, later, T[k - 1])
    BY <1>1, TurnsStep
<1> DEFINE S == {d \in Nat : m + d <= Len(ts) => T[m + d] = r}
<1>3. 0 \in S
    BY <1>2
<1>4. ASSUME NEW d \in Nat, d \in S PROVE d + 1 \in S
    <2>1. SUFFICES ASSUME m + (d + 1) <= Len(ts) PROVE T[m + (d + 1)] = r
        OBVIOUS
    <2>2. T[m + d] = r
        BY <1>4, <2>1
    <2>3. m + (d + 1) \in 1..Len(ts) /\ (m + (d + 1)) - 1 = m + d
        BY <2>1
    <2>4. T[m + (d + 1)] = Turn(ts, ops, method, later, T[m + d])
        BY <1>2, <2>3
    <2> QED
        BY <2>2, <2>4
<1> HIDE DEF S
<1>5. Len(ts) - m \in S
    <2>1. Len(ts) - m \in Nat
        OBVIOUS
    <2> QED
        BY <1>3, <1>4, <2>1, NaturalSet
<1>6. m + (Len(ts) - m) = Len(ts) /\ Len(ts) <= Len(ts)
    OBVIOUS
<1> QED
    BY <1>1, <1>5, <1>6 DEF S

\* A loop that stops at once has taken all its turns as well.
LEMMA LoopIsTurns ==
    ASSUME NEW ts, NEW ops, NEW method, NEW later, NEW first, Len(ts) \in Nat
    PROVE  Loop(ts, ops, method, later, first) =
                Turns(ts, ops, method, later, first)[Len(ts)]
<1>1. CASE Failed(first) \/ Peek(ts, first.at) \notin ops
    <2>1. Turn(ts, ops, method, later, first) = first
        BY <1>1 DEF Turn
    <2>2. first = Turns(ts, ops, method, later, first)[0]
        BY TurnsStep
    <2>3. 0 \in 0..Len(ts)
        OBVIOUS
    <2>4. Turns(ts, ops, method, later, first)[Len(ts)] = first
        BY <2>1, <2>2, <2>3, TurnsStay
    <2> QED
        BY <1>1, <2>4 DEF Loop
<1>2. CASE ~ (Failed(first) \/ Peek(ts, first.at) \notin ops)
    BY <1>2 DEF Loop
<1> QED
    BY <1>1, <1>2

-----------------------------------------------------------------------------
(* The table of the methods.                                                *)

\* What the methods return at p.
MethodsAt(ts, p) == Methods(ts, Readings(ts)[Len(ts) + 1 - p], p)

\* The row k of the table holds what the methods return at the last k positions.
LEMMA TableRows ==
    ASSUME NEW ts, Len(ts) \in Nat
    PROVE  \A k \in 0..(Len(ts) + 1) :
                /\ Readings(ts)[k] \in Seq({MethodsAt(ts, p) : p \in 1..(Len(ts) + 1)})
                /\ Len(Readings(ts)[k]) = k
                /\ \A m \in 1..k : Readings(ts)[k][m] = MethodsAt(ts, Len(ts) + 2 - m)
<1>1. PICK R : R = Readings(ts)
    OBVIOUS
<1>2. PICK E : E = {MethodsAt(ts, p) : p \in 1..(Len(ts) + 1)}
    OBVIOUS
<1>3. \A k \in 0..(Len(ts) + 1) :
        R[k] = IF k = 0 THEN <<>> ELSE From(ts, Len(ts) + 2 - k, R[k - 1])
    <2>1. IsReadings(R, ts, Len(ts) + 1)
        BY <1>1, ReadingsUnroll
    <2> QED
        BY <2>1 DEF IsReadings
<1> DEFINE S == {k \in Nat : k <= Len(ts) + 1 =>
                    /\ R[k] \in Seq(E) /\ Len(R[k]) = k
                    /\ \A m \in 1..k : R[k][m] = MethodsAt(ts, Len(ts) + 2 - m)}
<1>4. 0 \in S
    <2>1. R[0] = <<>>
        BY <1>3
    <2>2. R[0] \in Seq(E) /\ Len(R[0]) = 0
        BY <2>1
    <2>3. \A m \in 1..0 : R[0][m] = MethodsAt(ts, Len(ts) + 2 - m)
        OBVIOUS
    <2> QED
        BY <2>2, <2>3
<1>5. ASSUME NEW k \in Nat, k \in S PROVE k + 1 \in S
    <2>1. SUFFICES ASSUME k + 1 <= Len(ts) + 1
                   PROVE  /\ R[k + 1] \in Seq(E) /\ Len(R[k + 1]) = k + 1
                          /\ \A m \in 1..(k + 1) : R[k + 1][m] = MethodsAt(ts, Len(ts) + 2 - m)
        OBVIOUS
    <2>2. /\ R[k] \in Seq(E) /\ Len(R[k]) = k
          /\ \A m \in 1..k : R[k][m] = MethodsAt(ts, Len(ts) + 2 - m)
        BY <1>5, <2>1
    <2>3. /\ k + 1 \in 0..(Len(ts) + 1) /\ k + 1 # 0 /\ (k + 1) - 1 = k
          /\ Len(ts) + 2 - (k + 1) = Len(ts) + 1 - k
          /\ Len(ts) + 1 - (Len(ts) + 1 - k) = k
          /\ Len(ts) + 1 - k \in 1..(Len(ts) + 1)
        BY <2>1
    <2>4. R[k + 1] = From(ts, Len(ts) + 1 - k, R[k])
        BY <1>3, <2>3
    <2>5. PICK e \in E : e = MethodsAt(ts, Len(ts) + 1 - k)
        BY <1>2, <2>3
    <2>6. R[k + 1] = Append(R[k], e)
        BY <1>1, <2>3, <2>4, <2>5 DEF From, MethodsAt
    <2>7. R[k + 1] \in Seq(E) /\ Len(R[k + 1]) = k + 1
        BY <2>2, <2>6
    <2>8. ASSUME NEW m \in 1..(k + 1)
          PROVE  R[k + 1][m] = MethodsAt(ts, Len(ts) + 2 - m)
        <3>1. CASE m = k + 1
            <4>1. R[k + 1][m] = e
                BY <2>2, <2>6, <3>1
            <4> QED
                BY <2>3, <2>5, <3>1, <4>1
        <3>2. CASE m # k + 1
            <4>1. m \in 1..k
                BY <3>2
            <4>2. R[k + 1][m] = R[k][m]
                BY <2>2, <2>6, <4>1
            <4> QED
                BY <2>2, <4>1, <4>2
        <3> QED
            BY <3>1, <3>2
    <2> QED
        BY <2>7, <2>8
<1> HIDE DEF S
<1>6. \A k \in Nat : k \in S
    BY <1>4, <1>5, NaturalSet
<1>7. ASSUME NEW k \in 0..(Len(ts) + 1)
      PROVE  /\ R[k] \in Seq(E) /\ Len(R[k]) = k
             /\ \A m \in 1..k : R[k][m] = MethodsAt(ts, Len(ts) + 2 - m)
    <2>1. k \in Nat /\ k <= Len(ts) + 1
        OBVIOUS
    <2> QED
        BY <1>6, <2>1 DEF S
<1> QED
    BY <1>1, <1>2, <1>7

\* What a method reads of later is what the methods return there.
LEMMA AheadIs ==
    ASSUME NEW ts, Len(ts) \in Nat, NEW i \in 1..(Len(ts) + 1), NEW p \in (i + 1)..(Len(ts) + 1)
    PROVE  Ahead(ts, Readings(ts)[Len(ts) + 1 - i], p) = MethodsAt(ts, p)
<1>1. /\ Len(ts) + 1 - i \in 0..(Len(ts) + 1) /\ Len(ts) + 2 - p \in 1..(Len(ts) + 1 - i)
      /\ Len(ts) + 2 - (Len(ts) + 2 - p) = p
    OBVIOUS
<1>2. Readings(ts)[Len(ts) + 1 - i][Len(ts) + 2 - p] = MethodsAt(ts, Len(ts) + 2 - (Len(ts) + 2 - p))
    BY <1>1, TableRows
<1> QED
    BY <1>1, <1>2 DEF Ahead

\* The table ends with the first token.
LEMMA ParsedIs ==
    ASSUME NEW ts, Len(ts) \in Nat
    PROVE  Readings(ts)[Len(ts) + 1][Len(ts) + 1] = MethodsAt(ts, 1)
<1>1. /\ Len(ts) + 1 \in 0..(Len(ts) + 1) /\ Len(ts) + 1 \in 1..(Len(ts) + 1)
      /\ Len(ts) + 2 - (Len(ts) + 1) = 1
    OBVIOUS
<1> QED
    BY <1>1, TableRows

-----------------------------------------------------------------------------
(* Python's grammar, rule by rule.                                          *)

\* The trees of a part.
Trees(ts, i, j, rule) == PyParts(ts)[Len(ts)][<<i, j>>][rule]

\* The trees of a part do not depend on the row of PyParts that is read.
LEMMA PartsRows ==
    ASSUME NEW ts, Len(ts) \in Nat
    PROVE  \A k \in 0..Len(ts) : \A i, j \in 1..Len(ts) : i <= j /\ j - i < k =>
                PyParts(ts)[k][<<i, j>>] = PyTrees(ts, PyParts(ts)[j - i], i, j)
<1>1. PICK R : R = PyParts(ts)
    OBVIOUS
<1>2. \A k \in 0..Len(ts) : R[k] = IF k = 0 THEN <<>> ELSE PyLonger(ts, k, R[k - 1])
    <2>1. IsParts(R, ts, Len(ts))
        BY <1>1, PartsUnroll
    <2> QED
        BY <2>1 DEF IsParts
<1> DEFINE S == {k \in Nat : k <= Len(ts) => \A i, j \in 1..Len(ts) : i <= j /\ j - i < k =>
                    R[k][<<i, j>>] = PyTrees(ts, R[j - i], i, j)}
<1>3. 0 \in S
    OBVIOUS
<1>4. ASSUME NEW k \in Nat, k \in S PROVE k + 1 \in S
    <2>1. SUFFICES ASSUME k + 1 <= Len(ts), NEW i \in 1..Len(ts), NEW j \in 1..Len(ts),
                          i <= j, j - i < k + 1
                   PROVE  R[k + 1][<<i, j>>] = PyTrees(ts, R[j - i], i, j)
        OBVIOUS
    <2>2. k + 1 \in 0..Len(ts) /\ k + 1 # 0 /\ (k + 1) - 1 = k
        BY <2>1
    <2>3. R[k + 1] = PyLonger(ts, k + 1, R[k])
        BY <1>2, <2>2
    <2>4. PICK p : p = <<i, j>>
        OBVIOUS
    <2>5. p[1] = i /\ p[2] = j /\ p \in Parts(Len(ts), k + 1)
        BY <2>1, <2>4 DEF Parts
    <2>6. R[k + 1][p] = IF p[2] - p[1] < k THEN R[k][p] ELSE PyTrees(ts, R[k], p[1], p[2])
        BY <2>2, <2>3, <2>5 DEF PyLonger
    <2>7. CASE j - i < k
        <3>1. R[k][<<i, j>>] = PyTrees(ts, R[j - i], i, j)
            BY <1>4, <2>1, <2>7
        <3> QED
            BY <2>4, <2>5, <2>6, <2>7, <3>1
    <2>8. CASE ~ (j - i < k)
        <3>1. j - i = k
            BY <2>1, <2>8
        <3> QED
            BY <2>4, <2>5, <2>6, <2>8, <3>1
    <2> QED
        BY <2>7, <2>8
<1> HIDE DEF S
<1>5. \A k \in Nat : k \in S
    BY <1>3, <1>4, NaturalSet
<1>6. ASSUME NEW k \in 0..Len(ts), NEW i \in 1..Len(ts), NEW j \in 1..Len(ts), i <= j, j - i < k
      PROVE  R[k][<<i, j>>] = PyTrees(ts, R[j - i], i, j)
    <2>1. k \in S /\ k <= Len(ts)
        BY <1>5
    <2> QED
        BY <1>6, <2>1 DEF S
<1> QED
    BY <1>1, <1>6

\* shorter holds the trees of what is shorter than ts[i..j].
Shorter(ts, shorter, i, j) ==
    \A p, q \in 1..Len(ts) : p <= q /\ q - p < j - i =>
        \A rule : shorter[<<p, q>>][rule] = Trees(ts, p, q, rule)

\* The trees of a part, from those of the shorter parts.
LEMMA TreesOf ==
    ASSUME NEW ts, Len(ts) \in Nat, NEW i \in 1..Len(ts), NEW j \in i..Len(ts)
    PROVE  \E shorter :
                /\ Shorter(ts, shorter, i, j)
                /\ \A rule : Trees(ts, i, j, rule) = PyTrees(ts, shorter, i, j)[rule]
<1>1. j \in 1..Len(ts) /\ i <= j /\ j - i < Len(ts) /\ j - i \in 0..Len(ts) /\ Len(ts) \in 0..Len(ts)
    OBVIOUS
<1>2. PyParts(ts)[Len(ts)][<<i, j>>] = PyTrees(ts, PyParts(ts)[j - i], i, j)
    BY <1>1, PartsRows
<1>3. ASSUME NEW p \in 1..Len(ts), NEW q \in 1..Len(ts), p <= q, q - p < j - i
      PROVE  PyParts(ts)[j - i][<<p, q>>] = PyParts(ts)[Len(ts)][<<p, q>>]
    <2>1. PyParts(ts)[j - i][<<p, q>>] = PyTrees(ts, PyParts(ts)[q - p], p, q)
        BY <1>1, <1>3, PartsRows
    <2>2. q - p < Len(ts)
        OBVIOUS
    <2>3. PyParts(ts)[Len(ts)][<<p, q>>] = PyTrees(ts, PyParts(ts)[q - p], p, q)
        BY <1>1, <1>3, <2>2, PartsRows
    <2> QED
        BY <2>1, <2>3
<1>4. Shorter(ts, PyParts(ts)[j - i], i, j)
    BY <1>3 DEF Shorter, Trees
<1> QED
    BY <1>2, <1>4 DEF Trees

\* What the parts of ts[i..j] make together, with an operator at k.
Halves(ts, t, i, k, j, left, right) ==
    \E l \in Trees(ts, i, k - 1, left), r \in Trees(ts, k + 1, j, right) : t = Node(ts[k], l, r)
InSplit(ts, t, i, j, ops, left, right) ==
    \E k \in (i + 1)..(j - 1) : ts[k] \in ops /\ Halves(ts, t, i, k, j, left, right)
InArguments(ts, args, i, j) ==
    \/ i > j /\ args = <<>>
    \/ i <= j /\ args \in Trees(ts, i, j, "list")
    \/ i < j /\ ts[j] = "," /\ args \in Trees(ts, i, j - 1, "list")
CallWith(ts, t, i, k, j) ==
    \E g \in Trees(ts, i, k - 1, "primary") :
        /\ g[1] = "leaf" /\ g[2] \in Functions
        /\ \E args : InArguments(ts, args, k + 1, j - 1) /\ t = Call(g[2], args)
InCall(ts, t, i, j) ==
    \E k \in (i + 1)..(j - 1) : ts[k] = "(" /\ CallWith(ts, t, i, k, j)

\* The sets of the grammar and the predicates above say the same.
LEMMA SplitIs ==
    ASSUME NEW ts, Len(ts) \in Nat, NEW i \in 1..Len(ts), NEW j \in i..Len(ts), NEW shorter,
           Shorter(ts, shorter, i, j), NEW ops, NEW left, NEW right
    PROVE  \A t : t \in PySplit(ts, shorter, i, j, ops, left, right)
                    <=> InSplit(ts, t, i, j, ops, left, right)
<1>1. ASSUME NEW k \in (i + 1)..(j - 1)
      PROVE  /\ shorter[<<i, k - 1>>][left] = Trees(ts, i, k - 1, left)
             /\ shorter[<<k + 1, j>>][right] = Trees(ts, k + 1, j, right)
    <2>1. /\ i \in 1..Len(ts) /\ k - 1 \in 1..Len(ts) /\ i <= k - 1 /\ (k - 1) - i < j - i
          /\ k + 1 \in 1..Len(ts) /\ j \in 1..Len(ts) /\ k + 1 <= j /\ j - (k + 1) < j - i
        OBVIOUS
    <2> QED
        BY <2>1 DEF Shorter
<1>2. ASSUME NEW t
      PROVE  t \in PySplit(ts, shorter, i, j, ops, left, right)
                <=> InSplit(ts, t, i, j, ops, left, right)
    <2> DEFINE Part(k) == {Node(ts[k], l, r) : l \in shorter[<<i, k - 1>>][left],
                                              r \in shorter[<<k + 1, j>>][right]}
    <2>1. PySplit(ts, shorter, i, j, ops, left, right) =
            UNION {Part(k) : k \in {k \in (i + 1)..(j - 1) : ts[k] \in ops}}
        BY DEF PySplit
    <2>2. ASSUME NEW k \in (i + 1)..(j - 1)
          PROVE  t \in Part(k) <=> Halves(ts, t, i, k, j, left, right)
        BY <1>1 DEF Halves
    <2> HIDE DEF Part
    <2>3. t \in PySplit(ts, shorter, i, j, ops, left, right) <=>
            \E k \in (i + 1)..(j - 1) : ts[k] \in ops /\ t \in Part(k)
        BY <2>1
    <2> QED
        BY <2>2, <2>3 DEF InSplit
<1> QED
    BY <1>2

LEMMA ArgumentsAre ==
    ASSUME NEW ts, Len(ts) \in Nat, NEW i \in 1..Len(ts), NEW j \in i..Len(ts), NEW shorter,
           Shorter(ts, shorter, i, j), NEW k \in (i + 1)..(j - 1)
    PROVE  \A args : args \in PyArguments(ts, shorter, k + 1, j - 1)
                        <=> InArguments(ts, args, k + 1, j - 1)
<1>1. CASE k + 1 > j - 1
    <2>1. ~ (k + 1 <= j - 1) /\ ~ (k + 1 < j - 1)
        BY <1>1
    <2> QED
        BY <1>1, <2>1 DEF PyArguments, InArguments
<1>2. CASE k + 1 <= j - 1
    <2>1. /\ k + 1 \in 1..Len(ts) /\ j - 1 \in 1..Len(ts) /\ (j - 1) - (k + 1) < j - i
          /\ ~ (k + 1 > j - 1)
        BY <1>2
    <2>2. shorter[<<k + 1, j - 1>>]["list"] = Trees(ts, k + 1, j - 1, "list")
        BY <1>2, <2>1 DEF Shorter
    <2>3. CASE k + 1 < j - 1
        <3>1. /\ (j - 1) - 1 \in 1..Len(ts) /\ k + 1 <= (j - 1) - 1
              /\ ((j - 1) - 1) - (k + 1) < j - i
            BY <2>3
        <3>2. shorter[<<k + 1, (j - 1) - 1>>]["list"] = Trees(ts, k + 1, (j - 1) - 1, "list")
            BY <2>1, <3>1 DEF Shorter
        <3> QED
            BY <1>2, <2>1, <2>2, <2>3, <3>2 DEF PyArguments, InArguments
    <2>4. CASE ~ (k + 1 < j - 1)
        BY <1>2, <2>1, <2>2, <2>4 DEF PyArguments, InArguments
    <2> QED
        BY <2>3, <2>4
<1> QED
    BY <1>1, <1>2

LEMMA CallsAre ==
    ASSUME NEW ts, Len(ts) \in Nat, NEW i \in 1..Len(ts), NEW j \in i..Len(ts), NEW shorter,
           Shorter(ts, shorter, i, j)
    PROVE  \A t : t \in PyCalls(ts, shorter, i, j) <=> InCall(ts, t, i, j)
<1>1. ASSUME NEW k \in (i + 1)..(j - 1)
      PROVE  /\ shorter[<<i, k - 1>>]["primary"] = Trees(ts, i, k - 1, "primary")
             /\ \A args : args \in PyArguments(ts, shorter, k + 1, j - 1)
                            <=> InArguments(ts, args, k + 1, j - 1)
    <2>1. i \in 1..Len(ts) /\ k - 1 \in 1..Len(ts) /\ i <= k - 1 /\ (k - 1) - i < j - i
        OBVIOUS
    <2>2. shorter[<<i, k - 1>>]["primary"] = Trees(ts, i, k - 1, "primary")
        BY <2>1 DEF Shorter
    <2> QED
        BY <2>2, ArgumentsAre
<1>2. ASSUME NEW t
      PROVE  t \in PyCalls(ts, shorter, i, j) <=> InCall(ts, t, i, j)
    <2> DEFINE Part(k) == {Call(f[2], args) : f \in {g \in shorter[<<i, k - 1>>]["primary"] :
                                                        g[1] = "leaf" /\ g[2] \in Functions},
                                              args \in PyArguments(ts, shorter, k + 1, j - 1)}
    <2>1. PyCalls(ts, shorter, i, j) =
            UNION {Part(k) : k \in {k \in (i + 1)..(j - 1) : ts[k] = "("}}
        BY DEF PyCalls
    <2>2. ASSUME NEW k \in (i + 1)..(j - 1)
          PROVE  t \in Part(k) <=> CallWith(ts, t, i, k, j)
        BY <1>1 DEF CallWith
    <2> HIDE DEF Part
    <2>3. t \in PyCalls(ts, shorter, i, j) <=>
            \E k \in (i + 1)..(j - 1) : ts[k] = "(" /\ t \in Part(k)
        BY <2>1
    <2> QED
        BY <2>2, <2>3 DEF InCall
<1> QED
    BY <1>2

\* The rules of the grammar, by what they are made of.
IsLeaf(ts, t, i) == t = Leaf(ts[i]) /\ ts[i] \in (Numbers \cup Idents) \ Keywords
IsGroup(ts, t, i, j) ==
    ts[i] = "(" /\ i + 1 < j /\ t \in Trees(ts, i + 1, j - 1, "expression")
IsPrimary(ts, t, i, j) ==
    \/ i = j /\ IsLeaf(ts, t, i)
    \/ i < j /\ ts[j] = ")" /\ (IsGroup(ts, t, i, j) \/ InCall(ts, t, i, j))
IsPower(ts, t, i, j) ==
    t \in Trees(ts, i, j, "primary") \/ InSplit(ts, t, i, j, {"**"}, "primary", "factor")
IsSigned(ts, t, i, j) ==
    i < j /\ ts[i] \in Signs /\ \E u \in Trees(ts, i + 1, j, "factor") : t = Signed(ts[i], u)

LEMMA GroupsAre ==
    ASSUME NEW ts, Len(ts) \in Nat, NEW i \in 1..Len(ts), NEW j \in i..Len(ts), NEW shorter,
           Shorter(ts, shorter, i, j)
    PROVE  \A t : t \in PyGroup(ts, shorter, i, j) <=> IsGroup(ts, t, i, j)
<1>1. CASE i + 1 < j
    <2>1. i + 1 \in 1..Len(ts) /\ j - 1 \in 1..Len(ts) /\ i + 1 <= j - 1 /\ (j - 1) - (i + 1) < j - i
        BY <1>1
    <2>2. shorter[<<i + 1, j - 1>>]["expression"] = Trees(ts, i + 1, j - 1, "expression")
        BY <2>1 DEF Shorter
    <2> QED
        BY <1>1, <2>2 DEF PyGroup, IsGroup
<1>2. CASE ~ (i + 1 < j)
    BY <1>2 DEF PyGroup, IsGroup
<1> QED
    BY <1>1, <1>2

LEMMA PrimariesAre ==
    ASSUME NEW ts, Len(ts) \in Nat, NEW i \in 1..Len(ts), NEW j \in i..Len(ts), NEW shorter,
           Shorter(ts, shorter, i, j)
    PROVE  \A t : t \in PyPrimary(ts, shorter, i, j) <=> IsPrimary(ts, t, i, j)
<1>1. CASE i = j
    <2>1. ~ (i < j)
        BY <1>1
    <2>2. PyPrimary(ts, shorter, i, j) = {Leaf(x) : x \in {ts[i]} \cap ((Numbers \cup Idents) \ Keywords)}
        BY <1>1 DEF PyPrimary
    <2> QED
        BY <1>1, <2>1, <2>2 DEF IsPrimary, IsLeaf
<1>2. CASE i # j
    <2>1. i < j
        BY <1>2
    <2>2. PyPrimary(ts, shorter, i, j) =
            IF ts[j] = ")" THEN PyGroup(ts, shorter, i, j) \cup PyCalls(ts, shorter, i, j) ELSE {}
        BY <1>2 DEF PyPrimary
    <2> QED
        BY <1>2, <2>1, <2>2, GroupsAre, CallsAre DEF IsPrimary
<1> QED
    BY <1>1, <1>2

\* The set of every rule.
LEMMA RuleSets ==
    ASSUME NEW ts, Len(ts) \in Nat, NEW i \in 1..Len(ts), NEW j \in i..Len(ts)
    PROVE  \E shorter :
            /\ Shorter(ts, shorter, i, j)
            /\ Trees(ts, i, j, "primary") = PyPrimary(ts, shorter, i, j)
            /\ Trees(ts, i, j, "factor") = PyFactor(ts, shorter, i, j)
            /\ Trees(ts, i, j, "term") = PyTerm(ts, shorter, i, j)
            /\ Trees(ts, i, j, "sum") = PySum(ts, shorter, i, j)
            /\ Trees(ts, i, j, "expression") = PyExpression(ts, shorter, i, j)
            /\ Trees(ts, i, j, "list") = PyList(ts, shorter, i, j)
<1>1. PICK shorter :
        /\ Shorter(ts, shorter, i, j)
        /\ \A rule : Trees(ts, i, j, rule) = PyTrees(ts, shorter, i, j)[rule]
    BY TreesOf
<1>2. /\ PyTrees(ts, shorter, i, j)["primary"] = PyPrimary(ts, shorter, i, j)
      /\ PyTrees(ts, shorter, i, j)["factor"] = PyFactor(ts, shorter, i, j)
      /\ PyTrees(ts, shorter, i, j)["term"] = PyTerm(ts, shorter, i, j)
      /\ PyTrees(ts, shorter, i, j)["sum"] = PySum(ts, shorter, i, j)
      /\ PyTrees(ts, shorter, i, j)["expression"] = PyExpression(ts, shorter, i, j)
      /\ PyTrees(ts, shorter, i, j)["list"] = PyList(ts, shorter, i, j)
    BY DEF PyTrees
<1> QED
    BY <1>1, <1>2

LEMMA SplitsAre ==
    ASSUME NEW ts, Len(ts) \in Nat, NEW i \in 1..Len(ts), NEW j \in i..Len(ts), NEW shorter,
           Shorter(ts, shorter, i, j)
    PROVE  /\ \A t : t \in PySplit(ts, shorter, i, j, {"**"}, "primary", "factor")
                        <=> InSplit(ts, t, i, j, {"**"}, "primary", "factor")
           /\ \A t : t \in PySplit(ts, shorter, i, j, Products, "term", "factor")
                        <=> InSplit(ts, t, i, j, Products, "term", "factor")
           /\ \A t : t \in PySplit(ts, shorter, i, j, Signs, "sum", "term")
                        <=> InSplit(ts, t, i, j, Signs, "sum", "term")
           /\ \A t : t \in PySplit(ts, shorter, i, j, Comparators, "sum", "sum")
                        <=> InSplit(ts, t, i, j, Comparators, "sum", "sum")
           /\ \A t : t \in PySplit(ts, shorter, i, j, {","}, "list", "expression")
                        <=> InSplit(ts, t, i, j, {","}, "list", "expression")
BY SplitIs

\* The grammar, as the rest of the proof uses it.
LEMMA Rules ==
    ASSUME NEW ts, Len(ts) \in Nat, NEW i \in 1..Len(ts), NEW j \in i..Len(ts), NEW t
    PROVE  /\ t \in Trees(ts, i, j, "primary") <=> IsPrimary(ts, t, i, j)
           /\ t \in Trees(ts, i, j, "factor") <=> IsPower(ts, t, i, j) \/ IsSigned(ts, t, i, j)
           /\ t \in Trees(ts, i, j, "term") <=>
                \/ t \in Trees(ts, i, j, "factor")
                \/ InSplit(ts, t, i, j, Products, "term", "factor")
           /\ t \in Trees(ts, i, j, "sum") <=>
                \/ t \in Trees(ts, i, j, "term")
                \/ InSplit(ts, t, i, j, Signs, "sum", "term")
           /\ t \in Trees(ts, i, j, "expression") <=>
                \/ t \in Trees(ts, i, j, "sum")
                \/ InSplit(ts, t, i, j, Comparators, "sum", "sum")
           /\ t \in Trees(ts, i, j, "list") <=>
                \/ \E u \in Trees(ts, i, j, "expression") : t = <<u>>
                \/ InSplit(ts, t, i, j, {","}, "list", "expression")
<1>1. PICK shorter :
            /\ Shorter(ts, shorter, i, j)
            /\ Trees(ts, i, j, "primary") = PyPrimary(ts, shorter, i, j)
            /\ Trees(ts, i, j, "factor") = PyFactor(ts, shorter, i, j)
            /\ Trees(ts, i, j, "term") = PyTerm(ts, shorter, i, j)
            /\ Trees(ts, i, j, "sum") = PySum(ts, shorter, i, j)
            /\ Trees(ts, i, j, "expression") = PyExpression(ts, shorter, i, j)
            /\ Trees(ts, i, j, "list") = PyList(ts, shorter, i, j)
    BY RuleSets
<1>2. t \in Trees(ts, i, j, "primary") <=> IsPrimary(ts, t, i, j)
    BY <1>1, PrimariesAre
<1>3. t \in PyPower(ts, shorter, i, j) <=> IsPower(ts, t, i, j)
    BY <1>1, SplitsAre DEF PyPower, IsPower
<1>4. t \in (IF i < j /\ ts[i] \in Signs THEN {Signed(ts[i], u) : u \in shorter[<<i + 1, j>>].factor}
             ELSE {}) <=> IsSigned(ts, t, i, j)
    <2>1. CASE i < j
        <3>1. i + 1 \in 1..Len(ts) /\ j \in 1..Len(ts) /\ i + 1 <= j /\ j - (i + 1) < j - i
            BY <2>1
        <3>2. shorter[<<i + 1, j>>]["factor"] = Trees(ts, i + 1, j, "factor")
            BY <1>1, <3>1 DEF Shorter
        <3> QED
            BY <2>1, <3>2 DEF IsSigned
    <2>2. CASE ~ (i < j)
        BY <2>2 DEF IsSigned
    <2> QED
        BY <2>1, <2>2
<1>5. t \in Trees(ts, i, j, "factor") <=> IsPower(ts, t, i, j) \/ IsSigned(ts, t, i, j)
    BY <1>1, <1>3, <1>4 DEF PyFactor
<1>6. t \in Trees(ts, i, j, "term") <=>
        \/ t \in Trees(ts, i, j, "factor")
        \/ InSplit(ts, t, i, j, Products, "term", "factor")
    BY <1>1, SplitsAre DEF PyTerm
<1>7. t \in Trees(ts, i, j, "sum") <=>
        \/ t \in Trees(ts, i, j, "term")
        \/ InSplit(ts, t, i, j, Signs, "sum", "term")
    BY <1>1, SplitsAre DEF PySum
<1>8. t \in Trees(ts, i, j, "expression") <=>
        \/ t \in Trees(ts, i, j, "sum")
        \/ InSplit(ts, t, i, j, Comparators, "sum", "sum")
    BY <1>1, SplitsAre DEF PyExpression
<1>9. t \in Trees(ts, i, j, "list") <=>
        \/ \E u \in Trees(ts, i, j, "expression") : t = <<u>>
        \/ InSplit(ts, t, i, j, {","}, "list", "expression")
    BY <1>1, SplitsAre DEF PyList
<1> QED
    BY <1>2, <1>5, <1>6, <1>7, <1>8, <1>9

-----------------------------------------------------------------------------
(* Tokens.                                                                  *)

Punctuation == {"**", "(", ")", ",", Eof}

\* A token has one type.
LEMMA Kinds ==
    /\ Numbers \cap Idents = {} /\ Numbers \cap Signs = {} /\ Numbers \cap Products = {}
    /\ Numbers \cap Comparators = {} /\ Numbers \cap Punctuation = {}
    /\ Idents \cap Signs = {} /\ Idents \cap Products = {} /\ Idents \cap Comparators = {}
    /\ Idents \cap Punctuation = {} /\ Signs \cap Products = {} /\ Signs \cap Comparators = {}
    /\ Signs \cap Punctuation = {} /\ Products \cap Comparators = {}
    /\ Products \cap Punctuation = {} /\ Comparators \cap Punctuation = {}
<1>1. PICK types : types = <<Numbers, Idents, Signs, Products, Comparators, Punctuation>>
    OBVIOUS
<1>2. \A a, b \in DOMAIN types : a # b => types[a] \cap types[b] = {}
    BY <1>1, TokenAssumption DEF Punctuation
<1>3. DOMAIN types = 1..6
    BY <1>1
<1>4. /\ types[1] = Numbers /\ types[2] = Idents /\ types[3] = Signs /\ types[4] = Products
      /\ types[5] = Comparators /\ types[6] = Punctuation
    BY <1>1
<1>5. \A a, b \in 1..6 : a # b => types[a] \cap types[b] = {}
    BY <1>2, <1>3
<1>6. /\ Numbers \cap Idents = {} /\ Numbers \cap Signs = {} /\ Numbers \cap Products = {}
      /\ Numbers \cap Comparators = {} /\ Numbers \cap Punctuation = {}
    BY <1>4, <1>5
<1>7. /\ Idents \cap Signs = {} /\ Idents \cap Products = {} /\ Idents \cap Comparators = {}
      /\ Idents \cap Punctuation = {}
    BY <1>4, <1>5
<1>8. /\ Signs \cap Products = {} /\ Signs \cap Comparators = {} /\ Signs \cap Punctuation = {}
    BY <1>4, <1>5
<1>9. /\ Products \cap Comparators = {} /\ Products \cap Punctuation = {}
      /\ Comparators \cap Punctuation = {}
    BY <1>4, <1>5
<1> QED
    BY <1>6, <1>7, <1>8, <1>9

\* What an operand begins with.
Openers == Numbers \cup Idents \cup Signs \cup {"("}

\* What cannot follow a tree of a rule, for it would be read on.
AfterUnary == {"(", "**"}
AfterTerm == AfterUnary \cup Products
AfterArith == AfterTerm \cup Signs
AfterComparison == AfterArith \cup Comparators

\* What ends a tree is no operator of its own level.
LEMMA Stops ==
    /\ "(" \in AfterUnary /\ AfterUnary \subseteq AfterTerm /\ AfterTerm \subseteq AfterArith
    /\ AfterArith \subseteq AfterComparison
    /\ Products \cap AfterUnary = {} /\ Signs \cap AfterTerm = {}
    /\ Comparators \cap AfterArith = {} /\ "," \notin AfterComparison
    /\ ")" \notin AfterComparison /\ Eof \notin AfterComparison
    /\ ")" \notin Openers /\ "," \notin Openers /\ Eof \notin Openers
    /\ "(" \notin Products /\ "(" \notin Signs /\ "(" \notin Comparators
<1>1. /\ "(" \in Punctuation /\ ")" \in Punctuation /\ "," \in Punctuation
      /\ Eof \in Punctuation /\ "**" \in Punctuation
    BY DEF Punctuation
<1>2. Eof # "(" /\ Eof # "**" /\ Eof # ")" /\ Eof # ","
    BY DEF Eof
<1>3. /\ "(" \in AfterUnary /\ AfterUnary \subseteq AfterTerm /\ AfterTerm \subseteq AfterArith
      /\ AfterArith \subseteq AfterComparison
    BY DEF AfterUnary, AfterTerm, AfterArith, AfterComparison
<1>4. Products \cap AfterUnary = {} /\ Signs \cap AfterTerm = {} /\ Comparators \cap AfterArith = {}
    BY <1>1, Kinds DEF AfterUnary, AfterTerm, AfterArith
<1>5. "," \notin AfterComparison /\ ")" \notin AfterComparison /\ Eof \notin AfterComparison
    BY <1>1, <1>2, Kinds DEF AfterUnary, AfterTerm, AfterArith, AfterComparison
<1>6. ")" \notin Openers /\ "," \notin Openers /\ Eof \notin Openers
    BY <1>1, <1>2, Kinds DEF Openers
<1>7. "(" \notin Products /\ "(" \notin Signs /\ "(" \notin Comparators
    BY <1>1, Kinds
<1> QED
    BY <1>3, <1>4, <1>5, <1>6, <1>7

\* A tree begins with an opener, and a primary with no sign.
Begins(ts, i, j) ==
    /\ \A rule \in {"primary", "factor", "term", "sum", "expression", "list"} :
            Trees(ts, i, j, rule) # {} => ts[i] \in Openers
    /\ Trees(ts, i, j, "primary") # {} => ts[i] \notin Signs

\* Every tree begins with a token that a method does not refuse.
LEMMA FirstTokens ==
    ASSUME NEW ts, Len(ts) \in Nat
    PROVE  \A i \in 1..Len(ts) : \A j \in i..Len(ts) : Begins(ts, i, j)
<1> DEFINE S == {n \in Nat : \A i \in 1..Len(ts) : \A j \in i..Len(ts) : j - i = n => Begins(ts, i, j)}
<1>1. ASSUME NEW n \in Nat, \A m \in 0..(n - 1) : m \in S
      PROVE  n \in S
    <2>1. SUFFICES ASSUME NEW i \in 1..Len(ts), NEW j \in i..Len(ts), j - i = n
                   PROVE  Begins(ts, i, j)
        OBVIOUS
    <2>2. ASSUME NEW k \in (i + 1)..(j - 1)
          PROVE  Begins(ts, i, k - 1)
        <3>1. /\ k - 1 \in i..Len(ts) /\ (k - 1) - i \in 0..(n - 1)
            BY <2>1
        <3> QED
            BY <1>1, <3>1
    <2>3. \A t, ops, left, right : InSplit(ts, t, i, j, ops, left, right)
                => \E k \in (i + 1)..(j - 1) : Trees(ts, i, k - 1, left) # {}
        BY Zenon DEF InSplit, Halves
    <2>4. ASSUME NEW t \in Trees(ts, i, j, "primary")
          PROVE  ts[i] \in Openers /\ ts[i] \notin Signs
        <3>1. IsPrimary(ts, t, i, j)
            BY Rules
        <3>2. CASE IsLeaf(ts, t, i)
            BY <3>2, Kinds DEF IsLeaf, Openers
        <3>3. CASE IsGroup(ts, t, i, j)
            BY <3>3, Stops DEF IsGroup, Openers
        <3>4. CASE InCall(ts, t, i, j)
            <4>1. PICK k \in (i + 1)..(j - 1) : Trees(ts, i, k - 1, "primary") # {}
                BY <3>4 DEF InCall, CallWith
            <4> QED
                BY <2>2, <4>1 DEF Begins
        <3> QED
            BY <3>1, <3>2, <3>3, <3>4 DEF IsPrimary
    <2>5. ASSUME NEW t \in Trees(ts, i, j, "factor")
          PROVE  ts[i] \in Openers
        <3>1. IsPower(ts, t, i, j) \/ IsSigned(ts, t, i, j)
            BY Rules
        <3>2. CASE IsSigned(ts, t, i, j)
            BY <3>2 DEF IsSigned, Openers
        <3>3. CASE t \in Trees(ts, i, j, "primary")
            BY <2>4, <3>3
        <3>4. CASE InSplit(ts, t, i, j, {"**"}, "primary", "factor")
            BY <2>2, <2>3, <3>4 DEF Begins
        <3> QED
            BY <3>1, <3>2, <3>3, <3>4 DEF IsPower
    <2>6. ASSUME NEW t \in Trees(ts, i, j, "term")
          PROVE  ts[i] \in Openers
        <3>1. CASE t \in Trees(ts, i, j, "factor")
            BY <2>5, <3>1
        <3>2. CASE InSplit(ts, t, i, j, Products, "term", "factor")
            BY <2>2, <2>3, <3>2 DEF Begins
        <3> QED
            BY <3>1, <3>2, Rules
    <2>7. ASSUME NEW t \in Trees(ts, i, j, "sum")
          PROVE  ts[i] \in Openers
        <3>1. CASE t \in Trees(ts, i, j, "term")
            BY <2>6, <3>1
        <3>2. CASE InSplit(ts, t, i, j, Signs, "sum", "term")
            BY <2>2, <2>3, <3>2 DEF Begins
        <3> QED
            BY <3>1, <3>2, Rules
    <2>8. ASSUME NEW t \in Trees(ts, i, j, "expression")
          PROVE  ts[i] \in Openers
        <3>1. CASE t \in Trees(ts, i, j, "sum")
            BY <2>7, <3>1
        <3>2. CASE InSplit(ts, t, i, j, Comparators, "sum", "sum")
            BY <2>2, <2>3, <3>2 DEF Begins
        <3> QED
            BY <3>1, <3>2, Rules
    <2>9. ASSUME NEW t \in Trees(ts, i, j, "list")
          PROVE  ts[i] \in Openers
        <3>1. CASE \E u \in Trees(ts, i, j, "expression") : t = <<u>>
            BY <2>8, <3>1
        <3>2. CASE InSplit(ts, t, i, j, {","}, "list", "expression")
            BY <2>2, <2>3, <3>2 DEF Begins
        <3> QED
            BY <3>1, <3>2, Rules
    <2> QED
        BY <2>4, <2>5, <2>6, <2>7, <2>8, <2>9 DEF Begins
<1> HIDE DEF S
<1>2. \A n \in Nat : n \in S
    BY <1>1, NaturalSetBelow
<1>3. ASSUME NEW i \in 1..Len(ts), NEW j \in i..Len(ts)
      PROVE  Begins(ts, i, j)
    <2>1. j - i \in Nat
        OBVIOUS
    <2> QED
        BY <1>2, <2>1 DEF S
<1> QED
    BY <1>3

-----------------------------------------------------------------------------
(* What a method returns, and the grammar.                                  *)

\* No reading comes of r any more: a bracket behind a tree is not read on.
Stuck(ts, r) == Failed(r) \/ Peek(ts, r.at) = "("
Lands(ts, r, t, at) == Stuck(ts, r) \/ r = Read(t, at)

\* r is the one reading that begins at i, as far as it goes.
Finds(ts, i, r, rule, stops) ==
    \A j \in i..Len(ts) : \A t \in Trees(ts, i, j, rule) :
        Peek(ts, j + 1) \notin stops => Lands(ts, r, t, j + 1)
\* r is a reading.
Keeps(ts, i, r, rule) ==
    ~ Failed(r) => /\ r.at \in (i + 1)..(Len(ts) + 1)
                   /\ r.tree \in Trees(ts, i, r.at - 1, rule)

\* The fields of what a method returns.
LEMMA ReadFields ==
    ASSUME NEW t, NEW at
    PROVE  Read(t, at).tree = t /\ Read(t, at).at = at /\ ~ Failed(Read(t, at))
BY DEF Read, Failed

LEMMA RefusedFails == ASSUME NEW at PROVE Failed(Refused(at))
BY DEF Refused, Failed

LEMMA PeekIs ==
    ASSUME NEW ts, Len(ts) \in Nat, NEW i \in Nat
    PROVE  /\ i <= Len(ts) => Peek(ts, i) = ts[i]
           /\ i > Len(ts) => Peek(ts, i) = Eof
BY DEF Peek

\* Reading the right operand decides where the whole reading ends.
LEMMA JoinLands ==
    ASSUME NEW ts, NEW op, NEW l, NEW k, NEW r, NEW t, NEW at, Lands(ts, r, t, at)
    PROVE  Lands(ts, Join(op, Read(l, k), r), Node(op, l, t), at)
<1>1. CASE Failed(r)
    BY <1>1 DEF Join, Lands, Stuck
<1>2. CASE ~ Failed(r)
    <2>1. Join(op, Read(l, k), r) = Read(Node(op, l, r.tree), r.at)
        BY <1>2, ReadFields DEF Join
    <2>2. Peek(ts, r.at) = "(" \/ r = Read(t, at)
        BY <1>2 DEF Lands, Stuck
    <2>3. CASE Peek(ts, r.at) = "("
        BY <2>1, <2>3, ReadFields DEF Lands, Stuck
    <2>4. CASE r = Read(t, at)
        BY <2>1, <2>4, ReadFields DEF Lands
    <2> QED
        BY <2>2, <2>3, <2>4
<1> QED
    BY <1>1, <1>2

LEMMA TurnOnStuck ==
    ASSUME NEW ts, NEW ops, NEW method, NEW later, NEW r, "(" \notin ops, Stuck(ts, r)
    PROVE  Turn(ts, ops, method, later, r) = r
BY DEF Turn, Stuck

\* A chain of operands and operators of one kind takes at most a turn per token.
LEMMA ChainLands ==
    ASSUME NEW ts, Len(ts) \in Nat, NEW i \in 1..Len(ts), NEW later, NEW ops, NEW method,
           NEW first, NEW starts, NEW chain, NEW operand, NEW stops,
           "(" \notin ops, ops \cap stops = {},
           \A j \in i..Len(ts) : \A t \in Trees(ts, i, j, chain) :
                t \in starts[j] \/ InSplit(ts, t, i, j, ops, chain, operand),
           \A j \in i..Len(ts) : \A t \in starts[j] :
                Peek(ts, j + 1) \notin stops => Lands(ts, first, t, j + 1),
           \A q \in (i + 1)..Len(ts) : Finds(ts, q, Ahead(ts, later, q)[method], operand, stops)
    PROVE  \A j \in i..Len(ts) : \A t \in Trees(ts, i, j, chain) :
                Peek(ts, j + 1) \notin stops =>
                    \E m \in 0..(j - i) : Lands(ts, Turns(ts, ops, method, later, first)[m], t, j + 1)
<1>1. PICK T : T = Turns(ts, ops, method, later, first)
    OBVIOUS
<1>2. T[0] = first /\ \A m \in 1..Len(ts) : T[m] = Turn(ts, ops, method, later, T[m - 1])
    BY <1>1, TurnsStep
<1> DEFINE S == {n \in Nat : \A j \in i..Len(ts) : j - i = n =>
                    \A t \in Trees(ts, i, j, chain) : Peek(ts, j + 1) \notin stops =>
                        \E m \in 0..n : Lands(ts, T[m], t, j + 1)}
<1>3. ASSUME NEW n \in Nat, \A m \in 0..(n - 1) : m \in S
      PROVE  n \in S
    <2>1. SUFFICES ASSUME NEW j \in i..Len(ts), j - i = n, NEW t \in Trees(ts, i, j, chain),
                          Peek(ts, j + 1) \notin stops
                   PROVE  \E m \in 0..n : Lands(ts, T[m], t, j + 1)
        OBVIOUS
    <2>2. CASE t \in starts[j]
        <3>1. Lands(ts, T[0], t, j + 1)
            BY <1>2, <2>1, <2>2
        <3>2. 0 \in 0..n
            OBVIOUS
        <3> QED
            BY <3>1, <3>2
    <2>3. CASE InSplit(ts, t, i, j, ops, chain, operand)
        <3>1. PICK k \in (i + 1)..(j - 1) : ts[k] \in ops /\ Halves(ts, t, i, k, j, chain, operand)
            BY <2>3 DEF InSplit
        <3>2. PICK l \in Trees(ts, i, k - 1, chain), r \in Trees(ts, k + 1, j, operand) :
                t = Node(ts[k], l, r)
            BY <3>1 DEF Halves
        <3>3. /\ k - 1 \in i..Len(ts) /\ (k - 1) - i \in 0..(n - 1) /\ (k - 1) + 1 = k
              /\ k + 1 \in (i + 1)..Len(ts) /\ j \in (k + 1)..Len(ts) /\ k \in Nat /\ k <= Len(ts)
            BY <2>1
        <3>4. Peek(ts, k) = ts[k] /\ ts[k] \notin stops
            BY <3>1, <3>3, PeekIs
        <3>5. PICK m \in 0..((k - 1) - i) : Lands(ts, T[m], l, k)
            BY <1>3, <3>3, <3>4
        <3>6. m \in 0..n /\ m + 1 \in 0..n /\ m + 1 \in 1..Len(ts) /\ (m + 1) - 1 = m
            BY <2>1, <3>3
        <3>7. CASE Stuck(ts, T[m])
            BY <3>6, <3>7 DEF Lands
        <3>8. CASE T[m] = Read(l, k)
            <4>1. T[m + 1] = Join(ts[k], Read(l, k), Ahead(ts, later, k + 1)[method])
                <5>1. T[m + 1] = Turn(ts, ops, method, later, Read(l, k))
                    BY <1>2, <3>6, <3>8
                <5>2. ~ Failed(Read(l, k)) /\ Read(l, k).at = k /\ Peek(ts, k) \in ops
                    BY <3>1, <3>4, ReadFields
                <5> QED
                    BY <3>4, <5>1, <5>2 DEF Turn
            <4>2. Lands(ts, Ahead(ts, later, k + 1)[method], r, j + 1)
                BY <2>1, <3>2, <3>3 DEF Finds
            <4>3. Lands(ts, T[m + 1], t, j + 1)
                BY <3>2, <4>1, <4>2, JoinLands
            <4> QED
                BY <3>6, <4>3
        <3> QED
            BY <3>5, <3>7, <3>8 DEF Lands
    <2> QED
        BY <2>1, <2>2, <2>3
<1> HIDE DEF S
<1>4. \A n \in Nat : n \in S
    BY <1>3, NaturalSetBelow
<1>5. ASSUME NEW j \in i..Len(ts), NEW t \in Trees(ts, i, j, chain), Peek(ts, j + 1) \notin stops
      PROVE  \E m \in 0..(j - i) : Lands(ts, T[m], t, j + 1)
    <2>1. j - i \in Nat
        OBVIOUS
    <2>2. j - i \in S
        BY <1>4, <2>1
    <2> QED
        BY <1>5, <2>2 DEF S
<1> QED
    BY <1>1, <1>5

\* The loop ends there unless another operator follows.
LEMMA LoopLands ==
    ASSUME NEW ts, Len(ts) \in Nat, NEW ops, NEW method, NEW later, NEW first,
           NEW m \in 0..Len(ts), NEW t, NEW at, "(" \notin ops, Peek(ts, at) \notin ops,
           Lands(ts, Turns(ts, ops, method, later, first)[m], t, at)
    PROVE  Lands(ts, Loop(ts, ops, method, later, first), t, at)
<1>1. PICK r : r = Turns(ts, ops, method, later, first)[m]
    OBVIOUS
<1>2. Lands(ts, r, t, at)
    BY <1>1
<1>3. Turn(ts, ops, method, later, r) = r
    <2>1. CASE Stuck(ts, r)
        BY <2>1, TurnOnStuck
    <2>2. CASE r = Read(t, at)
        BY <2>2, ReadFields DEF Turn
    <2> QED
        BY <1>2, <2>1, <2>2 DEF Lands
<1>4. Loop(ts, ops, method, later, first) = r
    BY <1>1, <1>3, TurnsStay, LoopIsTurns
<1> QED
    BY <1>2, <1>4

\* A loop finds the chains of its level if its first call and its operands are found.
LEMMA LoopFinds ==
    ASSUME NEW ts, Len(ts) \in Nat, NEW i \in 1..Len(ts), NEW later, NEW ops, NEW method,
           NEW first, NEW starts, NEW chain, NEW operand, NEW stops,
           "(" \notin ops, ops \cap stops = {},
           \A j \in i..Len(ts) : \A t \in Trees(ts, i, j, chain) :
                t \in starts[j] \/ InSplit(ts, t, i, j, ops, chain, operand),
           \A j \in i..Len(ts) : \A t \in starts[j] :
                Peek(ts, j + 1) \notin stops => Lands(ts, first, t, j + 1),
           \A q \in (i + 1)..Len(ts) : Finds(ts, q, Ahead(ts, later, q)[method], operand, stops)
    PROVE  Finds(ts, i, Loop(ts, ops, method, later, first), chain, stops \cup ops)
<1>1. SUFFICES ASSUME NEW j \in i..Len(ts), NEW t \in Trees(ts, i, j, chain),
                      Peek(ts, j + 1) \notin stops \cup ops
               PROVE  Lands(ts, Loop(ts, ops, method, later, first), t, j + 1)
    BY DEF Finds
<1>2. PICK m \in 0..(j - i) : Lands(ts, Turns(ts, ops, method, later, first)[m], t, j + 1)
    BY <1>1, ChainLands
<1>3. m \in 0..Len(ts)
    OBVIOUS
<1> QED
    BY <1>1, <1>2, <1>3, LoopLands

\* A loop of readings returns one.
LEMMA LoopKeeps ==
    ASSUME NEW ts, Len(ts) \in Nat, NEW i \in 1..(Len(ts) + 1), NEW later, NEW ops, NEW method,
           NEW first, NEW chain, NEW operand, Eof \notin ops,
           Keeps(ts, i, first, chain),
           \A q \in (i + 1)..(Len(ts) + 1) : Keeps(ts, q, Ahead(ts, later, q)[method], operand),
           \A j \in i..Len(ts) : \A t :
                InSplit(ts, t, i, j, ops, chain, operand) => t \in Trees(ts, i, j, chain)
    PROVE  Keeps(ts, i, Loop(ts, ops, method, later, first), chain)
<1>1. PICK T : T = Turns(ts, ops, method, later, first)
    OBVIOUS
<1>2. T[0] = first /\ \A m \in 1..Len(ts) : T[m] = Turn(ts, ops, method, later, T[m - 1])
    BY <1>1, TurnsStep
<1> DEFINE S == {m \in Nat : m <= Len(ts) => Keeps(ts, i, T[m], chain)}
<1>3. 0 \in S
    BY <1>2
<1>4. ASSUME NEW m \in Nat, m \in S PROVE m + 1 \in S
    <2>1. SUFFICES ASSUME m + 1 <= Len(ts) PROVE Keeps(ts, i, T[m + 1], chain)
        OBVIOUS
    <2>2. Keeps(ts, i, T[m], chain)
        BY <1>4, <2>1
    <2>3. T[m + 1] = Turn(ts, ops, method, later, T[m])
        <3>1. m + 1 \in 1..Len(ts) /\ (m + 1) - 1 = m
            BY <2>1
        <3> QED
            BY <1>2, <3>1
    <2>4. PICK l : l = T[m]
        OBVIOUS
    <2>5. CASE Failed(l) \/ Peek(ts, l.at) \notin ops
        BY <2>2, <2>3, <2>4, <2>5 DEF Turn
    <2>6. CASE ~ Failed(l) /\ Peek(ts, l.at) \in ops
        <3>1. l.at \in (i + 1)..(Len(ts) + 1) /\ l.tree \in Trees(ts, i, l.at - 1, chain)
            BY <2>2, <2>4, <2>6 DEF Keeps
        <3>2. PICK k \in (i + 1)..(Len(ts) + 1) : k = l.at
            BY <3>1
        <3>3. k <= Len(ts) /\ Peek(ts, k) = ts[k] /\ ts[k] \in ops
            BY <2>6, <3>2, PeekIs
        <3>4. PICK r : r = Ahead(ts, later, k + 1)[method]
            OBVIOUS
        <3>5. k + 1 \in (i + 1)..(Len(ts) + 1)
            BY <3>3
        <3>6. Keeps(ts, k + 1, r, operand)
            BY <3>4, <3>5
        <3>7. T[m + 1] = Join(ts[k], l, r)
            BY <2>3, <2>4, <2>6, <3>2, <3>3, <3>4 DEF Turn
        <3>8. CASE Failed(r)
            BY <3>7, <3>8 DEF Join, Keeps
        <3>9. CASE ~ Failed(r)
            <4>1. T[m + 1] = Read(Node(ts[k], l.tree, r.tree), r.at)
                BY <3>7, <3>9 DEF Join
            <4>2. r.at \in (k + 2)..(Len(ts) + 1) /\ r.tree \in Trees(ts, k + 1, r.at - 1, operand)
                BY <3>6, <3>9 DEF Keeps
            <4>3. PICK j : j = r.at - 1
                OBVIOUS
            <4>4. j \in i..Len(ts) /\ k \in (i + 1)..(j - 1) /\ r.at \in (i + 1)..(Len(ts) + 1)
                BY <3>2, <4>2, <4>3
            <4>5. Halves(ts, Node(ts[k], l.tree, r.tree), i, k, j, chain, operand)
                BY <3>1, <3>2, <4>2, <4>3 DEF Halves
            <4>6. InSplit(ts, Node(ts[k], l.tree, r.tree), i, j, ops, chain, operand)
                BY <3>3, <4>4, <4>5 DEF InSplit
            <4>7. Node(ts[k], l.tree, r.tree) \in Trees(ts, i, j, chain)
                BY <4>4, <4>6
            <4> QED
                BY <4>1, <4>3, <4>4, <4>7, ReadFields DEF Keeps
        <3> QED
            BY <3>8, <3>9
    <2> QED
        BY <2>5, <2>6
<1> HIDE DEF S
<1>5. Len(ts) \in S
    BY <1>3, <1>4, NaturalSet
<1>6. Len(ts) <= Len(ts)
    OBVIOUS
<1>7. Keeps(ts, i, T[Len(ts)], chain)
    BY <1>5, <1>6 DEF S
<1> QED
    BY <1>1, <1>7, LoopIsTurns

\* A loop refuses what its first operand refuses.
LEMMA LoopFails ==
    ASSUME NEW ts, NEW ops, NEW method, NEW later, NEW first, Failed(first)
    PROVE  Failed(Loop(ts, ops, method, later, first))
BY DEF Loop

-----------------------------------------------------------------------------
(* What the engine reads is Python.                                         *)

\* parsePrimary, by the token it finds.
LEMMA PrimaryIs ==
    ASSUME NEW ts, Len(ts) \in Nat, NEW i \in 1..(Len(ts) + 1), NEW later
    PROVE  /\ Peek(ts, i) \in Idents /\ Peek(ts, i + 1) = "("
                => Primary(ts, later, i) = CallAt(ts, later, i)
           /\ Peek(ts, i) \in Idents /\ Peek(ts, i + 1) # "("
                => Primary(ts, later, i) = Read(Leaf(ts[i]), i + 1)
           /\ Peek(ts, i) \in Numbers => Primary(ts, later, i) = Read(Leaf(ts[i]), i + 1)
           /\ Peek(ts, i) = "("
                => Primary(ts, later, i) = Expect(ts, ")", Ahead(ts, later, i + 1).comparison)
           /\ Peek(ts, i) \notin Idents \cup Numbers \cup {"("} => Failed(Primary(ts, later, i))
<1>1. Numbers \cap Idents = {} /\ "(" \notin Idents /\ "(" \notin Numbers
    BY Kinds DEF Punctuation
<1>2. ASSUME Peek(ts, i) \in Idents
      PROVE  Peek(ts, i) \notin Numbers /\ Peek(ts, i) # "("
    BY <1>1, <1>2
<1>3. ASSUME Peek(ts, i) \in Numbers
      PROVE  Peek(ts, i) \notin Idents /\ Peek(ts, i) # "("
    BY <1>1, <1>3
<1>4. ASSUME Peek(ts, i) = "("
      PROVE  Peek(ts, i) \notin Idents /\ Peek(ts, i) \notin Numbers
    BY <1>1, <1>4
<1>5. Peek(ts, i) \in Idents /\ Peek(ts, i + 1) = "("
        => Primary(ts, later, i) = CallAt(ts, later, i)
    BY <1>2 DEF Primary
<1>6. Peek(ts, i) \in Idents /\ Peek(ts, i + 1) # "("
        => Primary(ts, later, i) = Read(Leaf(ts[i]), i + 1)
    BY <1>2 DEF Primary
<1>7. Peek(ts, i) \in Numbers => Primary(ts, later, i) = Read(Leaf(ts[i]), i + 1)
    BY <1>3 DEF Primary
<1>8. Peek(ts, i) = "("
        => Primary(ts, later, i) = Expect(ts, ")", Ahead(ts, later, i + 1).comparison)
    BY <1>4 DEF Primary
<1>9. Peek(ts, i) \notin Idents \cup Numbers \cup {"("} => Primary(ts, later, i) = Refused(i)
    BY DEF Primary
<1> QED
    BY <1>5, <1>6, <1>7, <1>8, <1>9, RefusedFails

SoundAt(ts, p, returned) ==
    /\ Keeps(ts, p, returned.unary, "factor")
    /\ Keeps(ts, p, returned.term, "term")
    /\ Keeps(ts, p, returned.arith, "sum")
    /\ Keeps(ts, p, returned.comparison, "expression")

\* The arguments of a call: one, and then the loop over the commas.
LEMMA ListKeeps ==
    ASSUME NEW ts, Len(ts) \in Nat, NEW p \in 1..(Len(ts) + 1), NEW r,
           Keeps(ts, p, r, "expression")
    PROVE  Keeps(ts, p, Listed(r), "list")
<1>1. CASE Failed(r)
    BY <1>1 DEF Listed, Keeps
<1>2. CASE ~ Failed(r)
    <2>1. r.at \in (p + 1)..(Len(ts) + 1) /\ r.tree \in Trees(ts, p, r.at - 1, "expression")
        BY <1>2 DEF Keeps
    <2>2. PICK j \in p..Len(ts) : j = r.at - 1
        BY <2>1
    <2>3. p \in 1..Len(ts)
        BY <2>2
    <2>4. <<r.tree>> \in Trees(ts, p, j, "list")
        BY <2>1, <2>2, <2>3, Rules
    <2>5. Listed(r) = Read(<<r.tree>>, r.at)
        BY <1>2 DEF Listed
    <2> QED
        BY <2>1, <2>2, <2>4, <2>5, ReadFields DEF Keeps
<1> QED
    BY <1>1, <1>2

LEMMA ArgumentsKeep ==
    ASSUME NEW ts, Len(ts) \in Nat, NEW p \in 1..(Len(ts) + 1), NEW later,
           \A q \in p..(Len(ts) + 1) : SoundAt(ts, q, Ahead(ts, later, q)),
           NEW args, args = Arguments(ts, later, p), ~ Failed(args)
    PROVE  args.at \in p..(Len(ts) + 1) /\ InArguments(ts, args.tree, p, args.at - 1)
<1>1. CASE Peek(ts, p) = ")"
    <2>1. args = Read(<<>>, p)
        BY <1>1 DEF Arguments
    <2>2. args.at = p /\ args.tree = <<>>
        BY <2>1, ReadFields
    <2>3. p \in Int /\ p > p - 1
        OBVIOUS
    <2>4. InArguments(ts, args.tree, p, p - 1)
        BY <2>2, <2>3 DEF InArguments
    <2> QED
        BY <2>2, <2>4
<1>2. CASE Peek(ts, p) # ")"
    <2>1. PICK first : first = Listed(Ahead(ts, later, p).comparison)
        OBVIOUS
    <2>2. PICK ops, method : ops = {","} /\ method = "comparison"
        OBVIOUS
    <2>3. args = Loop(ts, ops, method, later, first)
        BY <1>2, <2>1, <2>2 DEF Arguments
    <2>4. Keeps(ts, p, first, "list")
        <3>1. Keeps(ts, p, Ahead(ts, later, p).comparison, "expression")
            BY DEF SoundAt
        <3> QED
            BY <2>1, <3>1, ListKeeps
    <2>5. \A q \in (p + 1)..(Len(ts) + 1) : Keeps(ts, q, Ahead(ts, later, q)[method], "expression")
        <3>1. ASSUME NEW q \in (p + 1)..(Len(ts) + 1)
              PROVE  Keeps(ts, q, Ahead(ts, later, q).comparison, "expression")
            <4>1. q \in p..(Len(ts) + 1)
                OBVIOUS
            <4> QED
                BY <4>1 DEF SoundAt
        <3> QED
            BY <2>2, <3>1
    <2>6. \A j \in p..Len(ts) : \A t :
            InSplit(ts, t, p, j, ops, "list", "expression") => t \in Trees(ts, p, j, "list")
        <3>1. ASSUME NEW j \in p..Len(ts) PROVE p \in 1..Len(ts)
            OBVIOUS
        <3> QED
            BY <2>2, <3>1, Rules
    <2>7. Keeps(ts, p, args, "list")
        <3>1. Eof \notin ops
            BY <2>2 DEF Eof
        <3> QED
            BY <2>3, <2>4, <2>5, <2>6, <3>1, LoopKeeps
    <2>8. args.at \in (p + 1)..(Len(ts) + 1) /\ args.tree \in Trees(ts, p, args.at - 1, "list")
        BY <2>7 DEF Keeps
    <2>9. p <= args.at - 1 /\ args.at \in p..(Len(ts) + 1)
        BY <2>8
    <2> QED
        BY <2>8, <2>9 DEF InArguments
<1> QED
    BY <1>1, <1>2

\* A call, a group, and what parsePrimary makes of them.
LEMMA CallKeeps ==
    ASSUME NEW ts, Len(ts) \in Nat, \A i \in 1..Len(ts) : ts[i] \notin Keywords,
           NEW i \in 1..Len(ts), NEW later,
           \A q \in (i + 1)..(Len(ts) + 1) : SoundAt(ts, q, Ahead(ts, later, q)),
           Peek(ts, i + 1) = "("
    PROVE  Keeps(ts, i, CallAt(ts, later, i), "primary")
<1>1. i + 1 <= Len(ts) /\ ts[i + 1] = "("
    <2>1. Eof # "("
        BY DEF Eof
    <2> QED
        BY <2>1, PeekIs
<1>2. PICK args : args = Arguments(ts, later, i + 2)
    OBVIOUS
<1>3. PICK closed : closed = Expect(ts, ")", args)
    OBVIOUS
<1>4. SUFFICES ASSUME ts[i] \in Functions, ~ Failed(closed)
               PROVE  Keeps(ts, i, CallAt(ts, later, i), "primary")
    <2>1. CASE ts[i] \notin Functions
        BY <2>1, RefusedFails DEF CallAt, Keeps
    <2>2. CASE ts[i] \in Functions /\ Failed(closed)
        BY <1>2, <1>3, <2>2 DEF CallAt, CallOf, Keeps
    <2> QED
        BY <1>4, <2>1, <2>2
<1>5. CallAt(ts, later, i) = Read(Call(ts[i], closed.tree), closed.at)
    BY <1>2, <1>3, <1>4 DEF CallAt, CallOf
<1>6. ~ Failed(args) /\ Peek(ts, args.at) = ")" /\ closed = Read(args.tree, args.at + 1)
    BY <1>3, <1>4, RefusedFails DEF Expect
<1>7. args.at \in (i + 2)..(Len(ts) + 1) /\ InArguments(ts, args.tree, i + 2, args.at - 1)
    <2>1. i + 2 \in 1..(Len(ts) + 1) /\ \A q \in (i + 2)..(Len(ts) + 1) : q \in (i + 1)..(Len(ts) + 1)
        BY <1>1
    <2> QED
        BY <1>2, <1>6, <2>1, ArgumentsKeep
<1>8. PICK j \in (i + 2)..(Len(ts) + 1) : j = args.at
    BY <1>7
<1>9. j <= Len(ts) /\ ts[j] = ")"
    <2>1. Eof # ")"
        BY DEF Eof
    <2> QED
        BY <1>6, <1>8, <2>1, PeekIs
<1>10. PICK g : g = Leaf(ts[i])
    OBVIOUS
<1>11. g \in Trees(ts, i, i, "primary") /\ g[1] = "leaf" /\ g[2] = ts[i]
    <2>1. ts[i] \in Idents
        BY <1>4 DEF Idents
    <2>2. IsPrimary(ts, g, i, i)
        BY <1>10, <2>1 DEF IsPrimary, IsLeaf
    <2>3. g \in Trees(ts, i, i, "primary")
        <3>1. i \in i..Len(ts)
            OBVIOUS
        <3> QED
            BY <2>2, <3>1, Rules
    <2> QED
        BY <1>10, <2>3 DEF Leaf
<1>12. CallWith(ts, Call(ts[i], args.tree), i, i + 1, j)
    <2>1. (i + 1) - 1 = i /\ (i + 1) + 1 = i + 2
        OBVIOUS
    <2>2. InArguments(ts, args.tree, (i + 1) + 1, j - 1)
        BY <1>7, <1>8, <2>1
    <2>3. g \in Trees(ts, i, (i + 1) - 1, "primary")
        BY <1>11, <2>1
    <2> QED
        BY <1>4, <1>11, <2>2, <2>3 DEF CallWith
<1>13. Call(ts[i], args.tree) \in Trees(ts, i, j, "primary")
    <2>1. i + 1 \in (i + 1)..(j - 1) /\ i < j /\ j \in i..Len(ts)
        BY <1>9
    <2>2. IsPrimary(ts, Call(ts[i], args.tree), i, j)
        BY <1>1, <1>9, <1>12, <2>1 DEF IsPrimary, InCall
    <2> QED
        BY <2>1, <2>2, Rules
<1>14. closed.at = j + 1 /\ closed.tree = args.tree
    BY <1>6, <1>8, ReadFields
<1>15. j + 1 \in (i + 1)..(Len(ts) + 1) /\ (j + 1) - 1 = j
    BY <1>9
<1> QED
    BY <1>5, <1>13, <1>14, <1>15, ReadFields DEF Keeps

LEMMA GroupKeeps ==
    ASSUME NEW ts, Len(ts) \in Nat, NEW i \in 1..Len(ts), ts[i] = "(", NEW r,
           Keeps(ts, i + 1, r, "expression")
    PROVE  Keeps(ts, i, Expect(ts, ")", r), "primary")
<1>1. CASE Failed(r) \/ Peek(ts, r.at) # ")"
    BY <1>1, RefusedFails DEF Expect, Keeps
<1>2. CASE ~ Failed(r) /\ Peek(ts, r.at) = ")"
    <2>1. r.at \in (i + 2)..(Len(ts) + 1) /\ r.tree \in Trees(ts, i + 1, r.at - 1, "expression")
        BY <1>2 DEF Keeps
    <2>2. PICK j \in (i + 2)..(Len(ts) + 1) : j = r.at
        BY <2>1
    <2>3. j <= Len(ts) /\ ts[j] = ")"
        <3>1. Eof # ")"
            BY DEF Eof
        <3> QED
            BY <1>2, <2>2, <3>1, PeekIs
    <2>4. IsPrimary(ts, r.tree, i, j)
        BY <2>1, <2>2, <2>3 DEF IsPrimary, IsGroup
    <2>5. r.tree \in Trees(ts, i, j, "primary")
        <3>1. j \in i..Len(ts)
            BY <2>3
        <3> QED
            BY <2>4, <3>1, Rules
    <2>6. Expect(ts, ")", r) = Read(r.tree, j + 1)
        BY <1>2, <2>2 DEF Expect
    <2>7. j + 1 \in (i + 1)..(Len(ts) + 1) /\ (j + 1) - 1 = j
        BY <2>3
    <2> QED
        BY <2>5, <2>6, <2>7, ReadFields DEF Keeps
<1> QED
    BY <1>1, <1>2

LEMMA PrimaryKeeps ==
    ASSUME NEW ts, Len(ts) \in Nat, \A i \in 1..Len(ts) : ts[i] \notin Keywords,
           NEW i \in 1..(Len(ts) + 1), NEW later,
           \A q \in (i + 1)..(Len(ts) + 1) : SoundAt(ts, q, Ahead(ts, later, q))
    PROVE  Keeps(ts, i, Primary(ts, later, i), "primary")
<1>1. CASE Peek(ts, i) \notin Idents \cup Numbers \cup {"("}
    BY <1>1, PrimaryIs DEF Keeps
<1>2. CASE Peek(ts, i) \in Idents \cup Numbers \cup {"("}
    <2>1. i <= Len(ts)
        <3>1. Eof \notin Idents \cup Numbers \cup {"("}
            BY Stops DEF Openers
        <3> QED
            BY <1>2, <3>1, PeekIs
    <2>2. i \in 1..Len(ts) /\ Peek(ts, i) = ts[i]
        BY <2>1, PeekIs
    <2>3. CASE Peek(ts, i) \in Idents /\ Peek(ts, i + 1) = "("
        BY <2>2, <2>3, PrimaryIs, CallKeeps
    <2>4. CASE Primary(ts, later, i) = Read(Leaf(ts[i]), i + 1) /\ ts[i] \in Numbers \cup Idents
        <3>1. IsPrimary(ts, Leaf(ts[i]), i, i)
            BY <2>2, <2>4 DEF IsPrimary, IsLeaf
        <3>2. Leaf(ts[i]) \in Trees(ts, i, i, "primary")
            <4>1. i \in i..Len(ts)
                BY <2>2
            <4> QED
                BY <2>2, <3>1, <4>1, Rules
        <3>3. i + 1 \in (i + 1)..(Len(ts) + 1) /\ (i + 1) - 1 = i
            BY <2>1
        <3> QED
            BY <2>4, <3>2, <3>3, ReadFields DEF Keeps
    <2>5. CASE Peek(ts, i) = "("
        <3>1. Keeps(ts, i + 1, Ahead(ts, later, i + 1).comparison, "expression")
            <4>1. i + 1 \in (i + 1)..(Len(ts) + 1)
                BY <2>1
            <4> QED
                BY <4>1 DEF SoundAt
        <3> QED
            BY <2>2, <2>5, <3>1, PrimaryIs, GroupKeeps
    <2> QED
        BY <1>2, <2>2, <2>3, <2>4, <2>5, PrimaryIs
<1> QED
    BY <1>1, <1>2

\* l, an operator, and what is read behind it.
LEMMA BinaryKeeps ==
    ASSUME NEW ts, Len(ts) \in Nat, NEW i \in 1..(Len(ts) + 1), NEW l, NEW r, NEW ops,
           NEW left, NEW right, NEW rule, ~ Failed(l), Peek(ts, l.at) \in ops, Eof \notin ops,
           Keeps(ts, i, l, left), Keeps(ts, l.at + 1, r, right),
           \A j \in i..Len(ts) : \A t :
                InSplit(ts, t, i, j, ops, left, right) => t \in Trees(ts, i, j, rule)
    PROVE  Keeps(ts, i, Join(Peek(ts, l.at), l, r), rule)
<1>1. l.at \in (i + 1)..(Len(ts) + 1) /\ l.tree \in Trees(ts, i, l.at - 1, left)
    BY DEF Keeps
<1>2. PICK k \in (i + 1)..(Len(ts) + 1) : k = l.at
    BY <1>1
<1>3. k <= Len(ts) /\ Peek(ts, k) = ts[k] /\ ts[k] \in ops
    BY <1>2, PeekIs
<1>4. CASE Failed(r)
    BY <1>4 DEF Join, Keeps
<1>5. CASE ~ Failed(r)
    <2>1. Join(Peek(ts, l.at), l, r) = Read(Node(ts[k], l.tree, r.tree), r.at)
        BY <1>2, <1>3, <1>5 DEF Join
    <2>2. r.at \in (k + 2)..(Len(ts) + 1) /\ r.tree \in Trees(ts, k + 1, r.at - 1, right)
        BY <1>2, <1>5 DEF Keeps
    <2>3. PICK j : j = r.at - 1
        OBVIOUS
    <2>4. j \in i..Len(ts) /\ k \in (i + 1)..(j - 1) /\ r.at \in (i + 1)..(Len(ts) + 1)
        BY <1>2, <2>2, <2>3
    <2>5. Halves(ts, Node(ts[k], l.tree, r.tree), i, k, j, left, right)
        BY <1>1, <1>2, <2>2, <2>3 DEF Halves
    <2>6. InSplit(ts, Node(ts[k], l.tree, r.tree), i, j, ops, left, right)
        BY <1>3, <2>4, <2>5 DEF InSplit
    <2>7. Node(ts[k], l.tree, r.tree) \in Trees(ts, i, j, rule)
        BY <2>4, <2>6
    <2> QED
        BY <2>1, <2>3, <2>4, <2>7, ReadFields DEF Keeps
<1> QED
    BY <1>4, <1>5

\* A tree of the first rule is one of the second.
LEMMA KeepsMore ==
    ASSUME NEW ts, Len(ts) \in Nat, NEW i \in 1..(Len(ts) + 1), NEW r, NEW rule, NEW above,
           Keeps(ts, i, r, rule),
           \A j \in i..Len(ts) : \A t \in Trees(ts, i, j, rule) : t \in Trees(ts, i, j, above)
    PROVE  Keeps(ts, i, r, above)
<1>1. SUFFICES ASSUME ~ Failed(r)
               PROVE  /\ r.at \in (i + 1)..(Len(ts) + 1)
                      /\ r.tree \in Trees(ts, i, r.at - 1, above)
    BY DEF Keeps
<1>2. r.at \in (i + 1)..(Len(ts) + 1) /\ r.tree \in Trees(ts, i, r.at - 1, rule)
    BY <1>1 DEF Keeps
<1>3. r.at - 1 \in i..Len(ts)
    BY <1>2
<1> QED
    BY <1>2, <1>3

\* Each level of the grammar holds the one below it.
LEMMA Inclusions ==
    ASSUME NEW ts, Len(ts) \in Nat, NEW i \in 1..(Len(ts) + 1), NEW j \in i..Len(ts), NEW t
    PROVE  /\ t \in Trees(ts, i, j, "primary") => t \in Trees(ts, i, j, "factor")
           /\ InSplit(ts, t, i, j, {"**"}, "primary", "factor") => t \in Trees(ts, i, j, "factor")
           /\ t \in Trees(ts, i, j, "factor") => t \in Trees(ts, i, j, "term")
           /\ InSplit(ts, t, i, j, Products, "term", "factor") => t \in Trees(ts, i, j, "term")
           /\ t \in Trees(ts, i, j, "term") => t \in Trees(ts, i, j, "sum")
           /\ InSplit(ts, t, i, j, Signs, "sum", "term") => t \in Trees(ts, i, j, "sum")
           /\ t \in Trees(ts, i, j, "sum") => t \in Trees(ts, i, j, "expression")
           /\ InSplit(ts, t, i, j, Comparators, "sum", "sum") => t \in Trees(ts, i, j, "expression")
<1>1. i \in 1..Len(ts)
    OBVIOUS
<1>2. IsPower(ts, t, i, j) => t \in Trees(ts, i, j, "factor")
    BY <1>1, Rules
<1>3. /\ t \in Trees(ts, i, j, "primary") => t \in Trees(ts, i, j, "factor")
      /\ InSplit(ts, t, i, j, {"**"}, "primary", "factor") => t \in Trees(ts, i, j, "factor")
    BY <1>2 DEF IsPower
<1> QED
    BY <1>1, <1>3, Rules

\* parseUnary and parsePower.
LEMMA UnaryKeeps ==
    ASSUME NEW ts, Len(ts) \in Nat, \A i \in 1..Len(ts) : ts[i] \notin Keywords,
           NEW i \in 1..(Len(ts) + 1), NEW later,
           \A q \in (i + 1)..(Len(ts) + 1) : SoundAt(ts, q, Ahead(ts, later, q))
    PROVE  Keeps(ts, i, Unary(ts, later, i), "factor")
<1>1. ASSUME Peek(ts, i) \notin Signs
      PROVE  Keeps(ts, i, Power(ts, later, i), "factor")
    <2>1. PICK base : base = Primary(ts, later, i)
        OBVIOUS
    <2>2. Keeps(ts, i, base, "primary")
        BY <2>1, PrimaryKeeps
    <2>3. Power(ts, later, i) = Raised(ts, later, base)
        BY <2>1 DEF Power
    <2>4. CASE Failed(base) \/ Peek(ts, base.at) # "**"
        <3>1. Keeps(ts, i, base, "factor")
            BY <2>2, Inclusions, KeepsMore
        <3> QED
            BY <2>3, <2>4, <3>1 DEF Raised
    <2>5. CASE ~ Failed(base) /\ Peek(ts, base.at) = "**"
        <3>1. PICK ops : ops = {"**"}
            OBVIOUS
        <3>2. PICK r : r = Ahead(ts, later, base.at + 1).unary
            OBVIOUS
        <3>3. Eof \notin ops /\ Peek(ts, base.at) \in ops /\ Eof # "**"
            BY <2>5, <3>1 DEF Eof
        <3>4. PICK k \in (i + 1)..(Len(ts) + 1) : k = base.at
            BY <2>2, <2>5 DEF Keeps
        <3>5. k + 1 \in (i + 1)..(Len(ts) + 1)
            BY <2>5, <3>3, <3>4, PeekIs
        <3>6. Keeps(ts, base.at + 1, r, "factor")
            BY <3>2, <3>4, <3>5 DEF SoundAt
        <3>7. \A j \in i..Len(ts) : \A t :
                InSplit(ts, t, i, j, ops, "primary", "factor") => t \in Trees(ts, i, j, "factor")
            BY <3>1, Inclusions
        <3>8. Keeps(ts, i, Join(Peek(ts, base.at), base, r), "factor")
            BY <2>2, <2>5, <3>3, <3>6, <3>7, BinaryKeeps
        <3> QED
            BY <2>3, <2>5, <3>2, <3>8 DEF Raised
    <2> QED
        BY <2>4, <2>5
<1>2. ASSUME Peek(ts, i) \in Signs
      PROVE  Keeps(ts, i, WithSign(ts[i], Ahead(ts, later, i + 1).unary), "factor")
    <2>1. i <= Len(ts) /\ ts[i] \in Signs
        <3>1. Eof \notin Signs
            BY Stops DEF Openers
        <3> QED
            BY <1>2, <3>1, PeekIs
    <2>2. PICK r : r = Ahead(ts, later, i + 1).unary
        OBVIOUS
    <2>3. Keeps(ts, i + 1, r, "factor")
        <3>1. i + 1 \in (i + 1)..(Len(ts) + 1)
            BY <2>1
        <3> QED
            BY <2>2, <3>1 DEF SoundAt
    <2>4. CASE Failed(r)
        BY <2>2, <2>4 DEF WithSign, Keeps
    <2>5. CASE ~ Failed(r)
        <3>1. WithSign(ts[i], r) = Read(Signed(ts[i], r.tree), r.at)
            BY <2>5 DEF WithSign
        <3>2. r.at \in (i + 2)..(Len(ts) + 1) /\ r.tree \in Trees(ts, i + 1, r.at - 1, "factor")
            BY <2>3, <2>5 DEF Keeps
        <3>3. PICK j : j = r.at - 1
            OBVIOUS
        <3>4. j \in i..Len(ts) /\ i < j /\ i \in 1..Len(ts) /\ r.at \in (i + 1)..(Len(ts) + 1)
            BY <2>1, <3>2, <3>3
        <3>5. IsSigned(ts, Signed(ts[i], r.tree), i, j)
            BY <2>1, <3>2, <3>3, <3>4 DEF IsSigned
        <3>6. Signed(ts[i], r.tree) \in Trees(ts, i, j, "factor")
            BY <3>4, <3>5, Rules
        <3> QED
            BY <2>2, <3>1, <3>3, <3>4, <3>6, ReadFields DEF Keeps
    <2> QED
        BY <2>4, <2>5
<1> QED
    BY <1>1, <1>2 DEF Unary

\* All the methods at one token, if they are sound at the later ones.
LEMMA MethodsKeep ==
    ASSUME NEW ts, Len(ts) \in Nat, \A i \in 1..Len(ts) : ts[i] \notin Keywords,
           NEW i \in 1..(Len(ts) + 1), NEW later,
           \A q \in (i + 1)..(Len(ts) + 1) : SoundAt(ts, q, Ahead(ts, later, q))
    PROVE  SoundAt(ts, i, Methods(ts, later, i))
<1>1. Keeps(ts, i, Unary(ts, later, i), "factor")
    BY UnaryKeeps
<1>2. /\ \A q \in (i + 1)..(Len(ts) + 1) : Keeps(ts, q, Ahead(ts, later, q)["unary"], "factor")
      /\ \A q \in (i + 1)..(Len(ts) + 1) : Keeps(ts, q, Ahead(ts, later, q)["term"], "term")
      /\ \A q \in (i + 1)..(Len(ts) + 1) : Keeps(ts, q, Ahead(ts, later, q)["arith"], "sum")
    BY DEF SoundAt
<1>3. Eof \notin Products /\ Eof \notin Signs /\ Eof \notin Comparators
    BY Stops DEF AfterComparison, AfterArith, AfterTerm
<1>4. Keeps(ts, i, Term(ts, later, i), "term")
    <2>1. Keeps(ts, i, Unary(ts, later, i), "term")
        BY <1>1, Inclusions, KeepsMore
    <2>2. \A j \in i..Len(ts) : \A t :
            InSplit(ts, t, i, j, Products, "term", "factor") => t \in Trees(ts, i, j, "term")
        BY Inclusions
    <2> QED
        BY <1>2, <1>3, <2>1, <2>2, LoopKeeps DEF Term
<1>5. Keeps(ts, i, Arith(ts, later, i), "sum")
    <2>1. Keeps(ts, i, Term(ts, later, i), "sum")
        BY <1>4, Inclusions, KeepsMore
    <2>2. \A j \in i..Len(ts) : \A t :
            InSplit(ts, t, i, j, Signs, "sum", "term") => t \in Trees(ts, i, j, "sum")
        BY Inclusions
    <2> QED
        BY <1>2, <1>3, <2>1, <2>2, LoopKeeps DEF Arith
<1>6. Keeps(ts, i, Comparison(ts, later, i), "expression")
    <2>1. PICK l : l = Arith(ts, later, i)
        OBVIOUS
    <2>2. CASE Failed(l) \/ Peek(ts, l.at) \notin Comparators
        <3>1. Keeps(ts, i, l, "expression")
            BY <1>5, <2>1, Inclusions, KeepsMore
        <3> QED
            BY <2>1, <2>2, <3>1 DEF Comparison
    <2>3. CASE ~ Failed(l) /\ Peek(ts, l.at) \in Comparators
        <3>1. PICK r : r = Ahead(ts, later, l.at + 1)["arith"]
            OBVIOUS
        <3>2. PICK k \in (i + 1)..(Len(ts) + 1) : k = l.at
            BY <1>5, <2>1, <2>3 DEF Keeps
        <3>3. k + 1 \in (i + 1)..(Len(ts) + 1)
            BY <1>3, <2>3, <3>2, PeekIs
        <3>4. Keeps(ts, l.at + 1, r, "sum")
            BY <1>2, <3>1, <3>2, <3>3
        <3>5. \A j \in i..Len(ts) : \A t :
                InSplit(ts, t, i, j, Comparators, "sum", "sum") => t \in Trees(ts, i, j, "expression")
            BY Inclusions
        <3>6. Keeps(ts, i, Join(Peek(ts, l.at), l, r), "expression")
            BY <1>3, <1>5, <2>1, <2>3, <3>4, <3>5, BinaryKeeps
        <3>7. Keeps(ts, i, Compared(ts, l, r), "expression")
            BY <3>6, RefusedFails DEF Compared, Keeps
        <3> QED
            BY <2>1, <2>3, <3>1, <3>7 DEF Comparison
    <2> QED
        BY <2>2, <2>3
<1> QED
    BY <1>1, <1>4, <1>5, <1>6 DEF SoundAt, Methods

(* What a method of the engine's parser reads from a token on is a tree of *)
(* the rule of its level in Python's grammar, of just the tokens it read.  *)
THEOREM EngineIsSound ==
    ASSUME NEW ts, Len(ts) \in Nat, \A i \in 1..Len(ts) : ts[i] \notin Keywords
    PROVE  \A i \in 1..(Len(ts) + 1) : SoundAt(ts, i, MethodsAt(ts, i))
<1> DEFINE S == {n \in Nat : n <= Len(ts) => SoundAt(ts, Len(ts) + 1 - n, MethodsAt(ts, Len(ts) + 1 - n))}
<1>1. ASSUME NEW n \in Nat, \A m \in 0..(n - 1) : m \in S
      PROVE  n \in S
    <2>1. SUFFICES ASSUME n <= Len(ts)
                   PROVE  SoundAt(ts, Len(ts) + 1 - n, MethodsAt(ts, Len(ts) + 1 - n))
        OBVIOUS
    <2>2. PICK i \in 1..(Len(ts) + 1) : i = Len(ts) + 1 - n
        <3>1. Len(ts) + 1 - n \in 1..(Len(ts) + 1)
            BY <2>1
        <3> QED
            BY <3>1
    <2>3. PICK later : later = Readings(ts)[Len(ts) + 1 - i]
        OBVIOUS
    <2>4. ASSUME NEW q \in (i + 1)..(Len(ts) + 1)
          PROVE  SoundAt(ts, q, Ahead(ts, later, q))
        <3>1. Ahead(ts, later, q) = MethodsAt(ts, q)
            BY <2>3, AheadIs
        <3>2. /\ Len(ts) + 1 - q \in 0..(n - 1) /\ Len(ts) + 1 - q <= Len(ts)
              /\ Len(ts) + 1 - (Len(ts) + 1 - q) = q
            BY <2>2
        <3>3. Len(ts) + 1 - q \in S
            BY <1>1, <3>2
        <3>4. SoundAt(ts, q, MethodsAt(ts, q))
            BY <3>2, <3>3
        <3> QED
            BY <3>1, <3>4
    <2>5. SoundAt(ts, i, Methods(ts, later, i))
        BY <2>4, MethodsKeep
    <2> QED
        BY <2>2, <2>3, <2>5 DEF MethodsAt
<1> HIDE DEF S
<1>2. \A n \in Nat : n \in S
    BY <1>1, NaturalSetBelow
<1>3. ASSUME NEW i \in 1..(Len(ts) + 1)
      PROVE  SoundAt(ts, i, MethodsAt(ts, i))
    <2>1. /\ Len(ts) + 1 - i \in Nat /\ Len(ts) + 1 - i <= Len(ts)
          /\ Len(ts) + 1 - (Len(ts) + 1 - i) = i
        OBVIOUS
    <2>2. Len(ts) + 1 - i \in S
        BY <1>2, <2>1
    <2> QED
        BY <2>1, <2>2 DEF S
<1> QED
    BY <1>3

-----------------------------------------------------------------------------
(* Whatever is Python, the engine reads or refuses.                         *)

FindsAt(ts, p, returned) ==
    /\ Finds(ts, p, returned.unary, "factor", AfterUnary)
    /\ Finds(ts, p, returned.term, "term", AfterTerm)
    /\ Finds(ts, p, returned.arith, "sum", AfterArith)
    /\ Finds(ts, p, returned.comparison, "expression", AfterComparison)
FailsAt(ts, p, returned) ==
    Peek(ts, p) \notin Openers =>
        /\ Failed(returned.unary) /\ Failed(returned.term)
        /\ Failed(returned.arith) /\ Failed(returned.comparison)

\* No method reads a token that begins nothing.
LEMMA MethodsFail ==
    ASSUME NEW ts, Len(ts) \in Nat, NEW i \in 1..(Len(ts) + 1), NEW later
    PROVE  FailsAt(ts, i, Methods(ts, later, i))
<1>1. SUFFICES ASSUME Peek(ts, i) \notin Openers
               PROVE  /\ Failed(Unary(ts, later, i)) /\ Failed(Term(ts, later, i))
                      /\ Failed(Arith(ts, later, i)) /\ Failed(Comparison(ts, later, i))
    BY DEF FailsAt, Methods
<1>2. Peek(ts, i) \notin Signs /\ Peek(ts, i) \notin Idents \cup Numbers \cup {"("}
    BY <1>1 DEF Openers
<1>3. Failed(Primary(ts, later, i))
    BY <1>2, PrimaryIs
<1>4. Failed(Unary(ts, later, i))
    BY <1>2, <1>3 DEF Unary, Power, Raised
<1>5. Failed(Term(ts, later, i))
    BY <1>4, LoopFails DEF Term
<1>6. Failed(Arith(ts, later, i))
    BY <1>5, LoopFails DEF Arith
<1>7. Failed(Comparison(ts, later, i))
    BY <1>6 DEF Comparison
<1> QED
    BY <1>4, <1>5, <1>6, <1>7

\* The bracket that closes, the list of one argument and the sign keep a reading.
LEMMA ExpectLands ==
    ASSUME NEW ts, NEW r, NEW t, NEW at, Lands(ts, r, t, at), Peek(ts, at) = ")"
    PROVE  \/ Failed(Expect(ts, ")", r))
           \/ Expect(ts, ")", r) = Read(t, at + 1)
<1>1. CASE Failed(r)
    BY <1>1 DEF Expect
<1>2. CASE ~ Failed(r) /\ Peek(ts, r.at) = "("
    BY <1>2, RefusedFails DEF Expect
<1>3. CASE r = Read(t, at)
    BY <1>3, ReadFields DEF Expect
<1> QED
    BY <1>1, <1>2, <1>3 DEF Lands, Stuck

LEMMA ListLands ==
    ASSUME NEW ts, NEW r, NEW t, NEW at, Lands(ts, r, t, at)
    PROVE  Lands(ts, Listed(r), <<t>>, at)
<1>1. CASE Failed(r)
    BY <1>1 DEF Listed, Lands, Stuck
<1>2. CASE ~ Failed(r)
    <2>1. Listed(r) = Read(<<r.tree>>, r.at)
        BY <1>2 DEF Listed
    <2>2. CASE Peek(ts, r.at) = "("
        BY <2>1, <2>2, ReadFields DEF Lands, Stuck
    <2>3. CASE r = Read(t, at)
        BY <2>1, <2>3, ReadFields DEF Lands
    <2> QED
        BY <1>2, <2>2, <2>3 DEF Lands, Stuck
<1> QED
    BY <1>1, <1>2

LEMMA SignLands ==
    ASSUME NEW ts, NEW op, NEW r, NEW t, NEW at, Lands(ts, r, t, at)
    PROVE  Lands(ts, WithSign(op, r), Signed(op, t), at)
<1>1. CASE Failed(r)
    BY <1>1 DEF WithSign, Lands, Stuck
<1>2. CASE ~ Failed(r)
    <2>1. WithSign(op, r) = Read(Signed(op, r.tree), r.at)
        BY <1>2 DEF WithSign
    <2>2. CASE Peek(ts, r.at) = "("
        BY <2>1, <2>2, ReadFields DEF Lands, Stuck
    <2>3. CASE r = Read(t, at)
        BY <2>1, <2>3, ReadFields DEF Lands
    <2> QED
        BY <1>2, <2>2, <2>3 DEF Lands, Stuck
<1> QED
    BY <1>1, <1>2

\* The arguments of a call, the trailing comma that only Python takes included.
LEMMA ArgumentsFind ==
    ASSUME NEW ts, Len(ts) \in Nat, NEW p \in 1..Len(ts), NEW later,
           \A q \in p..Len(ts) : FindsAt(ts, q, Ahead(ts, later, q)),
           \A q \in p..Len(ts) : FailsAt(ts, q, Ahead(ts, later, q)),
           NEW j \in p..Len(ts), ts[j] = ")", NEW t, InArguments(ts, t, p, j - 1)
    PROVE  Lands(ts, Arguments(ts, later, p), t, j)
<1>1. Peek(ts, j) = ")" /\ Peek(ts, p) = ts[p]
    BY PeekIs
<1>2. CASE p > j - 1
    <2>1. p = j /\ ~ (p <= j - 1) /\ ~ (p < j - 1)
        BY <1>2
    <2>5. t = <<>>
        BY <2>1 DEF InArguments
    <2>2. Arguments(ts, later, p) = Read(t, j)
        BY <1>1, <2>1, <2>5 DEF Arguments
    <2> QED
        BY <2>2 DEF Lands
<1>3. CASE p <= j - 1
    <2>1. PICK ops, method, first :
            /\ ops = {","} /\ method = "comparison"
            /\ first = Listed(Ahead(ts, later, p).comparison)
        OBVIOUS
    <2>2. PICK starts : starts = [q \in p..Len(ts) |-> {<<u>> : u \in Trees(ts, p, q, "expression")}]
        OBVIOUS
    <2>3. "(" \notin ops /\ ops \cap AfterComparison = {} /\ ")" \notin ops
        BY <2>1, Stops
    <2>4. \A q \in p..Len(ts) : \A u \in Trees(ts, p, q, "list") :
            u \in starts[q] \/ InSplit(ts, u, p, q, ops, "list", "expression")
        BY <2>1, <2>2, Rules
    <2>5. \A q \in p..Len(ts) : \A u \in starts[q] :
            Peek(ts, q + 1) \notin AfterComparison => Lands(ts, first, u, q + 1)
        <3>1. SUFFICES ASSUME NEW q \in p..Len(ts), NEW v \in Trees(ts, p, q, "expression"),
                              Peek(ts, q + 1) \notin AfterComparison
                       PROVE  Lands(ts, first, <<v>>, q + 1)
            BY <2>2
        <3>2. Lands(ts, Ahead(ts, later, p).comparison, v, q + 1)
            <4>1. FindsAt(ts, p, Ahead(ts, later, p))
                OBVIOUS
            <4> QED
                BY <3>1, <4>1 DEF FindsAt, Finds
        <3> QED
            BY <2>1, <3>2, ListLands
    <2>6. \A q \in (p + 1)..Len(ts) :
            Finds(ts, q, Ahead(ts, later, q)[method], "expression", AfterComparison)
        <3>1. ASSUME NEW q \in (p + 1)..Len(ts)
              PROVE  Finds(ts, q, Ahead(ts, later, q).comparison, "expression", AfterComparison)
            <4>1. q \in p..Len(ts)
                OBVIOUS
            <4> QED
                BY <4>1 DEF FindsAt
        <3> QED
            BY <2>1, <3>1
    <2>7. ASSUME ts[p] \in Openers
          PROVE  Arguments(ts, later, p) = Loop(ts, ops, method, later, first)
        <3>1. Peek(ts, p) # ")"
            BY <1>1, <2>7, Stops
        <3> QED
            BY <2>1, <3>1 DEF Arguments
    <2>8. CASE t \in Trees(ts, p, j - 1, "list")
        <3>1. j - 1 \in p..Len(ts) /\ (j - 1) + 1 = j
            BY <1>3
        <3>2. ts[p] \in Openers
            BY <2>8, <3>1, FirstTokens DEF Begins
        <3>3. Finds(ts, p, Loop(ts, ops, method, later, first), "list", AfterComparison \cup ops)
            BY <2>3, <2>4, <2>5, <2>6, LoopFinds
        <3>4. Peek(ts, j) \notin AfterComparison \cup ops
            BY <1>1, <2>3, Stops
        <3> QED
            BY <2>7, <2>8, <3>1, <3>2, <3>3, <3>4 DEF Finds
    <2>9. CASE p < j - 1 /\ ts[j - 1] = "," /\ t \in Trees(ts, p, (j - 1) - 1, "list")
        <3>1. PICK k \in p..Len(ts) : k = (j - 1) - 1
            <4>0. p < j - 1
                BY ONLY <2>9
            <4>1. (j - 1) - 1 \in p..Len(ts)
                BY <4>0
            <4> QED
                BY <4>1
        <3>11. /\ k + 1 = j - 1 /\ (k + 1) + 1 = j /\ j - 1 \in Nat /\ j - 1 <= Len(ts)
            BY <3>1
        <3>12. Peek(ts, j - 1) = ","
            BY <2>9, <3>11, PeekIs
        <3>2. k + 1 = j - 1 /\ (k + 1) + 1 = j /\ Peek(ts, k + 1) = ","
            BY <3>11, <3>12
        <3>3. ts[p] \in Openers
            BY <2>9, <3>1, FirstTokens DEF Begins
        <3>4. Peek(ts, k + 1) \notin AfterComparison
            BY <3>2, Stops
        <3>5. PICK m \in 0..(k - p) : Lands(ts, Turns(ts, ops, method, later, first)[m], t, k + 1)
            BY <2>3, <2>4, <2>5, <2>6, <2>9, <3>1, <3>4, ChainLands
        <3>6. m \in 0..Len(ts) /\ m + 1 \in 0..Len(ts) /\ m + 1 \in 1..Len(ts) /\ (m + 1) - 1 = m
            BY <3>1
        <3>7. PICK r : r = Turns(ts, ops, method, later, first)[m]
            OBVIOUS
        <3>8. CASE Stuck(ts, r)
            <4>1. Lands(ts, Turns(ts, ops, method, later, first)[m], t, j)
                BY <3>7, <3>8 DEF Lands
            <4>2. Peek(ts, j) \notin ops
                BY <1>1, <2>3
            <4>3. Lands(ts, Loop(ts, ops, method, later, first), t, j)
                BY <2>3, <3>6, <4>1, <4>2, LoopLands
            <4> QED
                BY <2>7, <3>3, <4>3
        <3>9. CASE r = Read(t, k + 1)
            <4>1. Turns(ts, ops, method, later, first)[m + 1] = Turn(ts, ops, method, later, r)
                BY <3>6, <3>7, TurnsStep
            <4>8. ~ Failed(r) /\ r.at = k + 1
                BY <3>9, ReadFields
            <4>2. ~ Failed(r) /\ r.at + 1 = j /\ Peek(ts, r.at) \in ops
                BY <2>1, <3>2, <4>8
            <4>3. Failed(Ahead(ts, later, j)[method])
                <5>1. FailsAt(ts, j, Ahead(ts, later, j))
                    OBVIOUS
                <5>2. Peek(ts, j) \notin Openers
                    BY <1>1, Stops
                <5> QED
                    BY <2>1, <5>1, <5>2 DEF FailsAt
            <4>4. Failed(Turn(ts, ops, method, later, r))
                BY <4>2, <4>3 DEF Turn, Join
            <4>5. Lands(ts, Turns(ts, ops, method, later, first)[m + 1], t, j)
                BY <4>1, <4>4 DEF Lands, Stuck
            <4>6. Peek(ts, j) \notin ops
                BY <1>1, <2>3
            <4>7. Lands(ts, Loop(ts, ops, method, later, first), t, j)
                BY <2>3, <3>6, <4>5, <4>6, LoopLands
            <4> QED
                BY <2>7, <3>3, <4>7
        <3> QED
            BY <3>5, <3>7, <3>8, <3>9 DEF Lands
    <2>10. ~ (p > j - 1)
        BY <1>3
    <2> QED
        BY <2>8, <2>9, <2>10 DEF InArguments
<1> QED
    BY <1>2, <1>3

\* A group, and a call, whose function Python takes in brackets as well.
LEMMA GroupFinds ==
    ASSUME NEW ts, Len(ts) \in Nat, NEW i \in 1..Len(ts), NEW later,
           \A q \in (i + 1)..Len(ts) : FindsAt(ts, q, Ahead(ts, later, q)),
           NEW j \in i..Len(ts), NEW t, ts[j] = ")", IsGroup(ts, t, i, j)
    PROVE  Failed(Primary(ts, later, i)) \/ Primary(ts, later, i) = Read(t, j + 1)
<1>1. ts[i] = "(" /\ i + 1 < j /\ t \in Trees(ts, i + 1, j - 1, "expression")
    BY DEF IsGroup
<1>2. Peek(ts, i) = "(" /\ Peek(ts, j) = ")"
    BY <1>1, PeekIs
<1>3. PICK r : r = Ahead(ts, later, i + 1).comparison
    OBVIOUS
<1>4. Primary(ts, later, i) = Expect(ts, ")", r)
    BY <1>2, <1>3, PrimaryIs
<1>5. i + 1 \in (i + 1)..Len(ts) /\ j - 1 \in (i + 1)..Len(ts) /\ (j - 1) + 1 = j
    BY <1>1
<1>6. Lands(ts, r, t, j)
    <2>1. Finds(ts, i + 1, r, "expression", AfterComparison)
        BY <1>3, <1>5 DEF FindsAt
    <2>2. Peek(ts, (j - 1) + 1) \notin AfterComparison
        BY <1>2, <1>5, Stops
    <2>3. Lands(ts, r, t, (j - 1) + 1)
        BY <1>1, <1>5, <2>1, <2>2 DEF Finds
    <2> QED
        BY <1>5, <2>3
<1> QED
    BY <1>2, <1>4, <1>6, ExpectLands

LEMMA CallFinds ==
    ASSUME NEW ts, Len(ts) \in Nat, NEW i \in 1..Len(ts), NEW later,
           \A q \in (i + 1)..Len(ts) : FindsAt(ts, q, Ahead(ts, later, q)),
           \A q \in (i + 1)..Len(ts) : FailsAt(ts, q, Ahead(ts, later, q)),
           NEW j \in i..Len(ts), NEW t, ts[j] = ")", InCall(ts, t, i, j)
    PROVE  Lands(ts, Primary(ts, later, i), t, j + 1)
<1>1. PICK k \in (i + 1)..(j - 1) : ts[k] = "(" /\ CallWith(ts, t, i, k, j)
    BY DEF InCall
<1>2. PICK g \in Trees(ts, i, k - 1, "primary") :
        /\ g[1] = "leaf" /\ g[2] \in Functions
        /\ \E args : InArguments(ts, args, k + 1, j - 1) /\ t = Call(g[2], args)
    BY <1>1 DEF CallWith
<1>3. PICK args : InArguments(ts, args, k + 1, j - 1) /\ t = Call(g[2], args)
    BY <1>2
<1>4. k - 1 \in i..Len(ts) /\ k \in Nat /\ k <= Len(ts) /\ (k - 1) + 1 = k
    OBVIOUS
<1>5. IsPrimary(ts, g, i, k - 1)
    BY <1>2, <1>4, Rules
<1>6. Peek(ts, k) = "("
    BY <1>1, <1>4, PeekIs
<1>7. CASE i = k - 1
    <2>1. g = Leaf(ts[i]) /\ g[2] = ts[i]
        BY <1>5, <1>7 DEF IsPrimary, IsLeaf, Leaf
    <2>2. ts[i] \in Functions /\ Peek(ts, i) \in Idents /\ Peek(ts, i + 1) = "("
        <3>1. i + 1 = k
            BY <1>7
        <3> QED
            BY <1>2, <1>6, <2>1, <3>1, PeekIs DEF Idents
    <2>3. PICK a, r : a = Arguments(ts, later, i + 2) /\ r = Expect(ts, ")", a)
        OBVIOUS
    <2>4. Primary(ts, later, i) = CallOf(ts[i], r)
        BY <2>2, <2>3, PrimaryIs DEF CallAt
    <2>5. Lands(ts, a, args, j)
        <3>1. i + 2 \in 1..Len(ts) /\ j \in (i + 2)..Len(ts) /\ k + 1 = i + 2
            BY <1>7
        <3>2. \A q \in (i + 2)..Len(ts) : q \in (i + 1)..Len(ts)
            OBVIOUS
        <3>3. InArguments(ts, args, i + 2, j - 1)
            BY <1>3, <3>1
        <3> QED
            BY <2>3, <3>1, <3>2, <3>3, ArgumentsFind
    <2>6. Peek(ts, j) = ")"
        BY PeekIs
    <2>7. Failed(r) \/ r = Read(args, j + 1)
        BY <2>3, <2>5, <2>6, ExpectLands
    <2>8. CASE Failed(r)
        BY <2>4, <2>8 DEF CallOf, Lands, Stuck
    <2>9. CASE r = Read(args, j + 1)
        <3>1. Primary(ts, later, i) = Read(Call(ts[i], args), j + 1)
            BY <2>4, <2>9, ReadFields DEF CallOf
        <3> QED
            BY <1>3, <2>1, <3>1 DEF Lands
    <2> QED
        BY <2>7, <2>8, <2>9
<1>8. CASE i # k - 1
    <2>1. ts[k - 1] = ")" /\ (IsGroup(ts, g, i, k - 1) \/ InCall(ts, g, i, k - 1))
        BY <1>5, <1>8 DEF IsPrimary
    <2>2. ~ InCall(ts, g, i, k - 1)
        <3>1. SUFFICES ASSUME InCall(ts, g, i, k - 1) PROVE FALSE
            OBVIOUS
        <3>2. PICK f, a : g = Call(f, a)
            BY <3>1 DEF InCall, CallWith
        <3>3. g[1] = "call"
            BY <3>2 DEF Call
        <3> QED
            BY <1>2, <3>3
    <2>3. Failed(Primary(ts, later, i)) \/ Primary(ts, later, i) = Read(g, (k - 1) + 1)
        BY <1>4, <2>1, <2>2, GroupFinds
    <2>4. Stuck(ts, Primary(ts, later, i))
        BY <1>4, <1>6, <2>3, ReadFields DEF Stuck
    <2> QED
        BY <2>4 DEF Lands
<1> QED
    BY <1>7, <1>8

\* The methods, from the operand to the comparison.
LEMMA PrimaryFinds ==
    ASSUME NEW ts, Len(ts) \in Nat, NEW i \in 1..Len(ts), NEW later,
           \A q \in (i + 1)..Len(ts) : FindsAt(ts, q, Ahead(ts, later, q)),
           \A q \in (i + 1)..Len(ts) : FailsAt(ts, q, Ahead(ts, later, q))
    PROVE  Finds(ts, i, Primary(ts, later, i), "primary", {"("})
<1>1. SUFFICES ASSUME NEW j \in i..Len(ts), NEW t \in Trees(ts, i, j, "primary"),
                      Peek(ts, j + 1) # "("
               PROVE  Lands(ts, Primary(ts, later, i), t, j + 1)
    BY DEF Finds
<1>2. IsPrimary(ts, t, i, j)
    BY Rules
<1>3. CASE i = j /\ IsLeaf(ts, t, i)
    <2>1. Peek(ts, i) = ts[i]
        BY PeekIs
    <2>2. t = Leaf(ts[i]) /\ Peek(ts, i) \in Numbers \cup Idents /\ Peek(ts, i + 1) # "("
        BY <1>1, <1>3, <2>1 DEF IsLeaf
    <2>3. Primary(ts, later, i) = Read(Leaf(ts[i]), i + 1)
        BY <2>2, PrimaryIs
    <2> QED
        BY <1>3, <2>2, <2>3 DEF Lands
<1>4. CASE ts[j] = ")" /\ IsGroup(ts, t, i, j)
    BY <1>4, GroupFinds DEF Lands, Stuck
<1>5. CASE ts[j] = ")" /\ InCall(ts, t, i, j)
    BY <1>5, CallFinds
<1> QED
    BY <1>2, <1>3, <1>4, <1>5 DEF IsPrimary

LEMMA PowerFinds ==
    ASSUME NEW ts, Len(ts) \in Nat, NEW i \in 1..Len(ts), NEW later,
           \A q \in (i + 1)..Len(ts) : FindsAt(ts, q, Ahead(ts, later, q)),
           \A q \in (i + 1)..Len(ts) : FailsAt(ts, q, Ahead(ts, later, q)),
           NEW j \in i..Len(ts), NEW t, IsPower(ts, t, i, j), Peek(ts, j + 1) \notin AfterUnary
    PROVE  Lands(ts, Power(ts, later, i), t, j + 1)
<1>1. PICK base : base = Primary(ts, later, i)
    OBVIOUS
<1>2. Finds(ts, i, base, "primary", {"("})
    BY <1>1, PrimaryFinds
<1>3. Peek(ts, j + 1) # "(" /\ Peek(ts, j + 1) # "**"
    BY DEF AfterUnary
<1>4. ASSUME Stuck(ts, base)
      PROVE  Lands(ts, Power(ts, later, i), t, j + 1)
    <2>1. Power(ts, later, i) = base
        BY <1>1, <1>4 DEF Power, Raised, Stuck
    <2> QED
        BY <1>4, <2>1 DEF Lands
<1>5. CASE t \in Trees(ts, i, j, "primary")
    <2>1. Lands(ts, base, t, j + 1)
        BY <1>2, <1>3, <1>5 DEF Finds
    <2>2. CASE base = Read(t, j + 1)
        <3>1. Power(ts, later, i) = base
            BY <1>1, <1>3, <2>2, ReadFields DEF Power, Raised
        <3> QED
            BY <2>2, <3>1 DEF Lands
    <2> QED
        BY <1>4, <2>1, <2>2 DEF Lands
<1>6. CASE InSplit(ts, t, i, j, {"**"}, "primary", "factor")
    <2>1. PICK k \in (i + 1)..(j - 1) : ts[k] \in {"**"} /\ Halves(ts, t, i, k, j, "primary", "factor")
        BY <1>6 DEF InSplit
    <2>2. PICK l \in Trees(ts, i, k - 1, "primary"), u \in Trees(ts, k + 1, j, "factor") :
            t = Node(ts[k], l, u)
        BY <2>1 DEF Halves
    <2>3. /\ k - 1 \in i..Len(ts) /\ (k - 1) + 1 = k /\ k \in Nat /\ k <= Len(ts)
          /\ k + 1 \in (i + 1)..Len(ts) /\ j \in (k + 1)..Len(ts)
        OBVIOUS
    <2>4. Peek(ts, k) = "**"
        BY <2>1, <2>3, PeekIs
    <2>5. Lands(ts, base, l, k)
        <3>1. Peek(ts, (k - 1) + 1) \notin {"("}
            BY <2>3, <2>4
        <3>2. Lands(ts, base, l, (k - 1) + 1)
            BY <1>2, <2>2, <2>3, <3>1 DEF Finds
        <3> QED
            BY <2>3, <3>2
    <2>6. PICK r : r = Ahead(ts, later, k + 1).unary
        OBVIOUS
    <2>7. Lands(ts, r, u, j + 1)
        <3>1. Finds(ts, k + 1, r, "factor", AfterUnary)
            BY <2>3, <2>6 DEF FindsAt
        <3> QED
            BY <2>2, <2>3, <3>1 DEF Finds
    <2>8. CASE base = Read(l, k)
        <3>1. Power(ts, later, i) = Join("**", Read(l, k), r)
            BY <1>1, <2>4, <2>6, <2>8, ReadFields DEF Power, Raised
        <3>2. Lands(ts, Join("**", Read(l, k), r), Node("**", l, u), j + 1)
            BY <2>7, JoinLands
        <3> QED
            BY <2>1, <2>2, <3>1, <3>2
    <2> QED
        BY <1>4, <2>5, <2>8 DEF Lands
<1> QED
    BY <1>5, <1>6 DEF IsPower

LEMMA UnaryFinds ==
    ASSUME NEW ts, Len(ts) \in Nat, NEW i \in 1..Len(ts), NEW later,
           \A q \in (i + 1)..Len(ts) : FindsAt(ts, q, Ahead(ts, later, q)),
           \A q \in (i + 1)..Len(ts) : FailsAt(ts, q, Ahead(ts, later, q))
    PROVE  Finds(ts, i, Unary(ts, later, i), "factor", AfterUnary)
<1>1. SUFFICES ASSUME NEW j \in i..Len(ts), NEW t \in Trees(ts, i, j, "factor"),
                      Peek(ts, j + 1) \notin AfterUnary
               PROVE  Lands(ts, Unary(ts, later, i), t, j + 1)
    BY DEF Finds
<1>2. Peek(ts, i) = ts[i]
    BY PeekIs
<1>3. CASE IsSigned(ts, t, i, j)
    <2>1. PICK u \in Trees(ts, i + 1, j, "factor") : t = Signed(ts[i], u)
        BY <1>3 DEF IsSigned
    <2>2. ts[i] \in Signs /\ i + 1 \in (i + 1)..Len(ts) /\ j \in (i + 1)..Len(ts)
        BY <1>3 DEF IsSigned
    <2>3. PICK r : r = Ahead(ts, later, i + 1).unary
        OBVIOUS
    <2>4. Lands(ts, r, u, j + 1)
        <3>1. Finds(ts, i + 1, r, "factor", AfterUnary)
            BY <2>2, <2>3 DEF FindsAt
        <3> QED
            BY <1>1, <2>1, <2>2, <3>1 DEF Finds
    <2>5. Unary(ts, later, i) = WithSign(ts[i], r)
        BY <1>2, <2>2, <2>3 DEF Unary
    <2> QED
        BY <2>1, <2>4, <2>5, SignLands
<1>4. CASE IsPower(ts, t, i, j)
    <2>1. ts[i] \notin Signs
        <3>1. Begins(ts, i, j)
            BY FirstTokens
        <3>2. CASE t \in Trees(ts, i, j, "primary")
            BY <3>1, <3>2 DEF Begins
        <3>3. CASE InSplit(ts, t, i, j, {"**"}, "primary", "factor")
            <4>1. PICK k \in (i + 1)..(j - 1) : Trees(ts, i, k - 1, "primary") # {}
                BY <3>3 DEF InSplit, Halves
            <4>2. k - 1 \in i..Len(ts)
                OBVIOUS
            <4>3. Begins(ts, i, k - 1)
                BY <4>2, FirstTokens
            <4> QED
                BY <4>1, <4>3 DEF Begins
        <3> QED
            BY <1>4, <3>2, <3>3 DEF IsPower
    <2>2. Unary(ts, later, i) = Power(ts, later, i)
        BY <1>2, <2>1 DEF Unary
    <2> QED
        BY <1>1, <1>4, <2>2, PowerFinds
<1>5. IsPower(ts, t, i, j) \/ IsSigned(ts, t, i, j)
    BY Rules
<1> QED
    BY <1>3, <1>4, <1>5

LEMMA TermFinds ==
    ASSUME NEW ts, Len(ts) \in Nat, NEW i \in 1..Len(ts), NEW later,
           \A q \in (i + 1)..Len(ts) : FindsAt(ts, q, Ahead(ts, later, q)),
           Finds(ts, i, Unary(ts, later, i), "factor", AfterUnary)
    PROVE  Finds(ts, i, Term(ts, later, i), "term", AfterTerm)
<1>1. PICK method, first : method = "unary" /\ first = Unary(ts, later, i)
    OBVIOUS
<1>2. PICK starts : starts = [j \in i..Len(ts) |-> Trees(ts, i, j, "factor")]
    OBVIOUS
<1>3. \A j \in i..Len(ts) : \A t \in Trees(ts, i, j, "term") :
        t \in starts[j] \/ InSplit(ts, t, i, j, Products, "term", "factor")
    BY <1>2, Rules
<1>4. \A j \in i..Len(ts) : \A t \in starts[j] :
        Peek(ts, j + 1) \notin AfterUnary => Lands(ts, first, t, j + 1)
    BY <1>1, <1>2 DEF Finds
<1>5. \A q \in (i + 1)..Len(ts) : Finds(ts, q, Ahead(ts, later, q)[method], "factor", AfterUnary)
    BY <1>1 DEF FindsAt
<1>6. "(" \notin Products /\ Products \cap AfterUnary = {}
    BY Stops
<1>7. Finds(ts, i, Loop(ts, Products, method, later, first), "term", AfterUnary \cup Products)
    BY <1>3, <1>4, <1>5, <1>6, LoopFinds
<1> QED
    BY <1>1, <1>7 DEF Term, AfterTerm

LEMMA ArithFinds ==
    ASSUME NEW ts, Len(ts) \in Nat, NEW i \in 1..Len(ts), NEW later,
           \A q \in (i + 1)..Len(ts) : FindsAt(ts, q, Ahead(ts, later, q)),
           Finds(ts, i, Term(ts, later, i), "term", AfterTerm)
    PROVE  Finds(ts, i, Arith(ts, later, i), "sum", AfterArith)
<1>1. PICK method, first : method = "term" /\ first = Term(ts, later, i)
    OBVIOUS
<1>2. PICK starts : starts = [j \in i..Len(ts) |-> Trees(ts, i, j, "term")]
    OBVIOUS
<1>3. \A j \in i..Len(ts) : \A t \in Trees(ts, i, j, "sum") :
        t \in starts[j] \/ InSplit(ts, t, i, j, Signs, "sum", "term")
    BY <1>2, Rules
<1>4. \A j \in i..Len(ts) : \A t \in starts[j] :
        Peek(ts, j + 1) \notin AfterTerm => Lands(ts, first, t, j + 1)
    BY <1>1, <1>2 DEF Finds
<1>5. \A q \in (i + 1)..Len(ts) : Finds(ts, q, Ahead(ts, later, q)[method], "term", AfterTerm)
    BY <1>1 DEF FindsAt
<1>6. "(" \notin Signs /\ Signs \cap AfterTerm = {}
    BY Stops
<1>7. Finds(ts, i, Loop(ts, Signs, method, later, first), "sum", AfterTerm \cup Signs)
    BY <1>3, <1>4, <1>5, <1>6, LoopFinds
<1> QED
    BY <1>1, <1>7 DEF Arith, AfterArith

LEMMA ComparisonFinds ==
    ASSUME NEW ts, Len(ts) \in Nat, NEW i \in 1..Len(ts), NEW later,
           \A q \in (i + 1)..Len(ts) : FindsAt(ts, q, Ahead(ts, later, q)),
           Finds(ts, i, Arith(ts, later, i), "sum", AfterArith)
    PROVE  Finds(ts, i, Comparison(ts, later, i), "expression", AfterComparison)
<1>1. SUFFICES ASSUME NEW j \in i..Len(ts), NEW t \in Trees(ts, i, j, "expression"),
                      Peek(ts, j + 1) \notin AfterComparison
               PROVE  Lands(ts, Comparison(ts, later, i), t, j + 1)
    BY DEF Finds
<1>2. PICK first : first = Arith(ts, later, i)
    OBVIOUS
<1>3. Peek(ts, j + 1) \notin AfterArith /\ Peek(ts, j + 1) \notin Comparators
    BY <1>1 DEF AfterComparison
<1>4. ASSUME Stuck(ts, first)
      PROVE  Lands(ts, Comparison(ts, later, i), t, j + 1)
    <2>1. Comparison(ts, later, i) = first
        BY <1>2, <1>4, Stops DEF Comparison, Stuck
    <2> QED
        BY <1>4, <2>1 DEF Lands
<1>5. CASE t \in Trees(ts, i, j, "sum")
    <2>1. Lands(ts, first, t, j + 1)
        BY <1>2, <1>3, <1>5 DEF Finds
    <2>2. CASE first = Read(t, j + 1)
        <3>1. Comparison(ts, later, i) = first
            BY <1>2, <1>3, <2>2, ReadFields DEF Comparison
        <3> QED
            BY <2>2, <3>1 DEF Lands
    <2> QED
        BY <1>4, <2>1, <2>2 DEF Lands
<1>6. CASE InSplit(ts, t, i, j, Comparators, "sum", "sum")
    <2>1. PICK k \in (i + 1)..(j - 1) : ts[k] \in Comparators /\ Halves(ts, t, i, k, j, "sum", "sum")
        BY <1>6 DEF InSplit
    <2>2. PICK l \in Trees(ts, i, k - 1, "sum"), u \in Trees(ts, k + 1, j, "sum") :
            t = Node(ts[k], l, u)
        BY <2>1 DEF Halves
    <2>3. /\ k - 1 \in i..Len(ts) /\ (k - 1) + 1 = k /\ k \in Nat /\ k <= Len(ts)
          /\ k + 1 \in (i + 1)..Len(ts) /\ j \in (k + 1)..Len(ts)
        OBVIOUS
    <2>4. Peek(ts, k) = ts[k] /\ Peek(ts, k) \in Comparators
        BY <2>1, <2>3, PeekIs
    <2>5. Lands(ts, first, l, k)
        <3>1. Peek(ts, (k - 1) + 1) \notin AfterArith
            BY <2>3, <2>4, Stops
        <3>2. Lands(ts, first, l, (k - 1) + 1)
            BY <1>2, <2>2, <2>3, <3>1 DEF Finds
        <3> QED
            BY <2>3, <3>2
    <2>6. PICK r : r = Ahead(ts, later, k + 1).arith
        OBVIOUS
    <2>7. Lands(ts, r, u, j + 1)
        <3>1. Finds(ts, k + 1, r, "sum", AfterArith)
            BY <2>3, <2>6 DEF FindsAt
        <3> QED
            BY <1>3, <2>2, <2>3, <3>1 DEF Finds
    <2>8. CASE first = Read(l, k)
        <3>1. Comparison(ts, later, i) = Compared(ts, first, r)
            BY <1>2, <2>4, <2>6, <2>8, ReadFields DEF Comparison
        <3>2. ~ (~ Failed(r) /\ Peek(ts, r.at) \in Comparators)
            <4>1. CASE r = Read(u, j + 1)
                BY <1>3, <4>1, ReadFields
            <4>2. CASE Stuck(ts, r)
                BY <4>2, Stops DEF Stuck
            <4> QED
                BY <2>7, <4>1, <4>2 DEF Lands
        <3>3. Comparison(ts, later, i) = Join(ts[k], Read(l, k), r)
            BY <2>4, <2>8, <3>1, <3>2, ReadFields DEF Compared
        <3>4. Lands(ts, Join(ts[k], Read(l, k), r), Node(ts[k], l, u), j + 1)
            BY <2>7, JoinLands
        <3> QED
            BY <2>2, <3>3, <3>4
    <2> QED
        BY <1>4, <2>5, <2>8 DEF Lands
<1>7. t \in Trees(ts, i, j, "sum") \/ InSplit(ts, t, i, j, Comparators, "sum", "sum")
    BY Rules
<1> QED
    BY <1>5, <1>6, <1>7

LEMMA MethodsFind ==
    ASSUME NEW ts, Len(ts) \in Nat, NEW i \in 1..Len(ts), NEW later,
           \A q \in (i + 1)..Len(ts) : FindsAt(ts, q, Ahead(ts, later, q)),
           \A q \in (i + 1)..Len(ts) : FailsAt(ts, q, Ahead(ts, later, q))
    PROVE  FindsAt(ts, i, Methods(ts, later, i))
<1>1. Finds(ts, i, Unary(ts, later, i), "factor", AfterUnary)
    BY UnaryFinds
<1>2. Finds(ts, i, Term(ts, later, i), "term", AfterTerm)
    BY <1>1, TermFinds
<1>3. Finds(ts, i, Arith(ts, later, i), "sum", AfterArith)
    BY <1>2, ArithFinds
<1>4. Finds(ts, i, Comparison(ts, later, i), "expression", AfterComparison)
    BY <1>3, ComparisonFinds
<1> QED
    BY <1>1, <1>2, <1>3, <1>4 DEF FindsAt, Methods

(* If Python's grammar has a tree of the tokens from i to j, and the next   *)
(* token would not be read on, the engine's method of that level returns    *)
(* this tree, unless it fails or stops at a bracket.                        *)
THEOREM EngineIsComplete ==
    ASSUME NEW ts, Len(ts) \in Nat
    PROVE  \A i \in 1..Len(ts) : FindsAt(ts, i, MethodsAt(ts, i))
<1> DEFINE S == {n \in Nat : n < Len(ts) => FindsAt(ts, Len(ts) - n, MethodsAt(ts, Len(ts) - n))}
<1>1. ASSUME NEW n \in Nat, \A m \in 0..(n - 1) : m \in S
      PROVE  n \in S
    <2>1. SUFFICES ASSUME n < Len(ts)
                   PROVE  FindsAt(ts, Len(ts) - n, MethodsAt(ts, Len(ts) - n))
        OBVIOUS
    <2>2. PICK i \in 1..Len(ts) : i = Len(ts) - n
        <3>1. Len(ts) - n \in 1..Len(ts)
            BY <2>1
        <3> QED
            BY <3>1
    <2>3. PICK later : later = Readings(ts)[Len(ts) + 1 - i]
        OBVIOUS
    <2>4. ASSUME NEW q \in (i + 1)..Len(ts)
          PROVE  Ahead(ts, later, q) = MethodsAt(ts, q)
        <3>1. i \in 1..(Len(ts) + 1) /\ q \in (i + 1)..(Len(ts) + 1)
            OBVIOUS
        <3> QED
            BY <2>3, <3>1, AheadIs
    <2>5. ASSUME NEW q \in (i + 1)..Len(ts)
          PROVE  FindsAt(ts, q, Ahead(ts, later, q))
        <3>1. /\ Len(ts) - q \in 0..(n - 1) /\ Len(ts) - q < Len(ts)
              /\ Len(ts) - (Len(ts) - q) = q
            BY <2>2
        <3>2. Len(ts) - q \in S
            BY <1>1, <3>1
        <3>3. FindsAt(ts, q, MethodsAt(ts, q))
            BY <3>1, <3>2
        <3> QED
            BY <2>4, <3>3
    <2>6. ASSUME NEW q \in (i + 1)..Len(ts)
          PROVE  FailsAt(ts, q, Ahead(ts, later, q))
        <3>1. q \in 1..(Len(ts) + 1)
            OBVIOUS
        <3>2. FailsAt(ts, q, MethodsAt(ts, q))
            BY <3>1, MethodsFail DEF MethodsAt
        <3> QED
            BY <2>4, <3>2
    <2>7. FindsAt(ts, i, Methods(ts, later, i))
        BY <2>5, <2>6, MethodsFind
    <2> QED
        BY <2>2, <2>3, <2>7 DEF MethodsAt
<1> HIDE DEF S
<1>2. \A n \in Nat : n \in S
    BY <1>1, NaturalSetBelow
<1>3. ASSUME NEW i \in 1..Len(ts)
      PROVE  FindsAt(ts, i, MethodsAt(ts, i))
    <2>1. Len(ts) - i \in Nat /\ Len(ts) - i < Len(ts) /\ Len(ts) - (Len(ts) - i) = i
        OBVIOUS
    <2>2. Len(ts) - i \in S
        BY <1>2, <2>1
    <2> QED
        BY <2>1, <2>2 DEF S
<1> QED
    BY <1>3

(* A formula that the engine accepts, without a keyword of Python among its *)
(* tokens, has one reading in Python, and it is the engine's.               *)
THEOREM ReadingsAgree ==
    ASSUME NEW ts, Len(ts) \in Nat, EngineAccepts(ts),
           \A i \in 1..Len(ts) : ts[i] \notin Keywords
    PROVE  WorkerReads(ts) = {Parsed(ts).tree}
<1>1. PICK r : r = MethodsAt(ts, 1).comparison
    OBVIOUS
<1>2. Parsed(ts) = IF ~ Failed(r) /\ r.at <= Len(ts) THEN Refused(r.at) ELSE r
    BY <1>1, ParsedIs DEF Parsed
<1>3. ~ Failed(r) /\ ~ (r.at <= Len(ts)) /\ Parsed(ts) = r
    BY <1>2, RefusedFails DEF EngineAccepts
<1>4. r.at \in 2..(Len(ts) + 1) /\ r.tree \in Trees(ts, 1, r.at - 1, "expression")
    <2>1. 1 \in 1..(Len(ts) + 1)
        OBVIOUS
    <2>2. SoundAt(ts, 1, MethodsAt(ts, 1))
        BY <2>1, EngineIsSound
    <2>3. Keeps(ts, 1, r, "expression")
        BY <1>1, <2>2 DEF SoundAt
    <2> QED
        BY <1>3, <2>3 DEF Keeps
<1>5. r.at = Len(ts) + 1 /\ r.at - 1 = Len(ts) /\ Len(ts) \in 1..Len(ts) /\ 1 \in 1..Len(ts)
    BY <1>3, <1>4
<1>6. ASSUME NEW t \in Trees(ts, 1, Len(ts), "expression")
      PROVE  t = r.tree
    <2>1. Finds(ts, 1, r, "expression", AfterComparison)
        BY <1>1, <1>5, EngineIsComplete DEF FindsAt
    <2>2. Peek(ts, Len(ts) + 1) = Eof
        <3>1. Len(ts) + 1 \in Nat /\ Len(ts) + 1 > Len(ts)
            OBVIOUS
        <3> QED
            BY <3>1, PeekIs
    <2>3. Lands(ts, r, t, Len(ts) + 1)
        BY <1>5, <2>1, <2>2, Stops DEF Finds
    <2>4. ~ Stuck(ts, r)
        BY <1>3, <1>5, <2>2 DEF Stuck, Eof
    <2> QED
        BY <2>3, <2>4, ReadFields DEF Lands
<1>7. Trees(ts, 1, Len(ts), "expression") = {r.tree}
    BY <1>4, <1>5, <1>6
<1>8. Valid(r.tree, Len(ts))
    BY <1>3 DEF EngineAccepts
<1>9. WorkerReads(ts) = {t \in Trees(ts, 1, Len(ts), "expression") : Valid(t, Len(ts))}
    BY DEF WorkerReads, Trees
<1> QED
    BY <1>3, <1>7, <1>8, <1>9

-----------------------------------------------------------------------------
(* Graphs as the API's schema receives them.                                *)
Graphs == [nodes : Seq(Nodes), edges : Seq(Edges)]

-----------------------------------------------------------------------------
(* Graphs.                                                                 *)

LEMMA GraphParts ==
    ASSUME NEW g \in Graphs
    PROVE  /\ g.nodes \in Seq(Nodes) /\ g.edges \in Seq(Edges)
           /\ DOMAIN g.nodes = 1..Len(g.nodes) /\ Len(g.nodes) \in Nat
           /\ DOMAIN g.edges = 1..Len(g.edges) /\ Len(g.edges) \in Nat
           /\ \A i \in DOMAIN g.nodes : g.nodes[i] \in Nodes
           /\ \A i \in DOMAIN g.edges : g.edges[i] \in Edges
BY DEF Graphs

\* A graph whose identifiers the worker can tell apart.
Clear(g) == NoCollision(NodeIds(g)) /\ NoCollision({e.id : e \in EdgeSet(g)})

\* The job is the graph under the stripped identifiers.
LEMMA JobParts ==
    ASSUME NEW g \in Graphs, NEW job, job = AsJob(g)
    PROVE  /\ DOMAIN job.nodes = DOMAIN g.nodes /\ DOMAIN job.edges = DOMAIN g.edges
           /\ \A i \in DOMAIN g.nodes :
                /\ job.nodes[i].id = Stripped[g.nodes[i].id]
                /\ job.nodes[i].block = g.nodes[i].block
                /\ job.nodes[i].dataset = g.nodes[i].dataset
           /\ \A i \in DOMAIN g.edges :
                /\ job.edges[i].id = Stripped[g.edges[i].id]
                /\ job.edges[i].source = Stripped[g.edges[i].source]
                /\ job.edges[i].target = Stripped[g.edges[i].target]
                /\ job.edges[i].output = g.edges[i].output
                /\ job.edges[i].input = g.edges[i].input
<1>1. /\ job.nodes = [i \in DOMAIN g.nodes |-> [g.nodes[i] EXCEPT !.id = Stripped[@]]]
      /\ job.edges = [i \in DOMAIN g.edges |->
                        [g.edges[i] EXCEPT !.id = Stripped[@], !.source = Stripped[@],
                                           !.target = Stripped[@]]]
    BY DEF AsJob
<1>2. ASSUME NEW i \in DOMAIN g.nodes
      PROVE  /\ job.nodes[i].id = Stripped[g.nodes[i].id]
             /\ job.nodes[i].block = g.nodes[i].block
             /\ job.nodes[i].dataset = g.nodes[i].dataset
    <2>1. g.nodes[i] \in Nodes
        BY GraphParts
    <2>2. job.nodes[i] = [g.nodes[i] EXCEPT !.id = Stripped[@]]
        BY <1>1
    <2> QED
        BY <2>1, <2>2 DEF Nodes
<1>3. ASSUME NEW i \in DOMAIN g.edges
      PROVE  /\ job.edges[i].id = Stripped[g.edges[i].id]
             /\ job.edges[i].source = Stripped[g.edges[i].source]
             /\ job.edges[i].target = Stripped[g.edges[i].target]
             /\ job.edges[i].output = g.edges[i].output
             /\ job.edges[i].input = g.edges[i].input
    <2>1. g.edges[i] \in Edges
        BY GraphParts
    <2>2. job.edges[i] = [g.edges[i] EXCEPT !.id = Stripped[@], !.source = Stripped[@],
                                            !.target = Stripped[@]]
        BY <1>1
    <2> QED
        BY <2>1, <2>2 DEF Edges
<1> QED
    BY <1>1, <1>2, <1>3

\* Where an edge leads.
LEMMA EdgeEnds ==
    ASSUME NEW g \in Graphs, SchemaAccepts(g), NEW i \in DOMAIN g.edges
    PROVE  /\ g.edges[i] \in EdgeSet(g)
           /\ g.edges[i].source \in NodeIds(g) /\ g.edges[i].target \in NodeIds(g)
           /\ g.edges[i].source # g.edges[i].target
BY DEF SchemaAccepts, EdgeSet

\* Stripping is injective on a clear graph.
LEMMA ClearFacts ==
    ASSUME NEW g \in Graphs, Clear(g)
    PROVE  /\ \A n \in NodeIds(g) : Stripped[n] # NoId
           /\ \A n, m \in NodeIds(g) : Stripped[n] = Stripped[m] => n = m
           /\ \A i \in DOMAIN g.edges : Stripped[g.edges[i].id] # NoId
           /\ \A i, j \in DOMAIN g.edges :
                Stripped[g.edges[i].id] = Stripped[g.edges[j].id] => g.edges[i].id = g.edges[j].id
BY DEF Clear, NoCollision, EdgeSet

LEMMA JobIds ==
    ASSUME NEW g \in Graphs
    PROVE  NodeIds(AsJob(g)) = {Stripped[n] : n \in NodeIds(g)}
BY JobParts DEF NodeIds

\* The worker finds the same block under the stripped identifier.
LEMMA SameBlock ==
    ASSUME NEW g \in Graphs, SchemaAccepts(g), Clear(g), NEW n \in NodeIds(g)
    PROVE  Block(AsJob(g), Stripped[n]) = Block(g, n)
<1>1. PICK job : job = AsJob(g)
    OBVIOUS
<1>2. PICK k \in DOMAIN g.nodes : g.nodes[k].id = n
    BY DEF NodeIds
<1>3. \A i \in DOMAIN g.nodes : g.nodes[i].id = n <=> i = k
    BY <1>2 DEF SchemaAccepts, Distinct
<1>4. \A i \in DOMAIN g.nodes : g.nodes[i].id \in NodeIds(g)
    BY DEF NodeIds
<1>5. \A i \in DOMAIN g.nodes : job.nodes[i].id = Stripped[n] <=> i = k
    BY <1>1, <1>3, <1>4, JobParts, ClearFacts
<1>6. k \in Nat
    BY <1>2, GraphParts
<1>7. (CHOOSE i \in {k} : \A j \in {k} : j <= i) = k
    BY <1>6
<1>8. {i \in DOMAIN g.nodes : g.nodes[i].id = n} = {k}
    BY <1>2, <1>3
<1>9. {i \in DOMAIN job.nodes : job.nodes[i].id = Stripped[n]} = {k}
    BY <1>1, <1>2, <1>5, JobParts
<1>10. Block(g, n) = Catalogue[g.nodes[k].block]
    BY <1>7, <1>8 DEF Block
<1>11. Block(job, Stripped[n]) = Catalogue[job.nodes[k].block]
    BY <1>7, <1>9 DEF Block
<1> QED
    BY <1>1, <1>2, <1>10, <1>11, JobParts

\* A port that is served is served once.
LEMMA ServedOnce ==
    ASSUME NEW g \in Graphs, SchemaAccepts(g), PortsExist(g), InputsServed(g),
           NEW i \in DOMAIN g.edges, NEW j \in DOMAIN g.edges,
           g.edges[i].target = g.edges[j].target, g.edges[i].input = g.edges[j].input
    PROVE  i = j
<1>1. PICK into : into = EdgesInto(g, g.edges[i].target, g.edges[i].input)
    OBVIOUS
<1>2. i \in into /\ j \in into /\ into \subseteq DOMAIN g.edges
    BY <1>1 DEF EdgesInto
<1>3. IsFiniteSet(into)
    <2>1. IsFiniteSet(1..Len(g.edges))
        BY GraphParts, FS_Interval
    <2> QED
        BY <1>2, <2>1, GraphParts, FS_Subset
<1>4. g.edges[i].target \in NodeIds(g)
    BY EdgeEnds
<1>5. g.edges[i].input \in DOMAIN Block(g, g.edges[i].target).inputs
    BY EdgeEnds DEF PortsExist
<1>6. Cardinality(into) = 1
    BY <1>1, <1>2, <1>4, <1>5 DEF InputsServed
<1>7. PICK x : into = {x}
    BY <1>3, <1>6, FS_Singleton
<1> QED
    BY <1>2, <1>7

\* A cycle of the job would be one of the graph.
LEMMA SortsToo ==
    ASSUME NEW g \in Graphs, SchemaAccepts(g), Clear(g)
    PROVE  Sorts(AsJob(g))
<1>1. PICK job : job = AsJob(g)
    OBVIOUS
<1> SUFFICES ASSUME NEW S \in (SUBSET NodeIds(job)) \ {{}}
             PROVE  \E n \in S : \A e \in EdgeSet(job) : e.target = n => e.source \notin S
    BY <1>1 DEF Sorts
<1>2. PICK T : T = {n \in NodeIds(g) : Stripped[n] \in S}
    OBVIOUS
<1>3. T \in (SUBSET NodeIds(g)) \ {{}}
    BY <1>1, <1>2, JobIds
<1>4. PICK n \in T : \A e \in EdgeSet(g) : e.target = n => e.source \notin T
    BY <1>3 DEF SchemaAccepts, Sorts
<1>5. ASSUME NEW e \in EdgeSet(job), e.target = Stripped[n] PROVE e.source \notin S
    <2>1. PICK i \in DOMAIN job.edges : e = job.edges[i]
        BY DEF EdgeSet
    <2>2. /\ i \in DOMAIN g.edges
          /\ e.target = Stripped[g.edges[i].target] /\ e.source = Stripped[g.edges[i].source]
        BY <1>1, <2>1, JobParts
    <2>3. /\ g.edges[i] \in EdgeSet(g)
          /\ g.edges[i].source \in NodeIds(g) /\ g.edges[i].target \in NodeIds(g)
        BY <2>2, EdgeEnds
    <2>4. g.edges[i].target = n
        BY <1>2, <1>5, <2>2, <2>3, ClearFacts
    <2>5. g.edges[i].source \notin T
        BY <1>4, <2>3, <2>4
    <2> QED
        BY <1>2, <2>2, <2>3, <2>5
<1> QED
    BY <1>2, <1>5

\* The worker's parser accepts what the API admits.
LEMMA JobIsAccepted ==
    ASSUME NEW g \in Graphs, Admitted(g), Clear(g)
    PROVE  JobAccepts(AsJob(g))
<1>1. SchemaAccepts(g) /\ PortsExist(g) /\ InputsServed(g)
    BY DEF Admitted
<1>2. PICK job : job = AsJob(g)
    OBVIOUS
<1>3. /\ NodeIds(job) = {Stripped[n] : n \in NodeIds(g)}
      /\ DOMAIN job.nodes = DOMAIN g.nodes /\ DOMAIN job.edges = DOMAIN g.edges
    BY <1>2, JobIds, JobParts
<1>4. \A i \in DOMAIN g.nodes : g.nodes[i].id \in NodeIds(g)
    BY DEF NodeIds
<1>5. job.nodes # <<>>
    <2>1. g.nodes # <<>> /\ g.nodes \in Seq(Nodes)
        BY <1>1, GraphParts DEF SchemaAccepts
    <2>2. 1 \in DOMAIN g.nodes
        BY <2>1
    <2> QED
        BY <1>3, <2>2
<1>6. Named(job)
    BY <1>1, <1>2, <1>3, EdgeEnds, ClearFacts, JobParts DEF Named, EdgeSet
<1>7. Distinct(job.nodes)
    BY <1>1, <1>2, <1>3, <1>4, ClearFacts, JobParts DEF Distinct, SchemaAccepts
<1>8. Distinct(job.edges)
    BY <1>1, <1>2, <1>3, ClearFacts, JobParts DEF Distinct, SchemaAccepts
<1>9. ASSUME NEW e \in EdgeSet(job)
      PROVE  /\ {e.source, e.target} \subseteq NodeIds(job)
             /\ e.source # e.target
             /\ e.output \in DOMAIN Block(job, e.source).outputs
             /\ e.input \in DOMAIN Block(job, e.target).inputs
    <2>1. PICK i \in DOMAIN g.edges : e = job.edges[i]
        BY <1>3 DEF EdgeSet
    <2>2. /\ e.source = Stripped[g.edges[i].source] /\ e.target = Stripped[g.edges[i].target]
          /\ e.output = g.edges[i].output /\ e.input = g.edges[i].input
        BY <1>2, <2>1, JobParts
    <2>3. /\ g.edges[i] \in EdgeSet(g)
          /\ g.edges[i].source \in NodeIds(g) /\ g.edges[i].target \in NodeIds(g)
          /\ g.edges[i].source # g.edges[i].target
        BY <1>1, EdgeEnds
    <2>4. /\ g.edges[i].output \in DOMAIN Block(g, g.edges[i].source).outputs
          /\ g.edges[i].input \in DOMAIN Block(g, g.edges[i].target).inputs
        BY <1>1, <2>3 DEF PortsExist
    <2>5. /\ Block(job, e.source) = Block(g, g.edges[i].source)
          /\ Block(job, e.target) = Block(g, g.edges[i].target)
        BY <1>1, <1>2, <2>2, <2>3, SameBlock
    <2>6. e.source # e.target
        BY <2>2, <2>3, ClearFacts
    <2> QED
        BY <1>3, <2>2, <2>3, <2>4, <2>5, <2>6
<1>10. ASSUME NEW i \in DOMAIN job.edges, NEW j \in DOMAIN job.edges,
              job.edges[i].target = job.edges[j].target, job.edges[i].input = job.edges[j].input
       PROVE  i = j
    <2>1. /\ i \in DOMAIN g.edges /\ j \in DOMAIN g.edges
          /\ Stripped[g.edges[i].target] = Stripped[g.edges[j].target]
          /\ g.edges[i].input = g.edges[j].input
        BY <1>2, <1>3, <1>10, JobParts
    <2>2. g.edges[i].target = g.edges[j].target
        BY <1>1, <2>1, EdgeEnds, ClearFacts
    <2> QED
        BY <1>1, <2>1, <2>2, ServedOnce
<1>11. Sorts(job)
    BY <1>1, <1>2, SortsToo
<1> QED
    BY <1>2, <1>5, <1>6, <1>7, <1>8, <1>9, <1>10, <1>11 DEF JobAccepts

\* The loaders find the datasets that the API found READY.
LEMMA JobSourcesFound ==
    ASSUME NEW g \in Graphs, Admitted(g)
    PROVE  SourcesFound(AsJob(g))
<1>1. PICK job : job = AsJob(g)
    OBVIOUS
<1>2. job.datasets = [d \in {n.dataset : n \in SourceNodes(g)} |-> Store[d].format]
    BY <1>1 DEF AsJob
<1> SUFFICES ASSUME NEW n \in SourceNodes(job)
             PROVE  /\ n.dataset \in DOMAIN job.datasets
                    /\ job.datasets[n.dataset] = Catalogue[n.block].format
    BY <1>1 DEF SourcesFound
<1>3. PICK i \in DOMAIN job.nodes : n = job.nodes[i]
    BY DEF SourceNodes
<1>4. /\ i \in DOMAIN g.nodes
      /\ n.block = g.nodes[i].block /\ n.dataset = g.nodes[i].dataset /\ n.block \in Sources
    BY <1>1, <1>3, JobParts DEF SourceNodes
<1>5. g.nodes[i] \in SourceNodes(g)
    BY <1>4 DEF SourceNodes
<1>6. Store[g.nodes[i].dataset].format = Catalogue[g.nodes[i].block].format
    BY <1>5 DEF Admitted, DatasetsServe
<1> QED
    BY <1>2, <1>4, <1>5, <1>6

-----------------------------------------------------------------------------
(* Dataset files.                                                          *)

\* What a profile says of a frame.
ProfileIsTold(profile, frame) ==
    /\ Rejected \notin {profile, frame}
    /\ frame.names = profile.names /\ frame.rows = profile.rows
    /\ profile.numeric \subseteq frame.numeric

LEMMA ReadingsAreTold ==
    ASSUME NEW names, NEW p, NEW q, p \subseteq q, NEW n \in Nat, n # 0
    PROVE  ProfileIsTold(Reading(names, p, n), Reading(names, q, n))
BY DEF ProfileIsTold, Reading, Rejected

LEMMA RowsOf ==
    ASSUME NEW S, NEW s \in Seq(S), s # <<>>
    PROVE  Len(s) \in Nat /\ Len(s) # 0 /\ 1 \in DOMAIN s
OBVIOUS

\* What the API infers as numeric, the worker loads as numeric.
LEMMA NumericToo ==
    ASSUME NEW values \in SUBSET Cells, InferredNumeric(values),
           "bool" \in values => values \cap {"int", "float"} = {}
    PROVE  LoadedNumeric(values)
BY DEF InferredNumeric, LoadedNumeric, Cells

LEMMA CsvIsTold ==
    ASSUME NEW f \in CsvFiles(MaxRecords), NEW o \in CsvOptions, TellsCsv(f, o)
    PROVE  ProfileIsTold(CsvProfile(f, o), CsvFrame(f, o))
<1>1. PICK header : header = HasHeader(f, o)
    OBVIOUS
<1>2. PICK data : data = Data(f.cells, header)
    OBVIOUS
<1>3. PICK own : own = {ColumnName(header)}
    OBVIOUS
<1>4. data \in Seq(Cells)
    <2>1. f.cells \in Seq(Cells)
        BY DEF CsvFiles
    <2> QED
        BY <1>2, <2>1 DEF Data
<1>5. /\ data # <<>>
      /\ f.foreign = "tail" => o.encoding # NoOption
      /\ Elements(data) = Elements(Sampled(data))
      /\ "bool" \in Elements(data) => Elements(data) \cap {"int", "float"} = {}
    BY <1>1, <1>2 DEF TellsCsv
<1>6. Elements(data) \in SUBSET Cells
    BY <1>4 DEF Elements
<1>7. ~ (Encoding(f, o) = "ascii" /\ f.foreign = "tail")
    BY <1>5 DEF Encoding, CsvOptions
<1>8. CsvProfile(f, o) =
        Reading(own, IF InferredNumeric(Elements(data)) THEN own ELSE {}, Len(data))
    BY <1>1, <1>2, <1>3, <1>5 DEF CsvProfile
<1>9. CsvFrame(f, o) =
        Reading(own, IF LoadedNumeric(Elements(data)) THEN own ELSE {}, Len(data))
    BY <1>1, <1>2, <1>3, <1>5, <1>7 DEF CsvFrame, HasHeader
<1>10. Len(data) \in Nat /\ Len(data) # 0
    BY <1>4, <1>5, RowsOf
<1>11. InferredNumeric(Elements(data)) => LoadedNumeric(Elements(data))
    BY <1>5, <1>6, NumericToo
<1> QED
    BY <1>8, <1>9, <1>10, <1>11, ReadingsAreTold

\* A sample is of the kinds that the records are of, and is not empty.
LEMMA SampleIsFlat ==
    ASSUME NEW s \in Seq(RecordKinds), s # <<>>, Elements(s) = {"flat"}
    PROVE  /\ Elements(Sampled(s)) = {"flat"}
           /\ {s[i] : i \in SampledObjects(s)} = {"flat"}
<1>1. SampleSize \in Nat /\ SampleSize # 0
    BY DatasetFilesAssumption
<1>2. Len(s) \in Nat /\ Len(s) # 0 /\ DOMAIN s = 1..Len(s) /\ 1 \in DOMAIN s
    OBVIOUS
<1>3. \A i \in 1..Len(s) : s[i] = "flat"
    BY <1>2 DEF Elements
<1>4. Elements(Sampled(s)) = {"flat"}
    <2>1. PICK n : n = IF Len(s) < SampleSize THEN Len(s) ELSE SampleSize
        OBVIOUS
    <2>2. n \in Nat /\ n # 0 /\ n <= Len(s)
        BY <1>1, <1>2, <2>1
    <2>3. PICK t : t = SubSeq(s, 1, n)
        OBVIOUS
    <2>4. DOMAIN t = 1..n /\ \A i \in 1..n : t[i] = s[i]
        BY <1>2, <2>2, <2>3
    <2>5. \A i \in DOMAIN t : t[i] = "flat"
        BY <1>2, <1>3, <2>2, <2>4
    <2>6. 1 \in DOMAIN t
        BY <2>2, <2>4
    <2>7. Elements(t) = {"flat"}
        BY <2>5, <2>6 DEF Elements
    <2> QED
        BY <2>1, <2>3, <2>7 DEF Sampled
<1>5. ObjectsUpTo(s, 1) = {1}
    BY <1>2, <1>3 DEF ObjectsUpTo
<1>6. Cardinality(ObjectsUpTo(s, 1)) <= SampleSize
    <2>1. Cardinality({1}) = 1
        BY FS_Singleton
    <2>2. Cardinality(ObjectsUpTo(s, 1)) = 1
        BY <1>5, <2>1
    <2>3. 1 <= SampleSize
        BY <1>1
    <2> QED
        BY <2>2, <2>3
<1>7. 1 \in SampledObjects(s) /\ SampledObjects(s) \subseteq 1..Len(s)
    BY <1>2, <1>3, <1>6 DEF SampledObjects, ObjectsUpTo
<1> QED
    BY <1>2, <1>3, <1>4, <1>7

LEMMA JsonIsTold ==
    ASSUME NEW f \in JsonFiles(MaxRecords), NEW o \in JsonOptions, TellsJson(f, o)
    PROVE  ProfileIsTold(JsonProfile(f, o), JsonFrame(f, o))
<1>1. f.records \in Seq(RecordKinds)
    BY DEF JsonFiles
<1>2. /\ f.records # <<>> /\ Elements(f.records) = {"flat"}
      /\ \/ o.path = NoOption /\ f.root = "array"
         \/ o.path = "p" /\ f.root = "object"
    BY DEF TellsJson
<1>3. NoOption # "p"
    BY DatasetFilesAssumption
<1>4. ApiColumns({"flat"}) = {"k"} /\ NumericOf({"k"}) = {"k"}
    BY DEF ApiColumns, NumericOf
<1>5. Streamed(f, o) = f.records /\ ~ StreamRefuses(f, o) /\ Found(f, o)
    BY <1>2, <1>3 DEF Streamed, StreamRefuses, Found
<1>6. JsonProfile(f, o) = Reading({"k"}, {"k"}, Len(f.records))
    BY <1>1, <1>2, <1>4, <1>5, SampleIsFlat DEF JsonProfile
<1>7. JsonFrame(f, o) = Reading({"k"}, {"k"}, Len(f.records))
    <2>1. {c \in {"k", "o.k"} : \/ c = "k" /\ "flat" \in Elements(f.records)
                                \/ c = "o.k" /\ "nested" \in Elements(f.records)} = {"k"}
        BY <1>2
    <2> QED
        BY <1>2, <1>4, <2>1 DEF JsonFrame
<1> QED
    BY <1>1, <1>2, <1>6, <1>7, RowsOf, ReadingsAreTold

LEMMA LeastIsMember ==
    ASSUME NEW S, S \subseteq Nat, S # {}
    PROVE  Least(S) \in S
<1> DEFINE less == {p \in Nat \X Nat : p[1] < p[2]}
<1>1. IsWellFoundedOn(less, Nat)
    BY NatLessThanWellFounded DEF OpToRel
<1>2. PICK m \in S : \A k \in S : ~ (<<k, m>> \in less)
    BY <1>1, WFMin
<1>3. ASSUME NEW k \in S PROVE m <= k
    <2>1. k \in Nat /\ m \in Nat
        OBVIOUS
    <2>2. k < m => <<k, m>> \in less
        BY <2>1
    <2> QED
        BY <1>2, <2>1, <2>2
<1> QED
    BY <1>3 DEF Least

\* The children that bear a tag.
LEMMA ChildrenAt ==
    ASSUME NEW f \in XmlFiles(MaxRecords), NEW tag, At(f, tag) # {}
    PROVE  /\ Cardinality(At(f, tag)) \in Nat /\ Cardinality(At(f, tag)) # 0
           /\ {Column(f.children[i]) : i \in At(f, tag)} = {Column(tag)}
<1>1. PICK n \in 1..MaxRecords : DOMAIN f.children = 1..n
    BY DEF XmlFiles
<1>2. IsFiniteSet(DOMAIN f.children) /\ At(f, tag) \subseteq DOMAIN f.children
    BY <1>1, FS_Interval DEF At
<1>3. IsFiniteSet(At(f, tag))
    BY <1>2, FS_Subset
<1>4. \A i \in At(f, tag) : f.children[i] = tag
    BY DEF At
<1>5. {Column(f.children[i]) : i \in At(f, tag)} = {Column(tag)}
    BY <1>4
<1> QED
    BY <1>3, <1>5, FS_CardinalityType, FS_EmptySet

\* The tag that comes twice first.
LEMMA RepeatedTag ==
    ASSUME NEW f \in XmlFiles(MaxRecords), NEW o \in XmlOptions, o.element = NoOption,
           ~ f.declared, Repeated(f) # {}
    PROVE  BufferedTag(f, o) # NoOption /\ At(f, BufferedTag(f, o)) # {}
<1>1. PICK n \in 1..MaxRecords :
        DOMAIN f.children = 1..n /\ \A i \in 1..n : f.children[i] \in {"row", "note"}
    BY DEF XmlFiles
<1>2. PICK twice : twice = {i \in DOMAIN f.children : Cardinality(At(f, f.children[i])) > 1}
    OBVIOUS
<1>3. PICK i \in DOMAIN f.children : \E j \in 1..(i - 1) : f.children[j] = f.children[i]
    BY DEF Repeated
<1>4. PICK j \in 1..(i - 1) : f.children[j] = f.children[i]
    BY <1>3
<1>5. At(f, f.children[i]) # {} /\ {i, j} \subseteq At(f, f.children[i]) /\ i # j
    BY <1>1, <1>3, <1>4 DEF At
<1>6. IsFiniteSet(At(f, f.children[i]))
    <2>1. At(f, f.children[i]) \subseteq 1..n
        BY <1>1 DEF At
    <2>2. IsFiniteSet(1..n)
        BY FS_Interval
    <2> QED
        BY <2>1, <2>2, FS_Subset
<1>7. Cardinality(At(f, f.children[i])) > 1
    <2>1. /\ Cardinality(At(f, f.children[i])) # 0
          /\ Cardinality(At(f, f.children[i])) # 1
        BY <1>5, <1>6, FS_EmptySet, FS_Singleton
    <2> QED
        BY <1>6, <2>1, FS_CardinalityType
<1>8. twice # {} /\ twice \subseteq Nat /\ twice \subseteq DOMAIN f.children
    BY <1>1, <1>2, <1>3, <1>7
<1>9. Least(twice) \in twice
    BY <1>8, LeastIsMember
<1>10. BufferedTag(f, o) = f.children[Least(twice)]
    BY <1>2, <1>8 DEF BufferedTag
<1>11. f.children[Least(twice)] \in {"row", "note"}
    BY <1>1, <1>8, <1>9
<1>12. Least(twice) \in At(f, f.children[Least(twice)])
    BY <1>8, <1>9 DEF At
<1> QED
    BY <1>10, <1>11, <1>12, DatasetFilesAssumption

LEMMA XmlIsTold ==
    ASSUME NEW f \in XmlFiles(MaxRecords), NEW o \in XmlOptions, TellsXml(f, o)
    PROVE  ProfileIsTold(XmlProfile(f, o), XmlFrame(f, o))
<1>1. ~ f.numbers /\ (f.large \/ ~ f.declared)
    BY DEF TellsXml
<1>2. NoOption \notin {"row", "note"}
    BY DatasetFilesAssumption
<1>3. PICK tag : tag = IF f.large THEN StreamedTag(f, o) ELSE BufferedTag(f, o)
    OBVIOUS
<1>4. PICK m : m = Cardinality(At(f, tag))
    OBVIOUS
<1>5. /\ tag # NoOption /\ At(f, tag) # {}
      /\ o.element # NoOption => o.element = tag
      /\ f.large => o.element # NoOption
    <2>1. CASE o.element # NoOption
        BY <1>3, <2>1 DEF TellsXml, StreamedTag, BufferedTag
    <2>2. CASE o.element = NoOption
        BY <1>1, <1>3, <2>2, RepeatedTag DEF TellsXml
    <2> QED
        BY <2>1, <2>2
<1>6. m \in Nat /\ m # 0 /\ {Column(f.children[i]) : i \in At(f, tag)} = {Column(tag)}
    BY <1>4, <1>5, ChildrenAt
<1>7. XmlProfile(f, o) = Reading({Column(tag)}, {}, m)
    <2>1. CASE f.large
        <3>1. m - 0 = m
            BY <1>6
        <3> QED
            BY <1>1, <1>3, <1>4, <1>5, <1>6, <2>1, <3>1 DEF XmlProfile
    <2>2. CASE ~ f.large
        BY <1>1, <1>3, <1>4, <1>5, <1>6, <2>2 DEF XmlProfile
    <2> QED
        BY <2>1, <2>2
<1>8. XmlFrame(f, o) = Reading({Column(tag)}, {}, m)
    BY <1>3, <1>4, <1>5, <1>6 DEF XmlFrame
<1> QED
    BY <1>6, <1>7, <1>8, ReadingsAreTold

LEMMA FileIsTold ==
    ASSUME artifact \in FilesWithOptions
    PROVE  ProfileTellsFrame
<1>1. PICK f, o :
        /\ artifact = File(f, o)
        /\ \/ f \in CsvFiles(MaxRecords) /\ o \in CsvOptions
           \/ f \in JsonFiles(MaxRecords) /\ o \in JsonOptions
           \/ f \in XmlFiles(MaxRecords) /\ o \in XmlOptions
    BY DEF FilesWithOptions
<1>2. artifact.file = f /\ artifact.options = o
    BY <1>1 DEF File
<1> SUFFICES ASSUME Tells(f, o) PROVE ProfileIsTold(Profile(f, o), Frame(f, o))
    BY <1>2 DEF ProfileTellsFrame, ProfileIsTold
<1>3. CASE f \in CsvFiles(MaxRecords) /\ o \in CsvOptions
    <2>1. f.format = "csv"
        BY <1>3 DEF CsvFiles
    <2> QED
        BY <1>3, <2>1, CsvIsTold DEF Tells, Profile, Frame
<1>4. CASE f \in JsonFiles(MaxRecords) /\ o \in JsonOptions
    <2>1. f.format = "json"
        BY <1>4 DEF JsonFiles
    <2> QED
        BY <1>4, <2>1, JsonIsTold DEF Tells, Profile, Frame
<1>5. CASE f \in XmlFiles(MaxRecords) /\ o \in XmlOptions
    <2>1. f.format = "xml"
        BY <1>5 DEF XmlFiles
    <2> QED
        BY <1>5, <2>1, XmlIsTold DEF Tells, Profile, Frame
<1> QED
    BY <1>1, <1>3, <1>4, <1>5

-----------------------------------------------------------------------------
(* The specification.                                                       *)

(* A graph is a sequence of nodes and one of edges, a file is never changed, *)
(* and a formula is a sequence of tokens.                                    *)
AgreementInv ==
    \/ \E g \in Graphs : artifact = Graph(g)
    \/ artifact \in FilesWithOptions
    \/ \E ts \in Seq(Tokens) : artifact = Formula(ts)

LEMMA KindOf ==
    /\ \A g : Graph(g).kind = "graph" /\ Graph(g).graph = g
    /\ \A f, o : File(f, o).kind = "file"
    /\ \A ts : Formula(ts).kind = "formula" /\ Formula(ts).tokens = ts
BY DEF Graph, File, Formula

LEMMA FileKind ==
    ASSUME artifact \in FilesWithOptions
    PROVE  artifact.kind = "file"
BY KindOf DEF FilesWithOptions

LEMMA InitIsTyped ==
    ASSUME Init
    PROVE  AgreementInv
<1>1. [nodes |-> <<>>, edges |-> <<>>] \in Graphs
    BY DEF Graphs
<1>2. <<>> \in Seq(Tokens)
    OBVIOUS
<1> QED
    BY <1>1, <1>2 DEF Init, Submitted, AgreementInv

LEMMA AddNodeKeeps ==
    ASSUME AgreementInv, NEW node \in Nodes, AddNode(node)
    PROVE  AgreementInv'
<1>1. PICK g \in Graphs : artifact = Graph(g)
    BY FileKind, KindOf DEF AgreementInv, AddNode
<1>2. PICK h : h = [g EXCEPT !.nodes = Append(@, node)]
    OBVIOUS
<1>3. h \in Graphs
    <2>1. g.nodes \in Seq(Nodes) /\ g.edges \in Seq(Edges)
        BY GraphParts
    <2>2. Append(g.nodes, node) \in Seq(Nodes)
        BY <2>1
    <2> QED
        BY <1>2, <2>2 DEF Graphs
<1>4. artifact' = Graph(h)
    BY <1>1, <1>2 DEF AddNode, Graph
<1> QED
    BY <1>3, <1>4 DEF AgreementInv

LEMMA AddEdgeKeeps ==
    ASSUME AgreementInv, NEW edge \in Edges, AddEdge(edge)
    PROVE  AgreementInv'
<1>1. PICK g \in Graphs : artifact = Graph(g)
    BY FileKind, KindOf DEF AgreementInv, AddEdge
<1>2. PICK h : h = [g EXCEPT !.edges = Append(@, edge)]
    OBVIOUS
<1>3. h \in Graphs
    <2>1. g.nodes \in Seq(Nodes) /\ g.edges \in Seq(Edges)
        BY GraphParts
    <2>2. Append(g.edges, edge) \in Seq(Edges)
        BY <2>1
    <2> QED
        BY <1>2, <2>2 DEF Graphs
<1>4. artifact' = Graph(h)
    BY <1>1, <1>2 DEF AddEdge, Graph
<1> QED
    BY <1>3, <1>4 DEF AgreementInv

LEMMA TypeKeeps ==
    ASSUME AgreementInv, NEW token \in Tokens, Type(token)
    PROVE  AgreementInv'
<1>1. PICK ts \in Seq(Tokens) : artifact = Formula(ts)
    BY FileKind, KindOf DEF AgreementInv, Type
<1>2. artifact' = Formula(Append(ts, token))
    BY <1>1, KindOf DEF Type
<1>3. Append(ts, token) \in Seq(Tokens)
    OBVIOUS
<1> QED
    BY <1>2, <1>3 DEF AgreementInv

(* What a user writes is always a formula, a graph or a file of the shape  *)
(* that the two readers are given.                                         *)
THEOREM AgreementInvariant == Spec => []AgreementInv
<1>1. Init => AgreementInv
    BY InitIsTyped
<1>2. AgreementInv /\ [Next]_artifact => AgreementInv'
    <2> SUFFICES ASSUME AgreementInv, [Next]_artifact PROVE AgreementInv'
        OBVIOUS
    <2>1. CASE Assemble
        BY <2>1, AddNodeKeeps, AddEdgeKeeps DEF Assemble
    <2>2. CASE \E token \in Tokens : Type(token)
        BY <2>2, TypeKeeps
    <2>3. CASE UNCHANGED artifact
        BY <2>3 DEF AgreementInv, FilesWithOptions
    <2> QED
        BY <2>1, <2>2, <2>3 DEF Next
<1> QED
    BY <1>1, <1>2, PTL DEF Spec

(* A formula that the API accepts is read by the worker in one way, the     *)
(* engine's, for any operators, columns, functions and length, unless a     *)
(* token is a keyword of Python.                                            *)
THEOREM SameReadingHolds == Spec => []SameReading
<1>1. AgreementInv => SameReading
    <2> SUFFICES ASSUME AgreementInv, artifact.kind = "formula",
                        EngineAccepts(artifact.tokens),
                        \A i \in DOMAIN artifact.tokens : artifact.tokens[i] \notin Keywords
                 PROVE  WorkerReads(artifact.tokens) = {Parsed(artifact.tokens).tree}
        BY DEF SameReading
    <2>1. artifact.tokens \in Seq(Tokens)
        BY FileKind, KindOf DEF AgreementInv
    <2>2. Len(artifact.tokens) \in Nat /\ DOMAIN artifact.tokens = 1..Len(artifact.tokens)
        BY <2>1
    <2> QED
        BY <2>2, ReadingsAgree
<1> QED
    BY <1>1, AgreementInvariant, PTL

(* A submitted graph that the API admits is accepted by the worker's parser *)
(* and its loaders find their datasets, for any catalogue, store and graph  *)
(* whose identifiers differ by more than blanks.                            *)
THEOREM AdmittedGraphParsesHolds == Spec => []AdmittedGraphParses
<1>1. AgreementInv => AdmittedGraphParses
    <2> SUFFICES ASSUME AgreementInv, artifact.kind = "graph",
                        Admitted(artifact.graph), Clear(artifact.graph)
                 PROVE  JobAccepts(AsJob(artifact.graph)) /\ SourcesFound(AsJob(artifact.graph))
        BY DEF AdmittedGraphParses, Clear
    <2>1. artifact.graph \in Graphs
        BY FileKind, KindOf DEF AgreementInv
    <2> QED
        BY <2>1, JobIsAccepted, JobSourcesFound
<1> QED
    BY <1>1, AgreementInvariant, PTL

(* The profile of a READY dataset tells the names, the numeric columns and  *)
(* the number of records of the frame that the worker loads, for any file,  *)
(* options and sample, apart from the files that Tells excludes.            *)
THEOREM ProfileTellsFrameHolds == Spec => []ProfileTellsFrame
<1>1. AgreementInv => ProfileTellsFrame
    <2>1. CASE artifact \in FilesWithOptions
        BY <2>1, FileIsTold
    <2>2. CASE artifact \notin FilesWithOptions
        BY <2>2, KindOf DEF AgreementInv, ProfileTellsFrame
    <2> QED
        BY <2>1, <2>2
<1> QED
    BY <1>1, AgreementInvariant, PTL
================================================================================
