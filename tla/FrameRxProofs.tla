---------------------------- MODULE FrameRxProofs ----------------------------
(***************************************************************************)
(* The checksum, for every run of bytes, and the reassembly of frames, for *)
(* every set of payloads, every buffer they fit into and every way the     *)
(* reads cut what arrives.                                                 *)
(*                                                                         *)
(* crc16_calculate is a loop over data of any length.  LoopExists gives    *)
(* the values of such a loop, and UpToInduction proves of all of them what *)
(* every turn keeps: that register and polynomial are Equivalent, equal up *)
(* to a multiple of Ccitt.  Below degree 16 there is one such register.    *)
(*                                                                         *)
(* The reassembly rests on InTurn, which says where each byte of the       *)
(* frames not handed on lies: in the buffer, or behind it on the wire.     *)
(*                                                                         *)
(* What the checksum notices rests on two facts about a multiple of Ccitt  *)
(* that is not empty: its terms are even in number (MultipleIsEven) and    *)
(* never within 16 places of each other (MultipleIsWide).                  *)
(***************************************************************************)
EXTENDS FrameRx, SequenceTheorems, FiniteSetTheorems, WellFoundedInduction, TLAPS

-----------------------------------------------------------------------------
(***************************************************************************)
(* Induction.                                                              *)
(***************************************************************************)
\* Every set of numbers that is not empty has a least one.
LEMMA LeastExists ==
  ASSUME NEW S, S \subseteq Nat, S # {}
  PROVE  \E m \in S : \A n \in S : m <= n
<1> DEFINE T == {0 .. n : n \in S}
<1>1. T \subseteq FiniteSubsetsOf(Nat)
  <2>1. ASSUME NEW n \in S
        PROVE  0 .. n \subseteq Nat /\ IsFiniteSet(0 .. n)
    <3>1. n \in Int /\ 0 \in Int OBVIOUS
    <3>2. QED BY <3>1, FS_Interval
  <2>2. QED BY <2>1 DEF FiniteSubsetsOf
<1>2. T # {} OBVIOUS
<1>3. PICK X \in T : \A Y \in T : ~(<<Y, X>> \in StrictSubsetOrdering(Nat))
  BY <1>1, <1>2, FS_StrictSubsetOrderingWellFounded, WFMin
<1>4. PICK m \in S : X = 0 .. m OBVIOUS
<1>5. ASSUME NEW n \in S, n < m
      PROVE  FALSE
  <2>1. 0 .. n \in T OBVIOUS
  <2>2. 0 .. n \subseteq 0 .. m /\ 0 .. n # 0 .. m
    <3>1. m \in 0 .. m /\ m \notin 0 .. n BY <1>5
    <3>2. QED BY <3>1, <1>5
  <2>3. <<0 .. n, 0 .. m>> \in StrictSubsetOrdering(Nat) BY <2>2 DEF StrictSubsetOrdering
  <2>4. QED BY <1>3, <1>4, <2>1, <2>3
<1>6. QED BY <1>5

\* A set of numbers up to n that holds 0 and with every number the next holds all.
LEMMA UpToInduction ==
  ASSUME NEW n \in Nat, NEW S, 0 \in S, \A i \in 0 .. n - 1 : i \in S => i + 1 \in S
  PROVE  \A i \in 0 .. n : i \in S
<1> SUFFICES ASSUME NEW i \in 0 .. n, i \notin S
             PROVE  FALSE
  OBVIOUS
<1> DEFINE Rest == {j \in 0 .. n : j \notin S}
<1>1. Rest \subseteq Nat /\ Rest # {} OBVIOUS
<1>2. PICK m \in Rest : \A j \in Rest : m <= j BY <1>1, LeastExists
<1>3. m \in 0 .. n /\ m # 0 /\ m \notin S BY <1>2
<1>4. m - 1 \in 0 .. n - 1 /\ m - 1 \notin Rest BY <1>2, <1>3
<1>5. m - 1 \in S BY <1>3, <1>4
<1>6. QED BY <1>3, <1>4, <1>5

\* The values of a loop of n turns, from `start' by a function of each turn.
IsLoop(loop, n, V, start, next) ==
  /\ loop \in [0 .. n -> V] /\ loop[0] = start
  /\ \A i \in 1 .. n : loop[i] = next[i][loop[i - 1]]

\* There are such values: the recursive functions of the model are what they say.
LEMMA LoopExists ==
  ASSUME NEW n \in Nat, NEW V, NEW start \in V, NEW next \in [1 .. n -> [V -> V]]
  PROVE  \E loop : IsLoop(loop, n, V, start, next)
<1> DEFINE IsUpTo(f, m) == /\ f \in [0 .. m -> V] /\ f[0] = start
                           /\ \A i \in 1 .. m : f[i] = next[i][f[i - 1]]
           S == {m \in 0 .. n : \E f : IsUpTo(f, m)}
<1>1. 0 \in S
  <2> DEFINE f == [i \in 0 .. 0 |-> start]
  <2>1. f \in [0 .. 0 -> V] /\ f[0] = start OBVIOUS
  <2>2. 1 .. 0 = {} OBVIOUS
  <2> HIDE DEF f
  <2>3. IsUpTo(f, 0) BY <2>1, <2>2
  <2>4. QED BY <2>3
<1>2. ASSUME NEW m \in 0 .. n - 1, m \in S
      PROVE  m + 1 \in S
  <2>1. PICK f : IsUpTo(f, m) BY <1>2
  <2> DEFINE g == [i \in 0 .. m + 1 |-> IF i = m + 1 THEN next[m + 1][f[m]] ELSE f[i]]
  <2>2. f[m] \in V /\ m + 1 \in 1 .. n BY <2>1
  <2>3. next[m + 1][f[m]] \in V BY <2>2
  <2>4. g \in [0 .. m + 1 -> V] BY <2>1, <2>3
  <2>5. g[0] = start BY <2>1
  <2>6. ASSUME NEW i \in 1 .. m + 1
        PROVE  g[i] = next[i][g[i - 1]]
    <3>1. i - 1 \in 0 .. m /\ g[i - 1] = f[i - 1] BY <2>1
    <3>2. CASE i = m + 1 BY <3>1, <3>2
    <3>3. CASE i # m + 1
      <4>1. i \in 1 .. m BY <3>3
      <4>2. g[i] = f[i] BY <4>1
      <4>3. QED BY <2>1, <3>1, <4>1, <4>2
    <3>4. QED BY <3>2, <3>3
  <2> HIDE DEF g
  <2>7. IsUpTo(g, m + 1) BY <2>4, <2>5, <2>6
  <2> HIDE DEF IsUpTo
  <2>8. QED BY <2>7
<1>3. n \in S
  <2> HIDE DEF S
  <2>1. \A i \in 0 .. n : i \in S BY <1>1, <1>2, UpToInduction
  <2>2. QED BY <2>1
<1>4. PICK f : IsUpTo(f, n) BY <1>3
<1>5. QED BY <1>4 DEF IsLoop

-----------------------------------------------------------------------------
(***************************************************************************)
(* Polynomials.                                                            *)
(***************************************************************************)
\* A term is in a sum when it is in one of the two.
LEMMA PlusMember ==
  ASSUME NEW p, NEW q, NEW x
  PROVE  x \in Plus(p, q) <=> ~(x \in p <=> x \in q)
BY DEF Plus

\* A term of p times x^n.
LEMMA UpMember ==
  ASSUME NEW p \in SUBSET Nat, NEW n \in Nat, NEW x \in Int
  PROVE  x \in Up(p, n) <=> x - n \in p
BY DEF Up

\* A sum has natural exponents.
LEMMA PlusClosed ==
  ASSUME NEW p \in SUBSET Nat, NEW q \in SUBSET Nat
  PROVE  Plus(p, q) \in SUBSET Nat
BY DEF Plus

\* So has a product with x^n.
LEMMA UpClosed ==
  ASSUME NEW p \in SUBSET Nat, NEW n \in Nat
  PROVE  Up(p, n) \in SUBSET Nat
BY DEF Up

\* The sums form a group in which every element is its own inverse.
LEMMA PlusLaws ==
  ASSUME NEW p, NEW q, NEW r
  PROVE  /\ Plus(p, q) = Plus(q, p) /\ Plus(Plus(p, q), r) = Plus(p, Plus(q, r))
         /\ Plus(p, p) = {} /\ Plus(p, {}) = p
BY DEF Plus

\* x^n times a sum.
LEMMA UpPlus ==
  ASSUME NEW p \in SUBSET Nat, NEW q \in SUBSET Nat, NEW n \in Nat
  PROVE  Up(Plus(p, q), n) = Plus(Up(p, n), Up(q, n))
<1>1. /\ Plus(p, q) \in SUBSET Nat /\ Up(p, n) \in SUBSET Nat /\ Up(q, n) \in SUBSET Nat
      /\ Up(Plus(p, q), n) \in SUBSET Nat /\ Plus(Up(p, n), Up(q, n)) \in SUBSET Nat
  BY PlusClosed, UpClosed
<1>2. ASSUME NEW x \in Int
      PROVE  x \in Up(Plus(p, q), n) <=> x \in Plus(Up(p, n), Up(q, n))
  <2>1. /\ x \in Up(p, n) <=> x - n \in p
        /\ x \in Up(q, n) <=> x - n \in q
        /\ x \in Up(Plus(p, q), n) <=> x - n \in Plus(p, q)
    BY <1>1, UpMember
  <2>2. QED BY <2>1, PlusMember
<1>3. QED BY <1>1, <1>2

\* x^n times x^m times p.
LEMMA UpUp ==
  ASSUME NEW p \in SUBSET Nat, NEW n \in Nat, NEW m \in Nat
  PROVE  Up(Up(p, m), n) = Up(p, m + n)
<1>1. m + n \in Nat OBVIOUS
<1>2. /\ Up(p, m) \in SUBSET Nat /\ Up(Up(p, m), n) \in SUBSET Nat
      /\ Up(p, m + n) \in SUBSET Nat
  BY <1>1, UpClosed
<1>3. ASSUME NEW x \in Int
      PROVE  x \in Up(Up(p, m), n) <=> x \in Up(p, m + n)
  <2>1. x - n \in Int /\ (x - n) - m = x - (m + n) OBVIOUS
  <2>2. /\ x \in Up(Up(p, m), n) <=> x - n \in Up(p, m)
        /\ x - n \in Up(p, m) <=> (x - n) - m \in p
        /\ x \in Up(p, m + n) <=> x - (m + n) \in p
    BY <1>1, <1>2, <2>1, UpMember
  <2>3. QED BY <2>1, <2>2
<1>4. QED BY <1>2, <1>3

\* The multiples of Ccitt.
Multiple(q) == Plus(Plus(q, Up(q, 5)), Plus(Up(q, 12), Up(q, 16)))

\* A term of q times Ccitt.
LEMMA MultipleMember ==
  ASSUME NEW q \in SUBSET Nat, NEW x \in Int
  PROVE  x \in Multiple(q) <=> ~(~(x \in q <=> x - 5 \in q) <=> ~(x - 12 \in q <=> x - 16 \in q))
<1>1. /\ x \in Up(q, 5) <=> x - 5 \in q
      /\ x \in Up(q, 12) <=> x - 12 \in q
      /\ x \in Up(q, 16) <=> x - 16 \in q
  BY UpMember
<1>2. QED BY <1>1, PlusMember DEF Multiple

\* A multiple has natural exponents.
LEMMA MultipleClosed ==
  ASSUME NEW q \in SUBSET Nat
  PROVE  Multiple(q) \in SUBSET Nat
<1>1. Up(q, 5) \in SUBSET Nat /\ Up(q, 12) \in SUBSET Nat /\ Up(q, 16) \in SUBSET Nat
  BY UpClosed
<1>2. QED BY <1>1, PlusClosed DEF Multiple

\* The sum of two multiples is the multiple by the sum.
LEMMA MultiplePlus ==
  ASSUME NEW p \in SUBSET Nat, NEW q \in SUBSET Nat
  PROVE  Multiple(Plus(p, q)) = Plus(Multiple(p), Multiple(q))
<1>1. /\ Plus(p, q) \in SUBSET Nat
      /\ Multiple(Plus(p, q)) \in SUBSET Nat /\ Plus(Multiple(p), Multiple(q)) \in SUBSET Nat
  BY MultipleClosed, PlusClosed
<1>2. ASSUME NEW x \in Int
      PROVE  x \in Multiple(Plus(p, q)) <=> x \in Plus(Multiple(p), Multiple(q))
  <2>1. \A y : y \in Plus(p, q) <=> ~(y \in p <=> y \in q) BY PlusMember
  <2>2. x \in Plus(Multiple(p), Multiple(q)) <=> ~(x \in Multiple(p) <=> x \in Multiple(q))
    BY PlusMember
  <2>3. QED BY <1>1, <2>1, <2>2, MultipleMember
<1>3. QED BY <1>1, <1>2

\* x^n times a multiple.
LEMMA MultipleUp ==
  ASSUME NEW q \in SUBSET Nat, NEW n \in Nat
  PROVE  Multiple(Up(q, n)) = Up(Multiple(q), n)
<1>1. /\ Up(q, n) \in SUBSET Nat /\ Up(q, 5) \in SUBSET Nat
      /\ Up(q, 12) \in SUBSET Nat /\ Up(q, 16) \in SUBSET Nat
  BY UpClosed
<1>2. /\ Up(Up(q, n), 5) = Up(Up(q, 5), n) /\ Up(Up(q, n), 12) = Up(Up(q, 12), n)
      /\ Up(Up(q, n), 16) = Up(Up(q, 16), n)
  <2>1. \A m \in Nat : /\ Up(Up(q, n), m) = Up(q, n + m)
                       /\ Up(Up(q, m), n) = Up(q, m + n)
    BY UpUp
  <2>2. n + 5 = 5 + n /\ n + 12 = 12 + n /\ n + 16 = 16 + n OBVIOUS
  <2>3. QED BY <2>1, <2>2
<1>3. /\ Plus(q, Up(q, 5)) \in SUBSET Nat /\ Plus(Up(q, 12), Up(q, 16)) \in SUBSET Nat
  BY <1>1, PlusClosed
<1>4. /\ Plus(Up(q, n), Up(Up(q, 5), n)) = Up(Plus(q, Up(q, 5)), n)
      /\ Plus(Up(Up(q, 12), n), Up(Up(q, 16), n)) = Up(Plus(Up(q, 12), Up(q, 16)), n)
      /\ Plus(Up(Plus(q, Up(q, 5)), n), Up(Plus(Up(q, 12), Up(q, 16)), n))
           = Up(Plus(Plus(q, Up(q, 5)), Plus(Up(q, 12), Up(q, 16))), n)
  BY <1>1, <1>3, UpPlus
<1>5. QED BY <1>2, <1>4 DEF Multiple

\* Ccitt itself, moved up.
LEMMA CcittIsMultiple ==
  ASSUME NEW n \in Nat
  PROVE  Up(Ccitt, n) = Multiple({n})
<1>1. Up(Ccitt, n) = {n, n + 5, n + 12, n + 16} BY DEF Up, Ccitt
<1>2. /\ Up({n}, 5) = {n + 5} /\ Up({n}, 12) = {n + 12} /\ Up({n}, 16) = {n + 16}
  BY DEF Up
<1>3. Multiple({n}) = Plus(Plus({n}, {n + 5}), Plus({n + 12}, {n + 16})) BY <1>2 DEF Multiple
<1>4. QED BY <1>1, <1>3 DEF Plus

\* Equal up to a multiple of Ccitt.
Polynomial == {q \in SUBSET Nat : \E m \in Nat : q \subseteq 0 .. m}
Equivalent(p, r) == \E q \in Polynomial : Plus(p, r) = Multiple(q)

\* Every set of exponents is equivalent to itself.
LEMMA EquivalentSelf ==
  ASSUME NEW p
  PROVE  Equivalent(p, p)
<1>1. Multiple({}) = {} BY DEF Multiple, Plus, Up
<1>2. Plus(p, p) = Multiple({}) BY <1>1, PlusLaws
<1>3. {} \in Polynomial
  <2>1. {} \subseteq 0 .. 0 OBVIOUS
  <2>2. QED BY <2>1 DEF Polynomial
<1>4. QED BY <1>2, <1>3 DEF Equivalent

\* Two steps make one.
LEMMA EquivalentAlso ==
  ASSUME NEW p, NEW r, NEW t, Equivalent(p, r), Equivalent(r, t)
  PROVE  Equivalent(p, t)
<1>1. PICK q \in Polynomial : Plus(p, r) = Multiple(q) BY DEF Equivalent
<1>2. PICK m \in Nat : q \subseteq 0 .. m BY DEF Polynomial
<1>3. PICK u \in Polynomial : Plus(r, t) = Multiple(u) BY DEF Equivalent
<1>4. PICK n \in Nat : u \subseteq 0 .. n BY DEF Polynomial
<1>5. Plus(p, t) = Plus(Plus(p, r), Plus(r, t)) BY DEF Plus
<1>6. q \in SUBSET Nat /\ u \in SUBSET Nat BY DEF Polynomial
<1>7. Plus(p, t) = Multiple(Plus(q, u)) BY <1>1, <1>3, <1>5, <1>6, MultiplePlus
<1>8. Plus(q, u) \in Polynomial
  <2>1. q \subseteq 0 .. m + n /\ u \subseteq 0 .. m + n BY <1>2, <1>4
  <2>2. Plus(q, u) \subseteq 0 .. m + n BY <2>1 DEF Plus
  <2>3. m + n \in Nat /\ 0 .. m + n \subseteq Nat OBVIOUS
  <2>4. QED BY <2>2, <2>3 DEF Polynomial
<1>9. QED BY <1>7, <1>8 DEF Equivalent

\* The same added on both sides.
LEMMA EquivalentPlus ==
  ASSUME NEW p, NEW r, NEW a, Equivalent(p, r)
  PROVE  Equivalent(Plus(p, a), Plus(r, a))
<1>1. Plus(Plus(p, a), Plus(r, a)) = Plus(p, r) BY DEF Plus
<1>2. QED BY <1>1 DEF Equivalent

\* Both sides times x^n.
LEMMA EquivalentUp ==
  ASSUME NEW p \in SUBSET Nat, NEW r \in SUBSET Nat, NEW n \in Nat, Equivalent(p, r)
  PROVE  Equivalent(Up(p, n), Up(r, n))
<1>0. PICK q \in Polynomial : Plus(p, r) = Multiple(q) BY DEF Equivalent
<1>1. PICK m \in Nat : q \subseteq 0 .. m BY DEF Polynomial
<1>2. q \in SUBSET Nat BY DEF Polynomial
<1>3. Plus(Up(p, n), Up(r, n)) = Multiple(Up(q, n)) BY <1>0, <1>2, UpPlus, MultipleUp
<1>4. Up(q, n) \in Polynomial
  <2>1. Up(q, n) \subseteq 0 .. m + n BY <1>1 DEF Up
  <2>2. m + n \in Nat /\ 0 .. m + n \subseteq Nat OBVIOUS
  <2>3. QED BY <2>1, <2>2 DEF Polynomial
<1>5. QED BY <1>3, <1>4 DEF Equivalent

\* A polynomial that is not zero has a term of the highest degree.
LEMMA TopTerm ==
  ASSUME NEW q \in Polynomial, q # {}
  PROVE  \E h \in q : \A e \in q : e <= h
<1>1. PICK n \in Nat : q \subseteq 0 .. n BY DEF Polynomial
<1> DEFINE S == {n - e : e \in q}
<1>2. S \subseteq Nat /\ S # {}
  <2>1. \A e \in q : n - e \in Nat BY <1>1
  <2>2. QED BY <2>1
<1>3. PICK s \in S : \A t \in S : s <= t BY <1>2, LeastExists
<1>4. PICK h \in q : s = n - h BY <1>3
<1>5. ASSUME NEW e \in q
      PROVE  e <= h
  <2>1. n - h <= n - e BY <1>3, <1>4
  <2>2. e \in 0 .. n /\ h \in 0 .. n BY <1>1
  <2>3. QED BY <2>1, <2>2
<1>6. QED BY <1>5

\* A multiple that is not zero does not fit into sixteen neighbouring terms.
LEMMA MultipleIsWide ==
  ASSUME NEW q \in Polynomial, NEW m \in Nat, Multiple(q) \subseteq m .. m + 15
  PROVE  q = {}
<1> SUFFICES ASSUME q # {}
             PROVE  FALSE
  OBVIOUS
<1>2. q \in SUBSET Nat BY DEF Polynomial
<1>3. PICK l \in q : \A e \in q : l <= e BY <1>2, LeastExists
<1>4. l \in Multiple(q)
  <2>1. l \in Nat /\ l - 5 \notin q /\ l - 12 \notin q /\ l - 16 \notin q BY <1>2, <1>3
  <2>2. QED BY <1>2, <2>1, MultipleMember
<1>5. PICK h \in q : \A e \in q : e <= h BY TopTerm
<1>8. \A e \in q : e <= h BY <1>5
<1>9. h + 16 \in Multiple(q)
  <2>1. /\ h + 16 \in Int /\ h + 16 \notin q /\ (h + 16) - 5 \notin q
        /\ (h + 16) - 12 \notin q /\ (h + 16) - 16 \in q
    <3>1. h \in Nat BY <1>2
    <3>2. /\ h + 16 > h /\ (h + 16) - 5 > h /\ (h + 16) - 12 > h
          /\ (h + 16) - 16 = h /\ h + 16 \in Int
      BY <3>1
    <3>3. \A e \in q : e \in Int /\ e <= h BY <1>2, <1>8
    <3>4. QED BY <3>1, <3>2, <3>3
  <2>2. QED BY <1>2, <2>1, MultipleMember
<1>10. m <= l /\ h + 16 <= m + 15 BY <1>4, <1>9
<1>11. l <= h /\ l \in Nat /\ h \in Nat BY <1>2, <1>3
<1>12. QED BY <1>10, <1>11

\* No remainder but one.
LEMMA OneRemainder ==
  ASSUME NEW p, NEW r, p \subseteq 0 .. 15, r \subseteq 0 .. 15, Equivalent(p, r)
  PROVE  p = r
<1>1. PICK q \in Polynomial : Plus(p, r) = Multiple(q) BY DEF Equivalent
<1>2. 0 \in Nat /\ Plus(p, r) \subseteq 0 .. 0 + 15 BY DEF Plus
<1>3. q = {} BY <1>1, <1>2, MultipleIsWide
<1>4. Plus(p, r) = {} BY <1>1, <1>3 DEF Multiple, Plus, Up
<1>5. QED BY <1>4 DEF Plus

\* The number of terms of a sum is even or odd as that of the two together.
LEMMA PlusParity ==
  ASSUME NEW p, NEW q, IsFiniteSet(p), IsFiniteSet(q)
  PROVE  /\ IsFiniteSet(Plus(p, q))
         /\ Cardinality(Plus(p, q)) % 2 = (Cardinality(p) + Cardinality(q)) % 2
<1> DEFINE a == p \ q
           b == q \ p
           c == p \cap q
<1>1. IsFiniteSet(a) /\ Cardinality(a) = Cardinality(p) - Cardinality(c) BY FS_Difference
<1>2. IsFiniteSet(b) /\ Cardinality(b) = Cardinality(q) - Cardinality(c)
  <2>1. q \cap p = c OBVIOUS
  <2>2. QED BY <2>1, FS_Difference
<1>3. IsFiniteSet(c) /\ a \cap b = {} BY FS_Intersection
<1>4. /\ Cardinality(p) \in Nat /\ Cardinality(q) \in Nat /\ Cardinality(c) \in Nat
  BY <1>3, FS_CardinalityType
<1>5. Plus(p, q) = a \cup b BY DEF Plus
<1>6. IsFiniteSet(a \cup b) /\ Cardinality(a \cup b) = Cardinality(a) + Cardinality(b)
  <2>1. Cardinality(a \cap b) = 0 BY <1>3, FS_EmptySet
  <2>2. /\ IsFiniteSet(a \cup b)
        /\ Cardinality(a \cup b) = Cardinality(a) + Cardinality(b) - Cardinality(a \cap b)
    BY <1>1, <1>2, FS_Union
  <2>3. Cardinality(a) \in Nat /\ Cardinality(b) \in Nat BY <1>1, <1>2, FS_CardinalityType
  <2>4. QED BY <2>1, <2>2, <2>3
<1>7. Cardinality(Plus(p, q)) = (Cardinality(p) + Cardinality(q)) - 2 * Cardinality(c)
  BY <1>1, <1>2, <1>4, <1>5, <1>6
<1>8. \A x \in Nat, y \in Nat : (x - 2 * y) % 2 = x % 2 OBVIOUS
<1>9. Cardinality(p) + Cardinality(q) \in Nat BY <1>4
<1>10. QED BY <1>4, <1>5, <1>6, <1>7, <1>8, <1>9

\* x^n times p has as many terms as p.
LEMMA UpCardinality ==
  ASSUME NEW p \in SUBSET Nat, NEW n \in Nat, IsFiniteSet(p)
  PROVE  IsFiniteSet(Up(p, n)) /\ Cardinality(Up(p, n)) = Cardinality(p)
<1> DEFINE f == [e \in p |-> e + n]
<1>1. f \in [p -> Up(p, n)] BY DEF Up
<1>2. \A d, e \in p : f[d] = f[e] => d = e OBVIOUS
<1>3. \A x \in Up(p, n) : \E e \in p : f[e] = x BY DEF Up
<1>4. f \in Bijection(p, Up(p, n))
  BY <1>1, <1>2, <1>3, Zenon DEF Bijection, Injection, Surjection, IsInjective
<1>5. QED BY <1>4, FS_Bijection DEF ExistsBijection

\* A multiple has an even number of terms, as Ccitt has.
LEMMA MultipleIsEven ==
  ASSUME NEW q \in Polynomial
  PROVE  Cardinality(Multiple(q)) % 2 = 0
<1> DEFINE N == Cardinality(q)
<1>1. IsFiniteSet(q) /\ q \in SUBSET Nat /\ N \in Nat
  <2>1. PICK n \in Nat : q \subseteq 0 .. n BY DEF Polynomial
  <2>2. IsFiniteSet(0 .. n)
    <3>1. 0 \in Int /\ n \in Int OBVIOUS
    <3>2. QED BY <3>1, FS_Interval
  <2>3. IsFiniteSet(q) BY <2>1, <2>2, FS_Subset
  <2>4. QED BY <2>3, FS_CardinalityType DEF Polynomial
<1>2. /\ IsFiniteSet(Up(q, 5)) /\ Cardinality(Up(q, 5)) = N
      /\ IsFiniteSet(Up(q, 12)) /\ Cardinality(Up(q, 12)) = N
      /\ IsFiniteSet(Up(q, 16)) /\ Cardinality(Up(q, 16)) = N
  BY <1>1, UpCardinality
<1> HIDE DEF N
<1> DEFINE a == Plus(q, Up(q, 5))
           b == Plus(Up(q, 12), Up(q, 16))
<1>3. IsFiniteSet(a) /\ Cardinality(a) % 2 = (N + N) % 2 BY <1>1, <1>2, PlusParity DEF N
<1>4. IsFiniteSet(b) /\ Cardinality(b) % 2 = (N + N) % 2 BY <1>2, PlusParity
<1>5. Cardinality(Multiple(q)) % 2 = (Cardinality(a) + Cardinality(b)) % 2
  <2>1. Multiple(q) = Plus(a, b) BY DEF Multiple
  <2> HIDE DEF a, b
  <2>2. QED BY <1>3, <1>4, <2>1, PlusParity
<1>6. Cardinality(a) \in Nat /\ Cardinality(b) \in Nat BY <1>3, <1>4, FS_CardinalityType
<1>7. \A x \in Nat, y \in Nat : x % 2 = (N + N) % 2 /\ y % 2 = (N + N) % 2 => (x + y) % 2 = 0
  <2>1. (N + N) % 2 = 0 BY <1>1
  <2>2. QED BY <2>1
<1>8. QED BY <1>3, <1>4, <1>5, <1>6, <1>7

-----------------------------------------------------------------------------
(***************************************************************************)
(* The checksum.                                                           *)
(***************************************************************************)
Register == SUBSET (0 .. 15)

\* One turn of the for loop.
LEMMA ShiftedUp ==
  ASSUME NEW crc \in Register
  PROVE  Shifted(crc) \in Register /\ Equivalent(Up(crc, 1), Shifted(crc))
<1>1. crc \in SUBSET Nat /\ Up(crc, 1) \in SUBSET Nat BY UpClosed DEF Register
<1>2. \A x \in Int : x \in Up(crc, 1) <=> x - 1 \in crc BY <1>1, UpMember
<1>3. \A x \in Up(crc, 1) : x \in 1 .. 16 BY DEF Register, Up
<1>4. CASE 15 \in crc
  <2>1. 16 \in Up(crc, 1) BY <1>2, <1>4
  <2>2. Shifted(crc) = Plus(Up(crc, 1) \ {16}, {12, 5, 0}) BY <1>4 DEF Shifted
  <2>3. Shifted(crc) \subseteq 0 .. 15
    <3>1. Up(crc, 1) \ {16} \subseteq 0 .. 15 /\ {12, 5, 0} \subseteq 0 .. 15 BY <1>3
    <3>2. QED BY <2>2, <3>1 DEF Plus
  <2>4. Plus(Up(crc, 1), Shifted(crc)) = Ccitt BY <2>1, <2>2 DEF Plus, Ccitt
  <2>5. Ccitt = Multiple({0})
    <3>1. Up(Ccitt, 0) = Ccitt BY DEF Up, Ccitt
    <3>2. QED BY <3>1, CcittIsMultiple
  <2>6. {0} \in Polynomial
    <3>1. {0} \subseteq 0 .. 0 OBVIOUS
    <3>2. QED BY <3>1 DEF Polynomial
  <2>7. QED BY <2>3, <2>4, <2>5, <2>6 DEF Equivalent, Register
<1>5. CASE 15 \notin crc
  <2>1. 16 \notin Up(crc, 1) BY <1>2, <1>5
  <2>2. Shifted(crc) = Up(crc, 1) BY <1>5, <2>1 DEF Shifted
  <2>3. Shifted(crc) \subseteq 0 .. 15 BY <1>3, <2>1, <2>2
  <2>4. QED BY <2>2, <2>3, EquivalentSelf DEF Register
<1>6. QED BY <1>4, <1>5

\* The bits of a byte.
LEMMA BitsIn == ASSUME NEW b PROVE Bits(b) \in SUBSET (0 .. 7)
BY DEF Bits

\* One turn of the while loop: the byte is added at the top, and eight bits leave.
LEMMA AfterByteUp ==
  ASSUME NEW crc \in Register, NEW b
  PROVE  LET fed == Plus(crc, Up(Bits(b), 8))
         IN /\ fed \in Register /\ AfterByte(crc, b) \in Register
            /\ Equivalent(Up(fed, 8), AfterByte(crc, b))
<1> DEFINE fed == Plus(crc, Up(Bits(b), 8))
           next == [i \in 1 .. 8 |-> [r \in Register |-> Shifted(r)]]
           bits[i \in 0 .. 8] == IF i = 0 THEN Plus(crc, Up(Bits(b), 8)) ELSE Shifted(bits[i - 1])
           Body(f) == [i \in 0 .. 8 |-> IF i = 0 THEN fed ELSE Shifted(f[i - 1])]
<1>1. fed \in Register
  <2>1. Up(Bits(b), 8) \subseteq 0 .. 15 BY BitsIn DEF Up
  <2>2. QED BY <2>1 DEF Plus, Register
<1>2. next \in [1 .. 8 -> [Register -> Register]]
  <2>1. \A r \in Register : Shifted(r) \in Register BY ShiftedUp
  <2>2. [r \in Register |-> Shifted(r)] \in [Register -> Register] BY <2>1
  <2>3. QED BY <2>2
<1>3. PICK f : IsLoop(f, 8, Register, fed, next)
  <2> HIDE DEF next, fed
  <2>1. 8 \in Nat OBVIOUS
  <2>2. QED BY <1>1, <1>2, <2>1, LoopExists, Zenon
<1>4. f = Body(f)
  <2>1. /\ f \in [0 .. 8 -> Register] /\ f[0] = fed
        /\ \A i \in 1 .. 8 : f[i] = next[i][f[i - 1]]
    <3> HIDE DEF next, fed
    <3>1. QED BY <1>3 DEF IsLoop
  <2>2. ASSUME NEW i \in 1 .. 8
        PROVE  next[i][f[i - 1]] = Shifted(f[i - 1])
    <3>1. i - 1 \in 0 .. 8 OBVIOUS
    <3>2. f[i - 1] \in Register BY <2>1, <3>1
    <3>3. QED BY <3>2
  <2> HIDE DEF next, fed
  <2>3. \A i \in 1 .. 8 : f[i] = Shifted(f[i - 1]) BY <2>1, <2>2
  <2>4. \A i \in 0 .. 8 : i = 0 \/ i \in 1 .. 8 OBVIOUS
  <2>5. \A i \in 0 .. 8 : f[i] = Body(f)[i] BY <2>1, <2>3, <2>4
  <2>6. QED BY <2>1, <2>5
<1>5. bits = Body(bits)
  <2>1. bits = CHOOSE g : g = Body(g) OBVIOUS
  <2>2. QED BY <1>4, <2>1
<1>6. AfterByte(crc, b) = bits[8] BY DEF AfterByte
<1> HIDE DEF bits, next
<1>7. bits[0] = fed /\ \A i \in 1 .. 8 : bits[i] = Shifted(bits[i - 1])
  <2> HIDE DEF fed
  <2>1. QED BY <1>5
<1> HIDE DEF fed, Body
<1> DEFINE S == {i \in 0 .. 8 : bits[i] \in Register /\ Equivalent(Up(fed, i), bits[i])}
<1>8. 0 \in S
  <2>1. Up(fed, 0) = fed
    <3>1. fed \in SUBSET Nat BY <1>1 DEF Register
    <3>2. Up(fed, 0) \in SUBSET Nat BY <3>1, UpClosed
    <3>3. \A x \in Nat : x - 0 = x /\ (x \in Up(fed, 0) <=> x - 0 \in fed) BY <3>1, UpMember
    <3>4. QED BY <3>1, <3>2, <3>3
  <2>2. QED BY <1>1, <1>7, <2>1, EquivalentSelf
<1>9. ASSUME NEW i \in 0 .. 8 - 1, i \in S
      PROVE  i + 1 \in S
  <2>1. i + 1 \in 1 .. 8 /\ (i + 1) - 1 = i OBVIOUS
  <2>2. bits[i + 1] = Shifted(bits[i]) BY <1>7, <2>1
  <2>3. bits[i] \in Register /\ Equivalent(Up(fed, i), bits[i]) BY <1>9
  <2>4. bits[i + 1] \in Register /\ Equivalent(Up(bits[i], 1), bits[i + 1])
    BY <2>2, <2>3, ShiftedUp
  <2>5. fed \in SUBSET Nat /\ bits[i] \in SUBSET Nat BY <1>1, <2>3 DEF Register
  <2>6. Up(fed, i) \in SUBSET Nat /\ Up(Up(fed, i), 1) = Up(fed, i + 1)
    BY <2>5, UpClosed, UpUp
  <2>7. Equivalent(Up(fed, i + 1), Up(bits[i], 1)) BY <2>3, <2>5, <2>6, EquivalentUp
  <2>8. Equivalent(Up(fed, i + 1), bits[i + 1]) BY <2>4, <2>7, EquivalentAlso
  <2>9. QED BY <2>1, <2>4, <2>8
<1>10. 8 \in S
  <2> HIDE DEF S
  <2>1. 8 \in Nat /\ 8 \in 0 .. 8 OBVIOUS
  <2>2. QED BY <1>8, <1>9, <2>1, UpToInduction
<1>11. QED BY <1>1, <1>6, <1>10 DEF fed

\* The while loop.
LEMMA CrcLoop ==
  ASSUME NEW data, Len(data) \in Nat
  PROVE  \E f \in [0 .. Len(data) -> Register] :
           /\ f[0] = {} /\ \A i \in 1 .. Len(data) : f[i] = AfterByte(f[i - 1], data[i])
           /\ crc16_calculate(data) = f[Len(data)]
<1> DEFINE n == Len(data)
           next == [i \in 1 .. n |-> [r \in Register |-> AfterByte(r, data[i])]]
           crc[i \in 0 .. Len(data)] == IF i = 0 THEN {} ELSE AfterByte(crc[i - 1], data[i])
           Body(f) == [i \in 0 .. n |-> IF i = 0 THEN {} ELSE AfterByte(f[i - 1], data[i])]
<1>1. {} \in Register BY DEF Register
<1>2. next \in [1 .. n -> [Register -> Register]]
  <2>1. ASSUME NEW i \in 1 .. n
        PROVE  [r \in Register |-> AfterByte(r, data[i])] \in [Register -> Register]
    <3>1. \A r \in Register : AfterByte(r, data[i]) \in Register BY AfterByteUp
    <3>2. QED BY <3>1
  <2>2. QED BY <2>1
<1>3. PICK f : IsLoop(f, n, Register, {}, next)
  <2> HIDE DEF next
  <2>1. QED BY <1>1, <1>2, LoopExists, Zenon
<1>4. /\ f \in [0 .. n -> Register] /\ f[0] = {}
      /\ \A i \in 1 .. n : f[i] = next[i][f[i - 1]]
  <2> HIDE DEF next
  <2>1. QED BY <1>3 DEF IsLoop
<1>5. \A i \in 1 .. n : f[i] = AfterByte(f[i - 1], data[i])
  <2>1. ASSUME NEW i \in 1 .. n
        PROVE  next[i][f[i - 1]] = AfterByte(f[i - 1], data[i])
    <3>1. i - 1 \in 0 .. n OBVIOUS
    <3>2. f[i - 1] \in Register BY <1>4, <3>1
    <3>3. QED BY <3>2
  <2> HIDE DEF next
  <2>2. QED BY <1>4, <2>1
<1>6. f = Body(f)
  <2>1. \A i \in 0 .. n : i = 0 \/ i \in 1 .. n OBVIOUS
  <2>2. \A i \in 0 .. n : f[i] = Body(f)[i] BY <1>4, <1>5, <2>1
  <2>3. QED BY <1>4, <2>2
<1>7. crc = Body(crc)
  <2>1. crc = CHOOSE g : g = Body(g) OBVIOUS
  <2>2. QED BY <1>6, <2>1
<1>8. crc16_calculate(data) = crc[n] BY DEF crc16_calculate
<1> HIDE DEF crc, next
<1>9. crc[0] = {} /\ \A i \in 1 .. n : crc[i] = AfterByte(crc[i - 1], data[i])
  <2>1. \A i \in 0 .. n : crc[i] = IF i = 0 THEN {} ELSE AfterByte(crc[i - 1], data[i])
    BY <1>7
  <2>2. 0 \in 0 .. n /\ \A i \in 1 .. n : i \in 0 .. n /\ i # 0 OBVIOUS
  <2>3. QED BY <2>1, <2>2
<1> HIDE DEF Body
<1>10. \A i \in 0 .. n : crc[i] \in Register
  <2> DEFINE S == {i \in 0 .. n : crc[i] \in Register}
  <2>1. 0 \in S
    <3>1. 0 \in 0 .. n OBVIOUS
    <3>2. QED BY <1>1, <1>9, <3>1
  <2>2. ASSUME NEW i \in 0 .. n - 1, i \in S
        PROVE  i + 1 \in S
    <3>1. i + 1 \in 1 .. n /\ (i + 1) - 1 = i OBVIOUS
    <3>2. crc[i + 1] = AfterByte(crc[i], data[i + 1]) BY <1>9, <3>1
    <3>3. crc[i] \in Register BY <2>2
    <3>4. crc[i + 1] \in Register BY <3>2, <3>3, AfterByteUp
    <3>5. QED BY <3>1, <3>4
  <2>3. \A i \in 0 .. n : i \in S
    <3> HIDE DEF S
    <3>1. QED BY <2>1, <2>2, UpToInduction
  <2>4. QED BY <2>3
<1>11. crc = [i \in 0 .. n |-> crc[i]] BY <1>7 DEF Body
<1>12. crc \in [0 .. n -> Register] BY <1>10, <1>11
<1>13. QED BY <1>8, <1>9, <1>12

\* The polynomial of the first i bytes.
DegreesOf(data, i) ==
  {e \in 16 .. 8 * i + 15 : (e - 16) % 8 \in Bits(data[i - ((e - 16) \div 8)])}

\* One byte more multiplies what was there by x^8 and adds the byte times x^16.
LEMMA DegreesStep ==
  ASSUME NEW data, NEW i \in Nat
  PROVE  /\ DegreesOf(data, i) \in SUBSET Nat
         /\ DegreesOf(data, i + 1) = Plus(Up(DegreesOf(data, i), 8), Up(Bits(data[i + 1]), 16))
<1> DEFINE D == DegreesOf(data, i)
           B == Bits(data[i + 1])
<1>1. D \in SUBSET Nat BY DEF DegreesOf
<1>2. B \in SUBSET (0 .. 7) /\ B \in SUBSET Nat BY BitsIn
<1>3. DegreesOf(data, i + 1) \in SUBSET Nat BY DEF DegreesOf
<1>4. Up(D, 8) \in SUBSET Nat /\ Up(B, 16) \in SUBSET Nat
      /\ Plus(Up(D, 8), Up(B, 16)) \in SUBSET Nat
  BY <1>1, <1>2, UpClosed, PlusClosed
<1>5. ASSUME NEW e \in Nat
      PROVE  e \in DegreesOf(data, i + 1) <=> e \in Plus(Up(D, 8), Up(B, 16))
  <2>1. e \in Up(D, 8) <=> e - 8 \in D BY <1>1, UpMember
  <2>2. e \in Up(B, 16) <=> e - 16 \in B BY <1>2, UpMember
  <2>3. e \in DegreesOf(data, i + 1)
          <=> e \in 16 .. 8 * i + 23 /\ (e - 16) % 8 \in Bits(data[i + 1 - ((e - 16) \div 8)])
    BY DEF DegreesOf
  <2>4. CASE e < 16
    <3>1. e \notin DegreesOf(data, i + 1) BY <2>3, <2>4
    <3>2. e - 8 \notin D BY <2>4 DEF DegreesOf
    <3>3. e - 16 \notin B BY <1>2, <2>4
    <3>4. QED BY <2>1, <2>2, <3>1, <3>2, <3>3, PlusMember
  <2>5. CASE e \in 16 .. 23
    <3>1. (e - 16) % 8 = e - 16 /\ (e - 16) \div 8 = 0 BY <2>5
    <3>2. e \in DegreesOf(data, i + 1) <=> e - 16 \in B
      <4>1. i + 1 - ((e - 16) \div 8) = i + 1 BY <3>1
      <4>2. e \in 16 .. 8 * i + 23 BY <2>5
      <4>3. QED BY <2>3, <3>1, <4>1, <4>2
    <3>3. e - 8 \notin D BY <2>5 DEF DegreesOf
    <3>4. QED BY <2>1, <2>2, <3>2, <3>3, PlusMember
  <2>6. CASE e > 23
    <3>1. /\ (e - 8 - 16) % 8 = (e - 16) % 8
          /\ i - ((e - 8 - 16) \div 8) = i + 1 - ((e - 16) \div 8)
      BY <2>6
    <3>2. e - 8 \in D
            <=> e - 8 \in 16 .. 8 * i + 15
                /\ (e - 8 - 16) % 8 \in Bits(data[i - ((e - 8 - 16) \div 8)])
      BY DEF DegreesOf
    <3>3. e \in 16 .. 8 * i + 23 <=> e - 8 \in 16 .. 8 * i + 15 BY <2>6
    <3>4. e \in DegreesOf(data, i + 1) <=> e - 8 \in D BY <2>3, <3>1, <3>2, <3>3
    <3>5. e - 16 \notin B BY <1>2, <2>6
    <3>6. QED BY <2>1, <2>2, <3>4, <3>5, PlusMember
  <2>7. QED BY <2>4, <2>5, <2>6
<1>6. QED BY <1>1, <1>3, <1>4, <1>5

\* The register is the bytes' polynomial, up to a multiple of Ccitt.
LEMMA CrcEquivalent ==
  ASSUME NEW data, Len(data) \in Nat
  PROVE  crc16_calculate(data) \in Register /\ Equivalent(Degrees(data), crc16_calculate(data))
<1> DEFINE n == Len(data)
           D(i) == DegreesOf(data, i)
<1>1. PICK f \in [0 .. n -> Register] :
        /\ f[0] = {} /\ \A i \in 1 .. n : f[i] = AfterByte(f[i - 1], data[i])
        /\ crc16_calculate(data) = f[n]
  BY CrcLoop
<1> DEFINE S == {i \in 0 .. n : Equivalent(D(i), f[i])}
<1>2. 0 \in S
  <2>1. D(0) = {} BY DEF DegreesOf
  <2>2. 0 \in 0 .. n OBVIOUS
  <2>3. Equivalent(D(0), f[0]) BY <1>1, <2>1, EquivalentSelf
  <2>4. QED BY <2>2, <2>3
<1>3. ASSUME NEW i \in 0 .. n - 1, i \in S
      PROVE  i + 1 \in S
  <2> DEFINE B == Bits(data[i + 1])
  <2>1. i \in Nat /\ i + 1 \in 1 .. n /\ (i + 1) - 1 = i /\ i \in 0 .. n /\ i + 1 \in 0 .. n
    OBVIOUS
  <2>2. f[i] \in Register /\ f[i + 1] = AfterByte(f[i], data[i + 1]) BY <1>1, <2>1
  <2>3. Equivalent(D(i), f[i]) BY <1>3
  <2> HIDE DEF D
  <2>4. D(i) \in SUBSET Nat /\ D(i + 1) = Plus(Up(D(i), 8), Up(B, 16))
    BY <2>1, DegreesStep DEF D
  <2>5. f[i] \in SUBSET Nat /\ B \in SUBSET Nat /\ Up(B, 8) \in SUBSET Nat
    BY <2>2, BitsIn, UpClosed DEF Register
  <2> HIDE DEF B
  <2>6. Equivalent(Up(D(i), 8), Up(f[i], 8)) BY <2>3, <2>4, <2>5, EquivalentUp
  <2>7. Equivalent(D(i + 1), Plus(Up(f[i], 8), Up(B, 16))) BY <2>4, <2>6, EquivalentPlus
  <2>8. Plus(Up(f[i], 8), Up(B, 16)) = Up(Plus(f[i], Up(B, 8)), 8)
    <3>1. Up(Up(B, 8), 8) = Up(B, 8 + 8) BY <2>5, UpUp
    <3>2. 8 + 8 = 16 OBVIOUS
    <3>3. Up(Plus(f[i], Up(B, 8)), 8) = Plus(Up(f[i], 8), Up(Up(B, 8), 8)) BY <2>5, UpPlus
    <3>4. QED BY <3>1, <3>2, <3>3
  <2>9. Equivalent(Up(Plus(f[i], Up(B, 8)), 8), f[i + 1]) BY <2>2, AfterByteUp DEF B
  <2>10. Equivalent(D(i + 1), f[i + 1]) BY <2>7, <2>8, <2>9, EquivalentAlso
  <2>11. QED BY <2>1, <2>10
<1>4. n \in S
  <2>1. \A i \in 0 .. n : i \in S
    <3> HIDE DEF S
    <3>1. QED BY <1>2, <1>3, UpToInduction
  <2>2. n \in 0 .. n OBVIOUS
  <2> HIDE DEF S
  <2>3. QED BY <2>1, <2>2
<1>5. D(n) = Degrees(data) BY DEF DegreesOf, Degrees
<1>6. f[n] \in Register OBVIOUS
<1>7. QED BY <1>1, <1>4, <1>5, <1>6

\* One turn of the division.
LEMMA ReducedBelow ==
  ASSUME NEW p \in SUBSET Nat, NEW n \in Nat
  PROVE  /\ Reduced(p, n) \in SUBSET Nat /\ Equivalent(p, Reduced(p, n))
         /\ p \subseteq 0 .. 16 + n => Reduced(p, n) \subseteq 0 .. 15 + n
<1>1. Up(Ccitt, n) = {n, n + 5, n + 12, n + 16} BY DEF Up, Ccitt
<1>2. Up(Ccitt, n) = Multiple({n}) BY CcittIsMultiple
<1>3. CASE 16 + n \in p
  <2>1. Reduced(p, n) = Plus(p, Up(Ccitt, n)) BY <1>3 DEF Reduced
  <2>2. Up(Ccitt, n) \in SUBSET Nat BY <1>1
  <2>3. Reduced(p, n) \in SUBSET Nat BY <2>1, <2>2, PlusClosed
  <2>4. Plus(p, Plus(p, Up(Ccitt, n))) = Up(Ccitt, n) BY DEF Plus
  <2>5. {n} \in Polynomial
    <3>1. {n} \subseteq 0 .. n OBVIOUS
    <3>2. QED BY <3>1 DEF Polynomial
  <2>6. Equivalent(p, Reduced(p, n)) BY <1>2, <2>1, <2>4, <2>5 DEF Equivalent
  <2>7. ASSUME p \subseteq 0 .. 16 + n, NEW e \in Reduced(p, n)
        PROVE  e \in 0 .. 15 + n
    <3>1. ~(e \in p <=> e \in Up(Ccitt, n)) BY <2>1, <2>7, PlusMember
    <3>2. e # 16 + n BY <1>1, <1>3, <3>1
    <3>3. e \in 0 .. 16 + n
      <4>1. CASE e \in p BY <2>7, <4>1
      <4>2. CASE e \in Up(Ccitt, n) BY <1>1, <4>2
      <4>3. QED BY <3>1, <4>1, <4>2
    <3>4. QED BY <3>2, <3>3
  <2>8. QED BY <2>3, <2>6, <2>7
<1>4. CASE 16 + n \notin p
  <2>1. Reduced(p, n) = p BY <1>4 DEF Reduced
  <2>2. p \subseteq 0 .. 16 + n => p \subseteq 0 .. 15 + n BY <1>4
  <2>3. QED BY <2>1, <2>2, EquivalentSelf
<1>5. QED BY <1>3, <1>4

\* The division leaves no term of degree 16 or more, and takes multiples of Ccitt.
LEMMA RemainderIs ==
  ASSUME NEW n \in Nat, NEW p \in SUBSET (0 .. 15 + n)
  PROVE  Remainder(p, n) \in Register /\ Equivalent(p, Remainder(p, n))
<1> DEFINE next == [i \in 1 .. n |-> [r \in SUBSET Nat |-> Reduced(r, n - i)]]
           left[i \in 0 .. n] == IF i = 0 THEN p ELSE Reduced(left[i - 1], n - i)
           Body(f) == [i \in 0 .. n |-> IF i = 0 THEN p ELSE Reduced(f[i - 1], n - i)]
<1>1. p \in SUBSET Nat OBVIOUS
<1>2. next \in [1 .. n -> [SUBSET Nat -> SUBSET Nat]]
  <2>1. ASSUME NEW i \in 1 .. n
        PROVE  [r \in SUBSET Nat |-> Reduced(r, n - i)] \in [SUBSET Nat -> SUBSET Nat]
    <3>1. n - i \in Nat OBVIOUS
    <3>2. \A r \in SUBSET Nat : Reduced(r, n - i) \in SUBSET Nat BY <3>1, ReducedBelow
    <3>3. QED BY <3>2
  <2>2. QED BY <2>1
<1>3. PICK f : IsLoop(f, n, SUBSET Nat, p, next)
  <2> HIDE DEF next
  <2>1. QED BY <1>1, <1>2, LoopExists, Zenon
<1>4. /\ f \in [0 .. n -> SUBSET Nat] /\ f[0] = p
      /\ \A i \in 1 .. n : f[i] = next[i][f[i - 1]]
  <2> HIDE DEF next
  <2>1. QED BY <1>3 DEF IsLoop
<1>5. \A i \in 1 .. n : f[i] = Reduced(f[i - 1], n - i)
  <2>1. ASSUME NEW i \in 1 .. n
        PROVE  next[i][f[i - 1]] = Reduced(f[i - 1], n - i)
    <3>1. i - 1 \in 0 .. n OBVIOUS
    <3>2. f[i - 1] \in SUBSET Nat BY <1>4, <3>1
    <3>3. QED BY <3>2
  <2> HIDE DEF next
  <2>2. QED BY <1>4, <2>1
<1>6. f = Body(f)
  <2>1. \A i \in 0 .. n : i = 0 \/ i \in 1 .. n OBVIOUS
  <2>2. \A i \in 0 .. n : f[i] = Body(f)[i] BY <1>4, <1>5, <2>1
  <2>3. QED BY <1>4, <2>2
<1>7. left = Body(left)
  <2>1. left = CHOOSE g : g = Body(g) OBVIOUS
  <2>2. QED BY <1>6, <2>1
<1>8. Remainder(p, n) = left[n] BY DEF Remainder
<1> HIDE DEF left, next
<1>9. left[0] = p /\ \A i \in 1 .. n : left[i] = Reduced(left[i - 1], n - i)
  <2>1. \A i \in 0 .. n : left[i] = IF i = 0 THEN p ELSE Reduced(left[i - 1], n - i)
    BY <1>7
  <2>2. 0 \in 0 .. n /\ \A i \in 1 .. n : i \in 0 .. n /\ i # 0 OBVIOUS
  <2>3. QED BY <2>1, <2>2
<1> HIDE DEF Body
<1> DEFINE S == {i \in 0 .. n : left[i] \in SUBSET (0 .. 15 + (n - i)) /\ Equivalent(p, left[i])}
<1>10. 0 \in S
  <2>1. 0 \in 0 .. n /\ n - 0 = n OBVIOUS
  <2>2. Equivalent(p, p) BY EquivalentSelf
  <2>3. QED BY <1>9, <2>1, <2>2
<1>11. ASSUME NEW i \in 0 .. n - 1, i \in S
       PROVE  i + 1 \in S
  <2>1. i + 1 \in 1 .. n /\ (i + 1) - 1 = i /\ i + 1 \in 0 .. n /\ n - (i + 1) \in Nat
        /\ 15 + (n - i) = 16 + (n - (i + 1))
    OBVIOUS
  <2>2. left[i + 1] = Reduced(left[i], n - (i + 1)) BY <1>9, <2>1
  <2>3. left[i] \in SUBSET (0 .. 15 + (n - i)) /\ Equivalent(p, left[i]) BY <1>11
  <2>4. left[i] \in SUBSET Nat /\ left[i] \subseteq 0 .. 16 + (n - (i + 1)) BY <2>1, <2>3
  <2>5. left[i + 1] \subseteq 0 .. 15 + (n - (i + 1)) /\ Equivalent(left[i], left[i + 1])
    BY <2>1, <2>2, <2>4, ReducedBelow
  <2>6. Equivalent(p, left[i + 1]) BY <2>3, <2>5, EquivalentAlso
  <2>7. QED BY <2>1, <2>5, <2>6
<1>12. n \in S
  <2>1. \A i \in 0 .. n : i \in S
    <3> HIDE DEF S
    <3>1. QED BY <1>10, <1>11, UpToInduction
  <2>2. n \in 0 .. n OBVIOUS
  <2> HIDE DEF S
  <2>3. QED BY <2>1, <2>2
<1>13. QED BY <1>8, <1>12 DEF Register

\* crc16_calculate computes the remainder by the CCITT polynomial, of whatever bytes.
THEOREM CrcIsRemainder ==
  ASSUME NEW data, Len(data) \in Nat
  PROVE  crc16_calculate(data) = Remainder(Degrees(data), 8 * Len(data))
<1> DEFINE n == 8 * Len(data)
           p == Degrees(data)
<1>1. n \in Nat /\ p \in SUBSET (0 .. 15 + n) BY DEF Degrees
<1>2. crc16_calculate(data) \in Register /\ Equivalent(p, crc16_calculate(data))
  BY CrcEquivalent
<1> HIDE DEF n, p
<1>3. Remainder(p, n) \in Register /\ Equivalent(p, Remainder(p, n)) BY <1>1, RemainderIs
<1>4. Equivalent(crc16_calculate(data), p)
  BY <1>2, PlusLaws DEF Equivalent
<1>5. Equivalent(crc16_calculate(data), Remainder(p, n)) BY <1>3, <1>4, EquivalentAlso
<1>6. crc16_calculate(data) = Remainder(p, n)
  BY <1>2, <1>3, <1>5, OneRemainder DEF Register
<1>7. QED BY <1>6 DEF n, p

\* A number of eight digits.
LEMMA EightDigits ==
  ASSUME NEW b0 \in {0, 1}, NEW b1 \in {0, 1}, NEW b2 \in {0, 1}, NEW b3 \in {0, 1},
         NEW b4 \in {0, 1}, NEW b5 \in {0, 1}, NEW b6 \in {0, 1}, NEW b7 \in {0, 1},
         NEW n, n = b0 + 2*b1 + 4*b2 + 8*b3 + 16*b4 + 32*b5 + 64*b6 + 128*b7
  PROVE  /\ n \in 0 .. 255
         /\ n % 2 = b0 /\ (n \div 2) % 2 = b1 /\ (n \div 4) % 2 = b2 /\ (n \div 8) % 2 = b3
         /\ (n \div 16) % 2 = b4 /\ (n \div 32) % 2 = b5 /\ (n \div 64) % 2 = b6
         /\ (n \div 128) % 2 = b7
<1>1. n \in 0 .. 255 OBVIOUS
<1>2. n % 2 = b0 /\ (n \div 2) % 2 = b1 /\ (n \div 4) % 2 = b2 /\ (n \div 8) % 2 = b3
  OBVIOUS
<1>3. (n \div 16) % 2 = b4 /\ (n \div 32) % 2 = b5 /\ (n \div 64) % 2 = b6
         /\ (n \div 128) % 2 = b7
  OBVIOUS
<1>4. QED BY <1>1, <1>2, <1>3

\* A byte has the bits that it is made of.
LEMMA BitsOfByteOf ==
  ASSUME NEW p
  PROVE  ByteOf(p) \in 0 .. 255 /\ Bits(ByteOf(p)) = p \cap 0 .. 7
<1> DEFINE b(e) == IF e \in p THEN 1 ELSE 0
           n == ByteOf(p)
<1>1. n = b(0) + 2*b(1) + 4*b(2) + 8*b(3) + 16*b(4) + 32*b(5) + 64*b(6) + 128*b(7)
  BY DEF ByteOf, Weight
<1>2. \A e : b(e) \in {0, 1} /\ (b(e) = 1 <=> e \in p) OBVIOUS
<1> HIDE DEF b, n
<1>3. /\ n \in 0 .. 255
      /\ n % 2 = b(0) /\ (n \div 2) % 2 = b(1) /\ (n \div 4) % 2 = b(2) /\ (n \div 8) % 2 = b(3)
      /\ (n \div 16) % 2 = b(4) /\ (n \div 32) % 2 = b(5) /\ (n \div 64) % 2 = b(6)
      /\ (n \div 128) % 2 = b(7)
  <2>1. /\ b(0) \in {0, 1} /\ b(1) \in {0, 1} /\ b(2) \in {0, 1} /\ b(3) \in {0, 1}
        /\ b(4) \in {0, 1} /\ b(5) \in {0, 1} /\ b(6) \in {0, 1} /\ b(7) \in {0, 1}
    BY <1>2
  <2>2. QED BY <1>1, <2>1, EightDigits
<1>4. \A e \in 0 .. 7 : e \in Bits(n) <=> b(e) = 1
  <2>1. \A e \in 0 .. 7 : e \in Bits(n) <=> (n \div Weight[e + 1]) % 2 = 1 BY DEF Bits
  <2>2. /\ Weight[1] = 1 /\ Weight[2] = 2 /\ Weight[3] = 4 /\ Weight[4] = 8
        /\ Weight[5] = 16 /\ Weight[6] = 32 /\ Weight[7] = 64 /\ Weight[8] = 128
    BY DEF Weight
  <2>3. n \div 1 = n BY <1>3
  <2>4. ASSUME NEW e \in 0 .. 7
        PROVE  (n \div Weight[e + 1]) % 2 = b(e)
    <3>1. CASE e = 0 BY <1>3, <2>2, <2>3, <3>1
    <3>2. CASE e = 1 BY <1>3, <2>2, <3>2
    <3>3. CASE e = 2 BY <1>3, <2>2, <3>3
    <3>4. CASE e = 3 BY <1>3, <2>2, <3>4
    <3>5. CASE e = 4 BY <1>3, <2>2, <3>5
    <3>6. CASE e = 5 BY <1>3, <2>2, <3>6
    <3>7. CASE e = 6 BY <1>3, <2>2, <3>7
    <3>8. CASE e = 7 BY <1>3, <2>2, <3>8
    <3>9. QED BY <3>1, <3>2, <3>3, <3>4, <3>5, <3>6, <3>7, <3>8
  <2>5. QED BY <2>1, <2>4
<1>5. Bits(n) \subseteq 0 .. 7 BY BitsIn
<1>6. Bits(n) = p \cap 0 .. 7 BY <1>2, <1>4, <1>5
<1>7. QED BY <1>3, <1>6 DEF n

-----------------------------------------------------------------------------
(***************************************************************************)
(* Where the frames end.                                                   *)
(***************************************************************************)
\* EndOf adds up the lengths of the frames.
LEMMA EndOfStep ==
  ASSUME NEW s, Len(s) \in Nat, \A i \in 1 .. Len(s) : FrameLength(s[i]) \in Nat
  PROVE  /\ EndOf(s, 0) = 0
         /\ \A i \in 0 .. Len(s) : EndOf(s, i) \in Nat
         /\ \A i \in 1 .. Len(s) : EndOf(s, i) = EndOf(s, i - 1) + FrameLength(s[i])
<1> DEFINE n == Len(s)
           next == [i \in 1 .. n |-> [e \in Nat |-> e + FrameLength(s[i])]]
           end[i \in 0 .. n] == IF i = 0 THEN 0 ELSE end[i - 1] + FrameLength(s[i])
           Body(f) == [i \in 0 .. n |-> IF i = 0 THEN 0 ELSE f[i - 1] + FrameLength(s[i])]
<1>1. next \in [1 .. n -> [Nat -> Nat]]
  <2>1. ASSUME NEW i \in 1 .. n
        PROVE  [e \in Nat |-> e + FrameLength(s[i])] \in [Nat -> Nat]
    OBVIOUS
  <2>2. QED BY <2>1
<1>2. PICK f : IsLoop(f, n, Nat, 0, next)
  <2> HIDE DEF next
  <2>1. 0 \in Nat OBVIOUS
  <2>2. QED BY <1>1, <2>1, LoopExists, Zenon
<1>3. /\ f \in [0 .. n -> Nat] /\ f[0] = 0
      /\ \A i \in 1 .. n : f[i] = next[i][f[i - 1]]
  <2> HIDE DEF next
  <2>1. QED BY <1>2 DEF IsLoop
<1>4. \A i \in 1 .. n : f[i] = f[i - 1] + FrameLength(s[i])
  <2>1. ASSUME NEW i \in 1 .. n
        PROVE  next[i][f[i - 1]] = f[i - 1] + FrameLength(s[i])
    <3>1. i - 1 \in 0 .. n OBVIOUS
    <3>2. f[i - 1] \in Nat BY <1>3, <3>1
    <3>3. QED BY <3>2
  <2> HIDE DEF next
  <2>2. QED BY <1>3, <2>1
<1>5. f = Body(f)
  <2>1. \A i \in 0 .. n : i = 0 \/ i \in 1 .. n OBVIOUS
  <2>2. \A i \in 0 .. n : f[i] = Body(f)[i] BY <1>3, <1>4, <2>1
  <2>3. QED BY <1>3, <2>2
<1>6. end = Body(end)
  <2>1. end = CHOOSE g : g = Body(g) OBVIOUS
  <2>2. QED BY <1>5, <2>1
<1>7. \A i : EndOf(s, i) = end[i] BY DEF EndOf
<1> HIDE DEF end, next
<1>8. end[0] = 0 /\ \A i \in 1 .. n : end[i] = end[i - 1] + FrameLength(s[i])
  <2>1. \A i \in 0 .. n : end[i] = IF i = 0 THEN 0 ELSE end[i - 1] + FrameLength(s[i])
    BY <1>6
  <2>2. 0 \in 0 .. n /\ \A i \in 1 .. n : i \in 0 .. n /\ i # 0 OBVIOUS
  <2>3. QED BY <2>1, <2>2
<1> HIDE DEF Body
<1> DEFINE S == {i \in 0 .. n : end[i] \in Nat}
<1>9. 0 \in S
  <2>1. 0 \in 0 .. n OBVIOUS
  <2>2. QED BY <1>8, <2>1
<1>10. ASSUME NEW i \in 0 .. n - 1, i \in S
       PROVE  i + 1 \in S
  <2>1. i + 1 \in 1 .. n /\ i + 1 \in 0 .. n /\ (i + 1) - 1 = i OBVIOUS
  <2>2. end[i + 1] = end[i] + FrameLength(s[i + 1]) BY <1>8, <2>1
  <2>3. end[i] \in Nat /\ FrameLength(s[i + 1]) \in Nat BY <1>10, <2>1
  <2>4. QED BY <2>1, <2>2, <2>3
<1>11. \A i \in 0 .. n : end[i] \in Nat
  <2>1. \A i \in 0 .. n : i \in S
    <3> HIDE DEF S
    <3>1. QED BY <1>9, <1>10, UpToInduction
  <2>2. QED BY <2>1
<1>12. QED BY <1>7, <1>8, <1>11

\* Frames of a length in Nat, that come one after another, end further on.
LEMMA EndOfGrows ==
  ASSUME NEW s, Len(s) \in Nat, \A i \in 1 .. Len(s) : FrameLength(s[i]) \in Nat,
         NEW i \in 0 .. Len(s), NEW j \in i .. Len(s)
  PROVE  EndOf(s, i) <= EndOf(s, j)
<1> DEFINE n == Len(s) - i
           S == {d \in 0 .. n : EndOf(s, i) <= EndOf(s, i + d)}
<1>1. /\ \A k \in 0 .. Len(s) : EndOf(s, k) \in Nat
      /\ \A k \in 1 .. Len(s) : EndOf(s, k) = EndOf(s, k - 1) + FrameLength(s[k])
  BY EndOfStep
<1>2. 0 \in S
  <2>1. EndOf(s, i) \in Nat /\ i + 0 = i BY <1>1
  <2>2. QED BY <2>1
<1>3. ASSUME NEW d \in 0 .. n - 1, d \in S
      PROVE  d + 1 \in S
  <2>1. i + d \in 0 .. Len(s) /\ i + (d + 1) \in 1 .. Len(s) /\ i + (d + 1) - 1 = i + d
        /\ d + 1 \in 0 .. n
    OBVIOUS
  <2>2. EndOf(s, i + (d + 1)) = EndOf(s, i + d) + FrameLength(s[i + (d + 1)]) BY <1>1, <2>1
  <2>3. EndOf(s, i) <= EndOf(s, i + d) BY <1>3
  <2>4. /\ EndOf(s, i) \in Nat /\ EndOf(s, i + d) \in Nat
        /\ FrameLength(s[i + (d + 1)]) \in Nat
    BY <1>1, <2>1
  <2>5. QED BY <2>1, <2>2, <2>3, <2>4
<1>4. \A d \in 0 .. n : d \in S
  <2>1. n \in Nat OBVIOUS
  <2> HIDE DEF S, n
  <2>2. QED BY <1>2, <1>3, <2>1, UpToInduction
<1>5. j - i \in 0 .. n /\ i + (j - i) = j OBVIOUS
<1>6. QED BY <1>4, <1>5

\* The frames already sent end where they did when another is sent.
LEMMA EndOfAppend ==
  ASSUME NEW T, NEW s \in Seq(T), NEW p \in T, \A q \in T : FrameLength(q) \in Nat
  PROVE  /\ \A i \in 0 .. Len(s) : EndOf(Append(s, p), i) = EndOf(s, i)
         /\ EndOf(Append(s, p), Len(s) + 1) = EndOf(s, Len(s)) + FrameLength(p)
<1> DEFINE t == Append(s, p)
           n == Len(s)
           S == {i \in 0 .. n : EndOf(t, i) = EndOf(s, i)}
<1>1. /\ t \in Seq(T) /\ Len(t) = n + 1 /\ n \in Nat
      /\ \A i \in 1 .. n : t[i] = s[i] /\ s[i] \in T
      /\ t[n + 1] = p
  BY AppendProperties, ElementOfSeq
<1> HIDE DEF t
<1>2. \A i \in 1 .. n : FrameLength(s[i]) \in Nat BY <1>1
<1>3. \A i \in 1 .. Len(t) : FrameLength(t[i]) \in Nat BY <1>1, ElementOfSeq
<1>4. /\ EndOf(s, 0) = 0
      /\ \A i \in 1 .. n : EndOf(s, i) = EndOf(s, i - 1) + FrameLength(s[i])
  BY <1>1, <1>2, EndOfStep
<1>5. Len(t) \in Nat BY <1>1
<1>6. /\ EndOf(t, 0) = 0
      /\ \A i \in 1 .. n + 1 : EndOf(t, i) = EndOf(t, i - 1) + FrameLength(t[i])
  BY <1>1, <1>3, <1>5, EndOfStep
<1>7. 0 \in S BY <1>1, <1>4, <1>6
<1>8. ASSUME NEW i \in 0 .. n - 1, i \in S
      PROVE  i + 1 \in S
  <2>1. i + 1 \in 1 .. n /\ i + 1 \in 1 .. n + 1 /\ i + 1 \in 0 .. n /\ (i + 1) - 1 = i
    BY <1>1
  <2>2. EndOf(t, i + 1) = EndOf(t, i) + FrameLength(t[i + 1]) BY <1>6, <2>1
  <2>3. EndOf(s, i + 1) = EndOf(s, i) + FrameLength(s[i + 1]) BY <1>4, <2>1
  <2>4. t[i + 1] = s[i + 1] /\ EndOf(t, i) = EndOf(s, i) BY <1>1, <1>8, <2>1
  <2>5. QED BY <2>1, <2>2, <2>3, <2>4
<1>9. \A i \in 0 .. n : i \in S
  <2> HIDE DEF S, n
  <2>1. QED BY <1>1, <1>7, <1>8, UpToInduction
<1>10. n \in S /\ n + 1 \in 1 .. n + 1 /\ (n + 1) - 1 = n BY <1>1, <1>9
<1>11. QED BY <1>1, <1>6, <1>9, <1>10 DEF t

-----------------------------------------------------------------------------
(***************************************************************************)
(* A frame, and what stream_data_handle makes of it.                       *)
(***************************************************************************)
\* What the assumptions say of one payload.
LEMMA PayloadFacts ==
  ASSUME NEW p \in Payloads
  PROVE  /\ p \in Seq(0 .. 255) /\ p # <<>>
         /\ Len(p) \in Nat /\ 1 <= Len(p) /\ Len(p) <= 248
         /\ FrameLength(p) = Len(p) + 7 /\ FrameLength(p) \in Nat
         /\ FrameLength(p) <= BufferSize
<1>1. p \in Seq(0 .. 255) /\ Len(p) > 0 /\ Len(p) + 7 <= BufferSize /\ Len(p) + 7 <= 255
  BY PayloadsAssumption
<1>2. Len(p) \in Nat BY <1>1
<1>3. p # <<>> BY <1>1
<1>4. 1 <= Len(p) /\ Len(p) <= 248 /\ Len(p) + 7 \in Nat
  <2> DEFINE L == Len(p)
  <2>1. L \in Nat /\ L > 0 /\ L + 7 <= 255 BY <1>1, <1>2
  <2> HIDE DEF L
  <2>2. 1 <= L /\ L <= 248 /\ L + 7 \in Nat BY <2>1
  <2>3. QED BY <2>2 DEF L
<1>5. QED BY <1>1, <1>2, <1>3, <1>4 DEF FrameLength

\* The bytes of two sequences, one behind the other.
LEMMA JoinedBytes ==
  ASSUME NEW S, NEW s \in Seq(S), NEW t \in Seq(S)
  PROVE  /\ s \o t \in Seq(S) /\ Len(s \o t) = Len(s) + Len(t)
         /\ \A i \in 1 .. Len(s) : (s \o t)[i] = s[i]
         /\ \A i \in 1 .. Len(t) : (s \o t)[Len(s) + i] = t[i]
<1> DEFINE m == Len(s)
           n == Len(t)
           st == s \o t
<1>1. m \in Nat /\ n \in Nat OBVIOUS
<1>2. /\ st \in Seq(S) /\ Len(st) = m + n
      /\ \A i \in 1 .. m + n : st[i] = IF i <= m THEN s[i] ELSE t[i - m]
  BY ConcatProperties
<1> HIDE DEF m, n, st
<1>3. ASSUME NEW i \in 1 .. m
      PROVE  st[i] = s[i]
  <2>1. i \in 1 .. m + n /\ i <= m BY <1>1
  <2>2. QED BY <1>2, <2>1
<1>4. ASSUME NEW i \in 1 .. n
      PROVE  st[m + i] = t[i]
  <2>1. m + i \in 1 .. m + n /\ ~(m + i <= m) /\ (m + i) - m = i BY <1>1
  <2>2. QED BY <1>2, <2>1
<1>5. QED BY <1>2, <1>3, <1>4 DEF m, n, st

Body(payload) == <<DIRDIRECTION_CTS, CHANNEL_ONE, Len(payload)>> \o payload

\* The bytes that the checksum is taken of.
LEMMA BodyBytes ==
  ASSUME NEW p \in Payloads
  PROVE  /\ Body(p) \in Seq(0 .. 255) /\ Len(Body(p)) = Len(p) + 3
         /\ Body(p)[1] = DIRDIRECTION_CTS /\ Body(p)[2] = CHANNEL_ONE
         /\ Body(p)[3] = Len(p)
         /\ \A j \in 1 .. Len(p) : Body(p)[j + 3] = p[j]
<1> DEFINE L == Len(p)
           head == <<DIRDIRECTION_CTS, CHANNEL_ONE, L>>
<1>1. p \in Seq(0 .. 255) /\ L \in Nat /\ 1 <= L /\ L <= 248 BY PayloadFacts
<1> HIDE DEF L
<1>2. L \in 0 .. 255 BY <1>1
<1>3. /\ head \in Seq(0 .. 255) /\ Len(head) = 3 /\ head[1] = DIRDIRECTION_CTS
      /\ head[2] = CHANNEL_ONE /\ head[3] = L
  BY <1>2 DEF DIRDIRECTION_CTS, CHANNEL_ONE
<1>4. Body(p) = head \o p BY DEF Body, L
<1> HIDE DEF head
<1>5. /\ head \o p \in Seq(0 .. 255) /\ Len(head \o p) = 3 + L
      /\ \A i \in 1 .. 3 : (head \o p)[i] = head[i]
      /\ \A i \in 1 .. L : (head \o p)[3 + i] = p[i]
  <2>1. /\ head \o p \in Seq(0 .. 255) /\ Len(head \o p) = Len(head) + Len(p)
        /\ \A i \in 1 .. Len(head) : (head \o p)[i] = head[i]
        /\ \A i \in 1 .. Len(p) : (head \o p)[Len(head) + i] = p[i]
    <3>1. head \in Seq(0 .. 255) /\ p \in Seq(0 .. 255) BY <1>1, <1>3
    <3>2. QED BY <3>1, JoinedBytes
  <2>2. Len(head) = 3 /\ Len(p) = L BY <1>3 DEF L
  <2>3. QED BY <2>1, <2>2
<1>6. 1 \in 1 .. 3 /\ 2 \in 1 .. 3 /\ 3 \in 1 .. 3 OBVIOUS
<1>7. L + 3 = 3 + L /\ \A j \in 1 .. L : j + 3 = 3 + j BY <1>1
<1>8. QED BY <1>3, <1>4, <1>5, <1>6, <1>7 DEF L

\* The bytes of a frame.
LEMMA FrameBytes ==
  ASSUME NEW p \in Payloads
  PROVE  /\ Frame(p) \in Seq(0 .. 255) /\ Len(Frame(p)) = FrameLength(p)
         /\ Frame(p)[1] = FLAG /\ Frame(p)[FrameLength(p)] = FLAG
         /\ \A j \in 1 .. Len(p) + 3 : Frame(p)[j + 1] = Body(p)[j]
         /\ Bits(Frame(p)[Len(p) + 5]) \cup Up(Bits(Frame(p)[Len(p) + 6]), 8)
              = crc16_calculate(Body(p))
<1> DEFINE L    == Len(p)
           crc  == crc16_calculate(Body(p))
           high == {e \in 0 .. 7 : e + 8 \in crc}
           tail == <<ByteOf(crc), ByteOf(high), FLAG>>
           flag == <<FLAG>>
<1>1. L \in Nat /\ 1 <= L /\ L <= 248 /\ FrameLength(p) = L + 7 BY PayloadFacts
<1>2. Body(p) \in Seq(0 .. 255) /\ Len(Body(p)) = L + 3 BY BodyBytes
<1> HIDE DEF L
<1>3. crc \in SUBSET (0 .. 15)
  <2>1. Len(Body(p)) \in Nat BY <1>1, <1>2
  <2>2. QED BY <2>1, CrcEquivalent DEF Register
<1>4. /\ tail \in Seq(0 .. 255) /\ Len(tail) = 3
      /\ tail[1] = ByteOf(crc) /\ tail[2] = ByteOf(high) /\ tail[3] = FLAG
  <2>1. ByteOf(crc) \in 0 .. 255 /\ ByteOf(high) \in 0 .. 255 BY BitsOfByteOf
  <2> HIDE DEF crc, high
  <2>2. QED BY <2>1 DEF FLAG
<1>5. flag \in Seq(0 .. 255) /\ Len(flag) = 1 /\ flag[1] = FLAG BY DEF FLAG
<1>6. Frame(p) = (flag \o Body(p)) \o tail BY DEF Frame, Body
<1>7. Bits(tail[1]) = crc \cap 0 .. 7 /\ Bits(tail[2]) = high
  <2>1. high \cap 0 .. 7 = high OBVIOUS
  <2> HIDE DEF crc, high, tail
  <2>2. QED BY <1>4, <2>1, BitsOfByteOf
<1>8. Bits(tail[1]) \cup Up(Bits(tail[2]), 8) = crc
  <2>1. Up(high, 8) = {e \in crc : e >= 8}
    <3>1. ASSUME NEW e \in crc, e >= 8
          PROVE  e \in Up(high, 8)
      <4>1. e \in 0 .. 15 BY <1>3
      <4>2. e - 8 \in 0 .. 7 /\ (e - 8) + 8 = e BY <3>1, <4>1
      <4>3. e - 8 \in high BY <4>2
      <4>4. QED BY <4>2, <4>3 DEF Up
    <3>2. ASSUME NEW e \in Up(high, 8)
          PROVE  e \in crc /\ e >= 8
      BY DEF Up
    <3>3. QED BY <3>1, <3>2
  <2> HIDE DEF crc, high
  <2>2. \A e \in crc : e \in 0 .. 7 \/ e >= 8 BY <1>3
  <2>3. crc = (crc \cap 0 .. 7) \cup {e \in crc : e >= 8} BY <2>2
  <2>4. QED BY <1>7, <2>1, <2>2
<1> HIDE DEF flag, tail, crc, high
<1>9. /\ flag \o Body(p) \in Seq(0 .. 255) /\ Len(flag \o Body(p)) = L + 4
      /\ (flag \o Body(p))[1] = FLAG
      /\ \A i \in 1 .. L + 3 : (flag \o Body(p))[1 + i] = Body(p)[i]
  <2>1. /\ flag \o Body(p) \in Seq(0 .. 255) /\ Len(flag \o Body(p)) = Len(flag) + Len(Body(p))
        /\ \A i \in 1 .. Len(flag) : (flag \o Body(p))[i] = flag[i]
        /\ \A i \in 1 .. Len(Body(p)) : (flag \o Body(p))[Len(flag) + i] = Body(p)[i]
    <3>1. flag \in Seq(0 .. 255) /\ Body(p) \in Seq(0 .. 255) BY <1>2, <1>5
    <3>2. QED BY <3>1, JoinedBytes
  <2>2. Len(flag) = 1 /\ Len(Body(p)) = L + 3 /\ 1 \in 1 .. 1 /\ 1 + (L + 3) = L + 4
    BY <1>1, <1>2, <1>5
  <2>3. (flag \o Body(p))[1] = FLAG BY <1>5, <2>1, <2>2
  <2>4. QED BY <2>1, <2>2, <2>3
<1>10. /\ Frame(p) \in Seq(0 .. 255) /\ Len(Frame(p)) = (L + 4) + 3
       /\ \A i \in 1 .. L + 4 : Frame(p)[i] = (flag \o Body(p))[i]
       /\ \A i \in 1 .. 3 : Frame(p)[(L + 4) + i] = tail[i]
  <2> DEFINE s == flag \o Body(p)
  <2>1. s \in Seq(0 .. 255) /\ Len(s) = L + 4 BY <1>9
  <2>2. Frame(p) = s \o tail /\ Len(tail) = 3 BY <1>4, <1>6
  <2> HIDE DEF s
  <2>3. /\ s \o tail \in Seq(0 .. 255) /\ Len(s \o tail) = Len(s) + Len(tail)
        /\ \A i \in 1 .. Len(s) : (s \o tail)[i] = s[i]
        /\ \A i \in 1 .. Len(tail) : (s \o tail)[Len(s) + i] = tail[i]
    <3>1. s \in Seq(0 .. 255) /\ tail \in Seq(0 .. 255) BY <1>4, <2>1
    <3>2. QED BY <3>1, JoinedBytes
  <2>4. QED BY <2>1, <2>2, <2>3 DEF s
<1>11. Frame(p)[1] = FLAG
  <2>1. 1 \in 1 .. L + 4 BY <1>1
  <2>2. QED BY <1>9, <1>10, <2>1
<1>12. ASSUME NEW j \in 1 .. L + 3
       PROVE  Frame(p)[j + 1] = Body(p)[j]
  <2>1. j + 1 \in 1 .. L + 4 /\ j + 1 = 1 + j BY <1>1
  <2>2. QED BY <1>9, <1>10, <2>1
<1>13. /\ Frame(p)[L + 5] = tail[1] /\ Frame(p)[L + 6] = tail[2] /\ Frame(p)[L + 7] = tail[3]
  <2>1. /\ 1 \in 1 .. 3 /\ 2 \in 1 .. 3 /\ 3 \in 1 .. 3
        /\ L + 5 = (L + 4) + 1 /\ L + 6 = (L + 4) + 2 /\ L + 7 = (L + 4) + 3
    BY <1>1
  <2>2. QED BY <1>10, <2>1
<1>14. L + 7 = (L + 4) + 3 BY <1>1
<1>15. QED BY <1>1, <1>4, <1>8, <1>10, <1>11, <1>12, <1>13, <1>14 DEF crc, L

\* The byte of a frame with a payload of L bytes in which the term of degree x lies:
\* in the checksum, or in the bytes that it is taken of.
ByteAt(L, x) == IF x < 8 THEN L + 5 ELSE IF x < 16 THEN L + 6 ELSE L + 4 - ((x - 16) \div 8)

\* The checked bytes and the checksum as one polynomial.
Word(b, L) == {x \in 0 .. 8 * L + 39 : x % 8 \in Bits(b[ByteAt(L, x)])}

\* The checksum that the bytes in b carry.
Carried(b, L) == Bits(b[L + 5]) \cup Up(Bits(b[L + 6]), 8)

\* It is a register.
LEMMA CarriedBits ==
  ASSUME NEW b, NEW L \in Nat
  PROVE  /\ Carried(b, L) \in Register
         /\ \A x \in 0 .. 15 : x \in Carried(b, L) <=> x % 8 \in Bits(b[ByteAt(L, x)])
<1>1. Bits(b[L + 5]) \subseteq 0 .. 7 /\ Bits(b[L + 6]) \subseteq 0 .. 7 BY BitsIn
<1> DEFINE low == Bits(b[L + 5])
           high == Bits(b[L + 6])
<1>2. low \subseteq 0 .. 7 /\ high \subseteq 0 .. 7 /\ high \in SUBSET Nat BY <1>1
<1>3. \A x \in 0 .. 7 : ByteAt(L, x) = L + 5 /\ x % 8 = x BY DEF ByteAt
<1>4. \A x \in 8 .. 15 : ByteAt(L, x) = L + 6 /\ x % 8 = x - 8 BY DEF ByteAt
<1>5. Carried(b, L) = low \cup Up(high, 8) BY DEF Carried
<1> HIDE DEF low, high
<1>6. \A x \in Int : x \in Up(high, 8) <=> x - 8 \in high BY <1>2, UpMember
<1>7. Up(high, 8) \subseteq 8 .. 15 BY <1>2 DEF Up
<1>8. Carried(b, L) \in Register
  <2>1. low \subseteq 0 .. 15 /\ Up(high, 8) \subseteq 0 .. 15 BY <1>2, <1>7
  <2>2. QED BY <1>5, <2>1 DEF Register
<1>9. ASSUME NEW x \in 0 .. 15
      PROVE  x \in Carried(b, L) <=> x % 8 \in Bits(b[ByteAt(L, x)])
  <2>1. CASE x \in 0 .. 7
    <3>1. x \notin Up(high, 8) BY <1>7, <2>1
    <3>2. Bits(b[ByteAt(L, x)]) = low BY <1>3, <2>1 DEF low
    <3>3. QED BY <1>3, <1>5, <2>1, <3>1, <3>2
  <2>2. CASE x \in 8 .. 15
    <3>1. x \notin low BY <1>2, <2>2
    <3>2. Bits(b[ByteAt(L, x)]) = high BY <1>4, <2>2 DEF high
    <3>3. QED BY <1>4, <1>5, <1>6, <2>2, <3>1, <3>2
  <2>3. QED BY <2>1, <2>2
<1>10. QED BY <1>8, <1>9

\* The checked bytes' polynomial and the carried checksum make up the word.
LEMMA WordParts ==
  ASSUME NEW b, NEW L \in Nat, NEW d, Len(d) = L + 3, \A i \in 1 .. L + 3 : d[i] = b[i + 1]
  PROVE  Word(b, L) = Plus(Degrees(d), Carried(b, L))
<1> DEFINE C == Carried(b, L)
           D == Degrees(d)
           n == 8 * L + 39
<1>1. C \subseteq 0 .. 15 BY CarriedBits DEF Register
<1>2. D = {x \in 16 .. n : (x - 16) % 8 \in Bits(d[L + 3 - ((x - 16) \div 8)])}
  <2>1. 8 * (L + 3) + 15 = n OBVIOUS
  <2>2. QED BY <2>1 DEF Degrees
<1>3. ASSUME NEW x \in 16 .. n
      PROVE  x \in D <=> x % 8 \in Bits(b[ByteAt(L, x)])
  <2> DEFINE k == (x - 16) \div 8
  <2>1. k \in 0 .. L + 2 BY <1>3
  <2>2. (x - 16) % 8 = x % 8 BY <1>3
  <2>3. L + 3 - k \in 1 .. L + 3 /\ (L + 3 - k) + 1 = L + 4 - k BY <2>1
  <2>4. ByteAt(L, x) = L + 4 - k BY <1>3 DEF ByteAt
  <2>5. d[L + 3 - k] = b[ByteAt(L, x)] BY <2>3, <2>4
  <2>6. x \in D <=> (x - 16) % 8 \in Bits(d[L + 3 - k]) BY <1>2
  <2>7. QED BY <2>2, <2>5, <2>6
<1>4. \A x \in 0 .. 15 : x \in C <=> x % 8 \in Bits(b[ByteAt(L, x)]) BY CarriedBits
<1>5. D \subseteq 16 .. n BY <1>2
<1>6. Word(b, L) = {x \in 0 .. n : x % 8 \in Bits(b[ByteAt(L, x)])} BY DEF Word
<1> HIDE DEF C, D
<1>7. ASSUME NEW x \in Int
      PROVE  x \in Word(b, L) <=> x \in Plus(D, C)
  <2>1. x \in Plus(D, C) <=> ~(x \in D <=> x \in C) BY PlusMember
  <2>2. CASE x \in 0 .. 15
    <3>1. x \notin D /\ x \in 0 .. n BY <1>5, <2>2
    <3>2. QED BY <1>4, <1>6, <2>1, <2>2, <3>1
  <2>3. CASE x \in 16 .. n
    <3>1. x \notin C /\ x \in 0 .. n BY <1>1, <2>3
    <3>2. QED BY <1>3, <1>6, <2>1, <2>3, <3>1
  <2>4. CASE x \notin 0 .. n
    <3>1. x \notin C /\ x \notin D BY <1>1, <1>5, <2>4
    <3>2. QED BY <1>6, <2>1, <2>4, <3>1
  <2>5. QED BY <2>2, <2>3, <2>4
<1>8. Word(b, L) \subseteq Int BY <1>6
<1>9. Plus(D, C) \subseteq Int BY <1>1, <1>5 DEF Plus
<1>10. QED BY <1>7, <1>8, <1>9 DEF C, D

\* A polynomial that Ccitt divides.
IsMultiple(w) == \E q \in Polynomial : w = Multiple(q)

\* The sum of two multiples is one.
LEMMA MultiplesAdd ==
  ASSUME NEW v, NEW w, IsMultiple(v), IsMultiple(w)
  PROVE  IsMultiple(Plus(v, w))
<1>1. Plus(v, {}) = v /\ Plus({}, w) = w /\ Plus(v, w) = Plus(v, w) BY DEF Plus
<1>2. Equivalent(v, {}) BY <1>1 DEF Equivalent, IsMultiple
<1>3. Equivalent({}, w) BY <1>1 DEF Equivalent, IsMultiple
<1>4. Equivalent(v, w) BY <1>2, <1>3, EquivalentAlso
<1>5. QED BY <1>4 DEF Equivalent, IsMultiple

\* The checksum is right exactly when the word is a multiple of Ccitt.
LEMMA RightIsMultiple ==
  ASSUME NEW b, NEW L \in Nat, NEW d, Len(d) = L + 3, \A i \in 1 .. L + 3 : d[i] = b[i + 1]
  PROVE  crc16_calculate(d) = Carried(b, L) <=> IsMultiple(Word(b, L))
<1> DEFINE C == Carried(b, L)
           c == crc16_calculate(d)
<1>1. Word(b, L) = Plus(Degrees(d), C) BY WordParts
<1>2. c \in Register /\ Equivalent(Degrees(d), c)
  <2>1. Len(d) \in Nat OBVIOUS
  <2>2. QED BY <2>1, CrcEquivalent
<1>3. C \in Register BY CarriedBits
<1> HIDE DEF C, c
<1>4. IsMultiple(Word(b, L)) <=> Equivalent(Degrees(d), C) BY <1>1 DEF IsMultiple, Equivalent
<1>5. ASSUME Equivalent(Degrees(d), C)
      PROVE  c = C
  <2>1. Equivalent(c, Degrees(d)) BY <1>2, PlusLaws DEF Equivalent
  <2>2. Equivalent(c, C) BY <1>5, <2>1, EquivalentAlso
  <2>3. QED BY <1>2, <1>3, <2>2, OneRemainder DEF Register
<1>6. QED BY <1>2, <1>4, <1>5 DEF c, C

\* What stream_data_handle makes of bytes with the header of a frame of p: it hands on
\* what stands in the place of the payload, or nothing, as the checksum says.
LEMMA HeaderHandled ==
  ASSUME NEW p \in Payloads, NEW b \in [1 .. BufferSize -> 0 .. 255],
         \A j \in 1 .. 4 : b[j] = Frame(p)[j]
  PROVE  stream_data_handle(b) = IF IsMultiple(Word(b, Len(p)))
                                 THEN {SubSeq(b, 5, 4 + Len(p))} ELSE {<<>>}
<1> DEFINE L == Len(p)
<1>1. /\ L \in Nat /\ 1 <= L /\ L <= 248
      /\ FrameLength(p) = L + 7 /\ L + 7 <= BufferSize
  BY PayloadFacts
<1> HIDE DEF L
<1>2. b[2] = DIRDIRECTION_CTS /\ b[3] = CHANNEL_ONE /\ b[4] = L
  <2>1. /\ 1 \in 1 .. L + 3 /\ 2 \in 1 .. L + 3 /\ 3 \in 1 .. L + 3
        /\ 1 + 1 = 2 /\ 2 + 1 = 3 /\ 3 + 1 = 4 /\ 2 \in 1 .. 4 /\ 3 \in 1 .. 4 /\ 4 \in 1 .. 4
    BY <1>1
  <2>2. /\ Frame(p)[1 + 1] = Body(p)[1] /\ Frame(p)[2 + 1] = Body(p)[2]
        /\ Frame(p)[3 + 1] = Body(p)[3]
    BY <2>1, FrameBytes DEF L
  <2>3. QED BY <2>1, <2>2, BodyBytes DEF L
<1>3. data_length(b) = L /\ pck_length(b) = L + 7 /\ Within(b)
  <2>1. data_length(b) = L BY <1>2 DEF data_length
  <2>2. (6 + L + 1) % 256 = L + 7 BY <1>1
  <2>3. pck_length(b) = L + 7 BY <2>1, <2>2 DEF pck_length
  <2>4. BufferSize \in Nat BY PayloadsAssumption
  <2>5. L + 7 \in 7 .. BufferSize BY <1>1, <2>4
  <2>6. QED BY <2>1, <2>3, <2>5 DEF Within
<1> DEFINE d == SubSeq(b, 2, L + 4)
<1>4. Len(d) = L + 3 /\ \A i \in 1 .. L + 3 : d[i] = b[i + 1]
  <2>1. \A i \in 2 .. L + 4 : b[i] \in 0 .. 255 BY <1>1, PayloadsAssumption
  <2>2. /\ 2 \in Int /\ L + 4 \in Int /\ 2 <= L + 4 /\ (L + 4) - 2 + 1 = L + 3
        /\ \A i \in 1 .. L + 3 : 2 + i - 1 = i + 1
    BY <1>1
  <2>3. /\ Len(d) = IF 2 <= L + 4 THEN (L + 4) - 2 + 1 ELSE 0
        /\ \A i \in 1 .. (L + 4) - 2 + 1 : d[i] = b[2 + i - 1]
    BY <2>1, <2>2, SubSeqProperties
  <2>4. QED BY <2>2, <2>3
<1>5. CrcMatches(b) <=> crc16_calculate(d) = Carried(b, L)
  <2>1. /\ pck_length(b) - 3 = L + 4 /\ pck_length(b) - 2 = L + 5
        /\ pck_length(b) - 1 = L + 6
    BY <1>1, <1>3
  <2>2. CrcMatches(b)
          <=> crc16_calculate(SubSeq(b, 2, pck_length(b) - 3))
                = Bits(b[pck_length(b) - 2]) \cup Up(Bits(b[pck_length(b) - 1]), 8)
    BY DEF CrcMatches
  <2>3. QED BY <2>1, <2>2 DEF Carried
<1> HIDE DEF d
<1>6. CrcMatches(b) <=> IsMultiple(Word(b, L)) BY <1>1, <1>4, <1>5, RightIsMultiple
<1>7. QED BY <1>2, <1>3, <1>6 DEF stream_data_handle, L

\* The word of a frame is a multiple.
LEMMA FrameWord ==
  ASSUME NEW p \in Payloads, NEW b, \A j \in 1 .. FrameLength(p) : b[j] = Frame(p)[j]
  PROVE  IsMultiple(Word(b, Len(p)))
<1> DEFINE L == Len(p)
<1>1. L \in Nat /\ FrameLength(p) = L + 7 BY PayloadFacts
<1>2. Len(Body(p)) = L + 3 BY BodyBytes
<1>3. /\ \A j \in 1 .. L + 3 : Frame(p)[j + 1] = Body(p)[j]
      /\ crc16_calculate(Body(p)) = Carried(Frame(p), L)
  BY FrameBytes DEF Carried
<1> HIDE DEF L
<1>4. \A j \in 1 .. L + 3 : Body(p)[j] = b[j + 1]
  <2>1. \A j \in 1 .. L + 3 : j + 1 \in 1 .. FrameLength(p) BY <1>1
  <2>2. QED BY <1>3, <2>1
<1>5. Carried(b, L) = Carried(Frame(p), L)
  <2>1. L + 5 \in 1 .. FrameLength(p) /\ L + 6 \in 1 .. FrameLength(p) BY <1>1
  <2>2. QED BY <2>1 DEF Carried
<1>6. IsMultiple(Word(b, L)) BY <1>1, <1>2, <1>3, <1>4, <1>5, RightIsMultiple
<1>7. QED BY <1>6 DEF L

\* A buffer that begins with a whole frame gives the frame's payload.
LEMMA FrameHandled ==
  ASSUME NEW p \in Payloads, NEW b \in [1 .. BufferSize -> 0 .. 255],
         \A m \in 1 .. FrameLength(p) : b[m] = Frame(p)[m]
  PROVE  stream_data_handle(b) = {p}
<1> DEFINE L == Len(p)
<1>1. /\ L \in Nat /\ 1 <= L /\ p \in Seq(0 .. 255)
      /\ FrameLength(p) = L + 7 /\ L + 7 <= BufferSize /\ BufferSize \in Nat
  BY PayloadFacts, PayloadsAssumption
<1>2. stream_data_handle(b) = {SubSeq(b, 5, 4 + L)}
  <2>1. \A j \in 1 .. 4 : j \in 1 .. FrameLength(p) BY <1>1
  <2>2. \A j \in 1 .. 4 : b[j] = Frame(p)[j] BY <2>1
  <2>3. IsMultiple(Word(b, L)) BY FrameWord
  <2>4. QED BY <2>2, <2>3, HeaderHandled
<1>3. \A j \in 1 .. L + 3 : Frame(p)[j + 1] = Body(p)[j] BY FrameBytes
<1>4. \A j \in 1 .. L : Body(p)[j + 3] = p[j] BY BodyBytes
<1> HIDE DEF L
<1>5. SubSeq(b, 5, 4 + L) = p
  <2>1. \A i \in 5 .. 4 + L : b[i] \in 0 .. 255 BY <1>1
  <2>2. 5 \in Int /\ 4 + L \in Int /\ 5 <= 4 + L /\ (4 + L) - 5 + 1 = L BY <1>1
  <2>3. /\ SubSeq(b, 5, 4 + L) \in Seq(0 .. 255)
        /\ Len(SubSeq(b, 5, 4 + L)) = IF 5 <= 4 + L THEN (4 + L) - 5 + 1 ELSE 0
        /\ \A i \in 1 .. (4 + L) - 5 + 1 : SubSeq(b, 5, 4 + L)[i] = b[5 + i - 1]
    BY <2>1, <2>2, SubSeqProperties
  <2>4. Len(SubSeq(b, 5, 4 + L)) = L BY <2>2, <2>3
  <2>5. ASSUME NEW i \in 1 .. L
        PROVE  SubSeq(b, 5, 4 + L)[i] = p[i]
    <3>1. i + 3 \in 1 .. L + 3 /\ (i + 3) + 1 = 5 + i - 1 /\ i \in 1 .. (4 + L) - 5 + 1
          /\ (i + 3) + 1 \in 1 .. FrameLength(p)
      BY <1>1
    <3>2. SubSeq(b, 5, 4 + L)[i] = Frame(p)[(i + 3) + 1] BY <2>3, <3>1
    <3>3. QED BY <1>3, <1>4, <3>1, <3>2
  <2>6. QED BY <1>1, <2>3, <2>4, <2>5, SeqEqual DEF L
<1>6. QED BY <1>2, <1>5

-----------------------------------------------------------------------------
(***************************************************************************)
(* Damage: what becomes of a frame when bytes of its payload or checksum   *)
(* arrive other than they were sent, its header and length being right.    *)
(***************************************************************************)
\* A byte is the sum of the weights of its bits.
LEMMA ByteIsBits ==
  ASSUME NEW n \in 0 .. 255
  PROVE  ByteOf(Bits(n)) = n
<1> DEFINE b(e) == (n \div Weight[e + 1]) % 2
<1>1. /\ Weight[1] = 1 /\ Weight[2] = 2 /\ Weight[3] = 4 /\ Weight[4] = 8
      /\ Weight[5] = 16 /\ Weight[6] = 32 /\ Weight[7] = 64 /\ Weight[8] = 128
  BY DEF Weight
<1>2. /\ b(0) = n % 2 /\ b(1) = (n \div 2) % 2 /\ b(2) = (n \div 4) % 2
      /\ b(3) = (n \div 8) % 2 /\ b(4) = (n \div 16) % 2 /\ b(5) = (n \div 32) % 2
      /\ b(6) = (n \div 64) % 2 /\ b(7) = (n \div 128) % 2
  BY <1>1
<1>3. \A e \in 0 .. 7 : (e \in Bits(n) <=> b(e) = 1) BY DEF Bits
<1> HIDE DEF b
<1>4. /\ b(0) \in {0, 1} /\ b(1) \in {0, 1} /\ b(2) \in {0, 1} /\ b(3) \in {0, 1}
      /\ b(4) \in {0, 1} /\ b(5) \in {0, 1} /\ b(6) \in {0, 1} /\ b(7) \in {0, 1}
  BY <1>2
<1>5. n = b(0) + 2*b(1) + 4*b(2) + 8*b(3) + 16*b(4) + 32*b(5) + 64*b(6) + 128*b(7)
  <2>1. n = (n % 2) + 2*((n \div 2) % 2) + 4*((n \div 4) % 2) + 8*((n \div 8) % 2)
              + 16*((n \div 16) % 2) + 32*((n \div 32) % 2) + 64*((n \div 64) % 2)
              + 128*((n \div 128) % 2)
    OBVIOUS
  <2>2. QED BY <1>2, <2>1
<1> DEFINE w(e) == IF e \in Bits(n) THEN Weight[e + 1] ELSE 0
<1>6. /\ w(0) = b(0) /\ w(1) = 2*b(1) /\ w(2) = 4*b(2) /\ w(3) = 8*b(3)
      /\ w(4) = 16*b(4) /\ w(5) = 32*b(5) /\ w(6) = 64*b(6) /\ w(7) = 128*b(7)
  BY <1>1, <1>3, <1>4
<1>7. ByteOf(Bits(n)) = w(0) + w(1) + w(2) + w(3) + w(4) + w(5) + w(6) + w(7)
  BY DEF ByteOf
<1> HIDE DEF w
<1>8. QED BY <1>4, <1>5, <1>6, <1>7

\* The bits of what stands in b in the place of p and its checksum that are wrong, each
\* by its byte and its place in that byte.
WrongBits(p, b) == {c \in (5 .. Len(p) + 6) \X (0 .. 7) :
                      c[2] \in Plus(Bits(b[c[1]]), Bits(Frame(p)[c[1]]))}

\* The same as terms of a polynomial.
WrongTerms(p, b) == Plus(Word(b, Len(p)), Word(Frame(p), Len(p)))

\* Which bit a term is.
LEMMA TermIsBit ==
  ASSUME NEW p \in Payloads, NEW b, \A j \in 1 .. 4 : b[j] = Frame(p)[j]
  PROVE  /\ WrongTerms(p, b) \subseteq 0 .. 8 * Len(p) + 39
         /\ \A x \in 0 .. 8 * Len(p) + 39 :
              x \in WrongTerms(p, b) <=> <<ByteAt(Len(p), x), x % 8>> \in WrongBits(p, b)
<1> DEFINE L == Len(p)
           n == 8 * L + 39
<1>1. L \in Nat BY PayloadFacts
<1>2. WrongTerms(p, b) \subseteq 0 .. n BY DEF WrongTerms, Word, Plus
<1>3. ASSUME NEW x \in 0 .. n
      PROVE  x \in WrongTerms(p, b) <=> <<ByteAt(L, x), x % 8>> \in WrongBits(p, b)
  <2> DEFINE i == ByteAt(L, x)
             e == x % 8
  <2>1. i \in 2 .. L + 6 /\ e \in 0 .. 7 BY <1>1 DEF ByteAt
  <2>2. /\ x \in Word(b, L) <=> e \in Bits(b[i])
        /\ x \in Word(Frame(p), L) <=> e \in Bits(Frame(p)[i])
    BY DEF Word
  <2>3. x \in WrongTerms(p, b) <=> e \in Plus(Bits(b[i]), Bits(Frame(p)[i]))
    <3>1. x \in WrongTerms(p, b) <=> ~(x \in Word(b, L) <=> x \in Word(Frame(p), L))
      BY PlusMember DEF WrongTerms
    <3>2. QED BY <2>2, <3>1, PlusMember
  <2>4. <<i, e>> \in WrongBits(p, b)
          <=> i \in 5 .. L + 6 /\ e \in Plus(Bits(b[i]), Bits(Frame(p)[i]))
    <3> DEFINE c == <<i, e>>
    <3>1. c[1] = i /\ c[2] = e OBVIOUS
    <3>2. c \in (5 .. L + 6) \X (0 .. 7) <=> i \in 5 .. L + 6 BY <2>1
    <3> HIDE DEF c, i, e
    <3>3. QED BY <3>1, <3>2 DEF WrongBits, L, c
  <2>5. i \notin 5 .. L + 6 => e \notin Plus(Bits(b[i]), Bits(Frame(p)[i]))
    <3> SUFFICES ASSUME i \notin 5 .. L + 6
                 PROVE  e \notin Plus(Bits(b[i]), Bits(Frame(p)[i]))
      OBVIOUS
    <3> HIDE DEF i, e
    <3>1. i \in 1 .. 4 BY <1>1, <2>1
    <3>2. b[i] = Frame(p)[i] BY <3>1
    <3>3. QED BY <3>2, PlusMember
  <2>6. QED BY <2>3, <2>4, <2>5
<1>4. QED BY <1>2, <1>3

\* Which term a bit is.
TermOf(L, i, e) ==
  IF i = L + 5 THEN e ELSE IF i = L + 6 THEN 8 + e ELSE 16 + 8 * (L + 4 - i) + e

\* A term for every bit.
LEMMA BitIsTerm ==
  ASSUME NEW L \in Nat, NEW i \in 5 .. L + 6, NEW e \in 0 .. 7
  PROVE  /\ TermOf(L, i, e) \in 0 .. 8 * L + 39
         /\ ByteAt(L, TermOf(L, i, e)) = i /\ TermOf(L, i, e) % 8 = e
<1>1. CASE i = L + 5 BY <1>1 DEF TermOf, ByteAt
<1>2. CASE i = L + 6
  <2>1. TermOf(L, i, e) = 8 + e BY <1>2 DEF TermOf
  <2>2. QED BY <1>2, <2>1 DEF ByteAt
<1>3. CASE i \in 5 .. L + 4
  <2> DEFINE k == L + 4 - i
             x == 16 + 8 * k + e
  <2>1. k \in 0 .. L - 1 /\ TermOf(L, i, e) = x BY <1>3 DEF TermOf
  <2> HIDE DEF k
  <2>2. x \in 0 .. 8 * L + 39 /\ x % 8 = e /\ (x - 16) \div 8 = k /\ ~(x < 16) /\ ~(x < 8)
    BY <2>1
  <2>3. ByteAt(L, x) = L + 4 - k BY <2>2 DEF ByteAt
  <2>4. L + 4 - k = i BY <1>3 DEF k
  <2>5. QED BY <2>1, <2>2, <2>3, <2>4
<1>4. QED BY <1>1, <1>2, <1>3

\* Two terms that are the same bit are one.
LEMMA OneTermPerBit ==
  ASSUME NEW L \in Nat, NEW x \in 0 .. 8 * L + 39, NEW y \in 0 .. 8 * L + 39,
         ByteAt(L, x) = ByteAt(L, y), x % 8 = y % 8
  PROVE  x = y
<1>1. \A z \in 0 .. 8 * L + 39 :
        /\ ByteAt(L, z) = L + 5 <=> z \in 0 .. 7
        /\ ByteAt(L, z) = L + 6 <=> z \in 8 .. 15
        /\ z \in 16 .. 8 * L + 39 => ByteAt(L, z) = L + 4 - ((z - 16) \div 8)
  <2>1. ASSUME NEW z \in 0 .. 8 * L + 39
        PROVE  /\ z \in 0 .. 7 => ByteAt(L, z) = L + 5
               /\ z \in 8 .. 15 => ByteAt(L, z) = L + 6
               /\ z \in 16 .. 8 * L + 39 => ByteAt(L, z) = L + 4 - ((z - 16) \div 8)
    BY DEF ByteAt
  <2>2. ASSUME NEW z \in 16 .. 8 * L + 39
        PROVE  L + 4 - ((z - 16) \div 8) <= L + 4
    OBVIOUS
  <2>3. QED BY <2>1, <2>2
<1>2. CASE x \in 0 .. 7
  <2>1. y \in 0 .. 7 BY <1>1, <1>2
  <2>2. QED BY <1>2, <2>1
<1>3. CASE x \in 8 .. 15
  <2>1. y \in 8 .. 15 BY <1>1, <1>3
  <2>2. QED BY <1>3, <2>1
<1>4. CASE x \in 16 .. 8 * L + 39
  <2>1. ~(y \in 0 .. 7) /\ ~(y \in 8 .. 15) BY <1>1, <1>4
  <2>2. y \in 16 .. 8 * L + 39 BY <2>1
  <2>3. (x - 16) \div 8 = (y - 16) \div 8 BY <1>1, <1>4, <2>2
  <2>4. QED BY <1>4, <2>2, <2>3
<1>5. QED BY <1>2, <1>3, <1>4

\* As many terms as bits are wrong.
LEMMA AsManyTerms ==
  ASSUME NEW p \in Payloads, NEW b, \A j \in 1 .. 4 : b[j] = Frame(p)[j]
  PROVE  Cardinality(WrongTerms(p, b)) = Cardinality(WrongBits(p, b))
<1> DEFINE L == Len(p)
           n == 8 * L + 39
           W == WrongTerms(p, b)
           B == WrongBits(p, b)
           f == [x \in W |-> <<ByteAt(L, x), x % 8>>]
<1>1. L \in Nat BY PayloadFacts
<1>2. W \subseteq 0 .. n /\ \A x \in 0 .. n : x \in W <=> <<ByteAt(L, x), x % 8>> \in B
  BY TermIsBit
<1>3. \A c \in B : \E i \in 5 .. L + 6, e \in 0 .. 7 : c = <<i, e>> BY DEF WrongBits
<1> HIDE DEF L, W, B
<1>4. f \in [W -> B] BY <1>2
<1>5. ASSUME NEW x \in W, NEW y \in W, f[x] = f[y]
      PROVE  x = y
  <2>1. ByteAt(L, x) = ByteAt(L, y) /\ x % 8 = y % 8 BY <1>5
  <2>2. QED BY <1>1, <1>2, <2>1, OneTermPerBit
<1>6. ASSUME NEW c \in B
      PROVE  \E x \in W : f[x] = c
  <2>1. PICK i \in 5 .. L + 6, e \in 0 .. 7 : c = <<i, e>> BY <1>3
  <2>2. /\ TermOf(L, i, e) \in 0 .. n
        /\ ByteAt(L, TermOf(L, i, e)) = i /\ TermOf(L, i, e) % 8 = e
    BY <1>1, BitIsTerm
  <2>3. TermOf(L, i, e) \in W BY <1>2, <2>1, <2>2
  <2>4. QED BY <2>1, <2>2, <2>3
<1>7. f \in Bijection(W, B)
  <2> HIDE DEF f
  <2>1. QED BY <1>4, <1>5, <1>6, Zenon DEF Bijection, Injection, Surjection, IsInjective
<1>8. IsFiniteSet(W)
  <2>1. 0 \in Int /\ n \in Int BY <1>1
  <2>2. IsFiniteSet(0 .. n) BY <2>1, FS_Interval
  <2>3. QED BY <1>2, <2>2, FS_Subset
<1>9. Cardinality(B) = Cardinality(W) BY <1>7, <1>8, FS_Bijection DEF ExistsBijection
<1>10. QED BY <1>9 DEF W, B

\* Bytes with the header of a frame are handed on exactly when the wrong terms are a
\* multiple.
LEMMA DamageHandled ==
  ASSUME NEW p \in Payloads, NEW b \in [1 .. BufferSize -> 0 .. 255],
         \A j \in 1 .. 4 : b[j] = Frame(p)[j]
  PROVE  stream_data_handle(b) = IF IsMultiple(WrongTerms(p, b))
                                 THEN {SubSeq(b, 5, 4 + Len(p))} ELSE {<<>>}
<1> DEFINE v == Word(b, Len(p))
           w == Word(Frame(p), Len(p))
<1>1. IsMultiple(w) BY FrameWord
<1>2. WrongTerms(p, b) = Plus(v, w) BY DEF WrongTerms
<1>3. stream_data_handle(b) = IF IsMultiple(v) THEN {SubSeq(b, 5, 4 + Len(p))} ELSE {<<>>}
  BY HeaderHandled
<1> HIDE DEF v, w
<1>4. Plus(Plus(v, w), w) = v BY DEF Plus
<1>5. IsMultiple(v) <=> IsMultiple(Plus(v, w)) BY <1>1, <1>4, MultiplesAdd
<1>6. QED BY <1>2, <1>3, <1>5

\* Two bytes that differ have bits that do.
LEMMA OtherBits ==
  ASSUME NEW m \in 0 .. 255, NEW n \in 0 .. 255, m # n
  PROVE  \E e \in 0 .. 7 : e \in Plus(Bits(m), Bits(n))
<1>1. Bits(m) # Bits(n)
  <2>1. ByteOf(Bits(m)) = m /\ ByteOf(Bits(n)) = n BY ByteIsBits
  <2>2. QED BY <2>1
<1>2. Bits(m) \subseteq 0 .. 7 /\ Bits(n) \subseteq 0 .. 7 BY BitsIn
<1>3. QED BY <1>1, <1>2, PlusMember

\* A frame with an odd number of wrong bits, wherever they are in the payload and the
\* checksum, is never handed on.
THEOREM OddDamageRefused ==
  ASSUME NEW p \in Payloads, NEW b \in [1 .. BufferSize -> 0 .. 255],
         \A j \in 1 .. 4 : b[j] = Frame(p)[j], Cardinality(WrongBits(p, b)) % 2 = 1
  PROVE  stream_data_handle(b) = {<<>>}
<1>1. Cardinality(WrongTerms(p, b)) % 2 = 1 BY AsManyTerms
<1>2. ~IsMultiple(WrongTerms(p, b))
  <2>1. ASSUME NEW q \in Polynomial, WrongTerms(p, b) = Multiple(q)
        PROVE  FALSE
    <3>1. Cardinality(Multiple(q)) % 2 = 0 BY MultipleIsEven
    <3>2. QED BY <1>1, <2>1, <3>1
  <2>2. QED BY <2>1 DEF IsMultiple
<1>3. QED BY <1>2, DamageHandled

\* Nor is one with any damage to a byte, or to two neighbouring bytes, of the payload, or
\* to the two of the checksum.
THEOREM NeighboursRefused ==
  ASSUME NEW p \in Payloads, NEW b \in [1 .. BufferSize -> 0 .. 255],
         NEW i \in (4 .. Len(p) + 3) \cup {Len(p) + 5},
         \A j \in 1 .. Len(p) + 6 : j \notin {i, i + 1} => b[j] = Frame(p)[j],
         b[4] = Frame(p)[4],
         b[i] # Frame(p)[i] \/ b[i + 1] # Frame(p)[i + 1]
  PROVE  stream_data_handle(b) = {<<>>}
<1> DEFINE L == Len(p)
           n == 8 * L + 39
           W == WrongTerms(p, b)
<1>1. L \in Nat /\ 1 <= L /\ FrameLength(p) = L + 7 /\ L + 7 <= BufferSize BY PayloadFacts
<1>2. \A j \in 1 .. 4 : b[j] = Frame(p)[j]
  <2>1. \A j \in 1 .. 3 : j \in 1 .. L + 6 /\ j \notin {i, i + 1} BY <1>1
  <2>2. QED BY <2>1
<1>3. /\ W \subseteq 0 .. n
      /\ \A x \in 0 .. n : x \in W <=> <<ByteAt(L, x), x % 8>> \in WrongBits(p, b)
  BY <1>2, TermIsBit
<1>4. \A j, e : <<j, e>> \in WrongBits(p, b)
                  <=> /\ j \in 5 .. L + 6 /\ e \in 0 .. 7
                      /\ e \in Plus(Bits(b[j]), Bits(Frame(p)[j]))
  BY DEF WrongBits
<1>5. W # {}
  <2>1. PICK j \in {i, i + 1} : b[j] # Frame(p)[j] OBVIOUS
  <2>2. j \in 5 .. L + 6
    <3>1. j # 4 BY <2>1
    <3>2. QED BY <1>1, <3>1
  <2>3. b[j] \in 0 .. 255 /\ Frame(p)[j] \in 0 .. 255
    <3>1. j \in 1 .. BufferSize /\ j \in 1 .. FrameLength(p)
      <4>1. BufferSize \in Nat BY PayloadsAssumption
      <4>2. QED BY <1>1, <2>2, <4>1
    <3>2. Frame(p) \in Seq(0 .. 255) /\ Len(Frame(p)) = FrameLength(p) BY FrameBytes
    <3>3. QED BY <3>1, <3>2, ElementOfSeq
  <2>4. PICK e \in 0 .. 7 : e \in Plus(Bits(b[j]), Bits(Frame(p)[j])) BY <2>1, <2>3, OtherBits
  <2>5. <<j, e>> \in WrongBits(p, b) BY <1>4, <2>2, <2>4
  <2>6. /\ TermOf(L, j, e) \in 0 .. n
        /\ ByteAt(L, TermOf(L, j, e)) = j /\ TermOf(L, j, e) % 8 = e
    BY <1>1, <2>2, BitIsTerm
  <2>7. QED BY <1>3, <2>5, <2>6
<1>6. \A x \in W : ByteAt(L, x) \in {i, i + 1}
  <2>1. ASSUME NEW x \in W, ByteAt(L, x) \notin {i, i + 1}
        PROVE  FALSE
    <3> DEFINE j == ByteAt(L, x)
    <3>1. <<j, x % 8>> \in WrongBits(p, b) BY <1>3
    <3> HIDE DEF j
    <3>2. j \in 5 .. L + 6 /\ x % 8 \in Plus(Bits(b[j]), Bits(Frame(p)[j])) BY <1>4, <3>1
    <3>3. b[j] = Frame(p)[j]
      <4>1. j \in 1 .. L + 6 /\ j \notin {i, i + 1} BY <1>1, <2>1, <3>2 DEF j
      <4>2. QED BY <4>1
    <3>4. QED BY <3>2, <3>3, PlusMember
  <2>2. QED BY <2>1
<1> HIDE DEF W
<1>7. \E m \in Nat : W \subseteq m .. m + 15
  <2>1. CASE i = L + 5
    <3>1. \A x \in W : x \in 0 .. 15
      <4>1. ASSUME NEW x \in W
            PROVE  x \in 0 .. 15
        <5>1. x \in 0 .. n /\ ByteAt(L, x) \in {L + 5, L + 6} BY <1>3, <1>6, <2>1
        <5>2. x \in 16 .. n => ByteAt(L, x) <= L + 4 BY <1>1 DEF ByteAt
        <5>3. QED BY <1>1, <5>1, <5>2
      <4>2. QED BY <4>1
    <3>2. 0 \in Nat /\ W \subseteq 0 .. 0 + 15 BY <3>1
    <3>3. QED BY <3>2
  <2>2. CASE i \in 4 .. L + 3
    <3> DEFINE m == 16 + 8 * (L + 3 - i)
    <3>1. m \in Nat BY <1>1, <2>2
    <3>2. ASSUME NEW x \in W
          PROVE  x \in m .. m + 15
      <4>1. x \in 0 .. n /\ ByteAt(L, x) \in {i, i + 1} BY <1>3, <1>6
      <4>2. x \in 16 .. n
        <5>1. x \in 0 .. 7 => ByteAt(L, x) = L + 5 BY DEF ByteAt
        <5>2. x \in 8 .. 15 => ByteAt(L, x) = L + 6 BY DEF ByteAt
        <5>3. QED BY <1>1, <2>2, <4>1, <5>1, <5>2
      <4>3. ByteAt(L, x) = L + 4 - ((x - 16) \div 8)
        <5>1. ~(x < 8) /\ ~(x < 16) BY <4>2
        <5>2. QED BY <5>1 DEF ByteAt
      <4>4. (x - 16) \div 8 \in {L + 4 - i, L + 3 - i} BY <1>1, <2>2, <4>1, <4>2, <4>3
      <4>5. QED BY <1>1, <2>2, <4>2, <4>4
    <3> HIDE DEF m
    <3>3. W \subseteq m .. m + 15 BY <3>2
    <3>4. QED BY <3>1, <3>3
  <2>3. QED BY <2>1, <2>2
<1>8. ~IsMultiple(W)
  <2>1. ASSUME NEW q \in Polynomial, W = Multiple(q)
        PROVE  FALSE
    <3>1. q = {} BY <1>7, <2>1, MultipleIsWide
    <3>2. Multiple({}) = {} BY DEF Multiple, Plus, Up
    <3>3. QED BY <1>5, <2>1, <3>1, <3>2
  <2>2. QED BY <2>1 DEF IsMultiple
<1>9. QED BY <1>2, <1>8, DamageHandled DEF W

\* What is wrong in byte i: the bits in which it differs from the frame's.
WrongIn(p, b, i) == Plus(Bits(b[i]), Bits(Frame(p)[i]))

\* The terms of such damage.
LEMMA EndTerms ==
  ASSUME NEW p \in Payloads, NEW b,
         \A j \in 1 .. Len(p) + 6 : j \notin {Len(p) + 4, Len(p) + 5} => b[j] = Frame(p)[j]
  PROVE  /\ \A j \in 1 .. 4 : b[j] = Frame(p)[j]
         /\ WrongTerms(p, b) = WrongIn(p, b, Len(p) + 5) \cup Up(WrongIn(p, b, Len(p) + 4), 16)
<1> DEFINE L == Len(p)
           n == 8 * L + 39
           W == WrongTerms(p, b)
           last == WrongIn(p, b, L + 4)
           first == WrongIn(p, b, L + 5)
<1>1. L \in Nat /\ 1 <= L BY PayloadFacts
<1>2. \A j \in 1 .. 4 : b[j] = Frame(p)[j]
  <2>1. \A j \in 1 .. 4 : j \in 1 .. L + 6 /\ j \notin {L + 4, L + 5} BY <1>1
  <2>2. QED BY <2>1
<1>3. W \subseteq 0 .. n
      /\ \A x \in 0 .. n : x \in W <=> <<ByteAt(L, x), x % 8>> \in WrongBits(p, b)
  BY <1>2, TermIsBit
<1>4. last \subseteq 0 .. 7 /\ first \subseteq 0 .. 7
  <2>1. \A m : Bits(m) \subseteq 0 .. 7 BY BitsIn
  <2>2. QED BY <2>1 DEF WrongIn, Plus
<1>5. \A j, e : <<j, e>> \in WrongBits(p, b)
                  <=> (j = L + 4 /\ e \in last) \/ (j = L + 5 /\ e \in first)
  <2>1. \A j, e : <<j, e>> \in WrongBits(p, b)
                    <=> j \in 5 .. L + 6 /\ e \in 0 .. 7 /\ e \in WrongIn(p, b, j)
    BY DEF WrongBits, WrongIn
  <2>2. ASSUME NEW j \in 5 .. L + 6, j # L + 4, j # L + 5
        PROVE  WrongIn(p, b, j) = {}
    <3>1. j \in 1 .. L + 6 BY <1>1
    <3>2. b[j] = Frame(p)[j] BY <2>2, <3>1
    <3>3. QED BY <3>2 DEF Plus, WrongIn
  <2>3. L + 4 \in 5 .. L + 6 /\ L + 5 \in 5 .. L + 6 BY <1>1
  <2>4. QED BY <1>4, <2>1, <2>2, <2>3
<1> HIDE DEF W, last, first
<1>6. \A x \in 0 .. n : /\ ByteAt(L, x) = L + 5 <=> x \in 0 .. 7
                        /\ ByteAt(L, x) = L + 4 <=> x \in 16 .. 23
  BY <1>1 DEF ByteAt
<1>0. n \in Nat BY <1>1
<1> HIDE DEF n
<1>7. \A x \in 0 .. 7 : x % 8 = x OBVIOUS
<1>8. \A x \in 16 .. 23 : x % 8 = x - 16 OBVIOUS
<1>9. ASSUME NEW x \in 0 .. n
      PROVE  x \in W <=> (x \in 16 .. 23 /\ x - 16 \in last) \/ (x \in 0 .. 7 /\ x \in first)
  <2>1. x \in W <=> \/ ByteAt(L, x) = L + 4 /\ x % 8 \in last
                    \/ ByteAt(L, x) = L + 5 /\ x % 8 \in first
    BY <1>3, <1>5
  <2>2. x \in W <=> \/ x \in 16 .. 23 /\ x % 8 \in last
                    \/ x \in 0 .. 7 /\ x % 8 \in first
    BY <1>6, <2>1
  <2>3. CASE x \in 0 .. 7 BY <1>7, <2>2, <2>3
  <2>4. CASE x \in 16 .. 23 BY <1>8, <2>2, <2>4
  <2>5. QED BY <2>2, <2>3, <2>4
<1>10. /\ Up(last, 16) \subseteq 16 .. 23
       /\ \A x \in Int : x \in Up(last, 16) <=> x - 16 \in last
  <2>1. last \in SUBSET Nat /\ 16 \in Nat BY <1>4
  <2>2. QED BY <1>4, <2>1, UpMember DEF Up
<1>11. 0 .. 7 \subseteq 0 .. n /\ 16 .. 23 \subseteq 0 .. n BY <1>1 DEF n
<1>12. W = first \cup Up(last, 16)
  <2>1. ASSUME NEW x \in 0 .. n
        PROVE  x \in W <=> x \in first \/ x \in Up(last, 16)
    <3>1. x \in Up(last, 16) <=> x \in 16 .. 23 /\ x - 16 \in last
      <4>1. x \in Int BY <1>0
      <4>2. x \in Up(last, 16) <=> x - 16 \in last BY <1>10, <4>1
      <4>3. x \in Up(last, 16) => x \in 16 .. 23 BY <1>10
      <4>4. QED BY <4>2, <4>3
    <3>2. x \in first <=> x \in 0 .. 7 /\ x \in first BY <1>4
    <3>3. QED BY <1>9, <3>1, <3>2
  <2>2. first \subseteq 0 .. n /\ Up(last, 16) \subseteq 0 .. n BY <1>4, <1>10, <1>11
  <2>3. QED BY <1>3, <2>1, <2>2
<1>13. QED BY <1>2, <1>12 DEF W, last, first

\* The one multiple of Ccitt without terms between.
LEMMA EndMultiple ==
  /\ {0, 5, 7} \cup Up({0, 3, 7}, 16) = Multiple({0, 7}) /\ {0, 7} \in Polynomial
  /\ \A q \in Polynomial : Multiple(q) \subseteq (0 .. 7) \cup (16 .. 23) => q \in {{}, {0, 7}}
<1>1. {0, 7} \in Polynomial
  <2>1. {0, 7} \subseteq 0 .. 7 OBVIOUS
  <2>2. QED BY <2>1 DEF Polynomial
<1>2. {0, 5, 7} \cup Up({0, 3, 7}, 16) = Multiple({0, 7})
  <2>1. /\ Up({0, 7}, 5) = {5, 12} /\ Up({0, 7}, 12) = {12, 19}
        /\ Up({0, 7}, 16) = {16, 23} /\ Up({0, 3, 7}, 16) = {16, 19, 23}
    BY DEF Up
  <2>2. Plus({0, 7}, {5, 12}) = {0, 5, 7, 12} /\ Plus({12, 19}, {16, 23}) = {12, 16, 19, 23}
    BY DEF Plus
  <2>3. Plus({0, 5, 7, 12}, {12, 16, 19, 23}) = {0, 5, 7, 16, 19, 23} BY DEF Plus
  <2>4. Multiple({0, 7}) = {0, 5, 7, 16, 19, 23} BY <2>1, <2>2, <2>3 DEF Multiple
  <2>5. QED BY <2>1, <2>4
<1>3. ASSUME NEW q \in Polynomial, Multiple(q) \subseteq (0 .. 7) \cup (16 .. 23)
      PROVE  q \in {{}, {0, 7}}
  <2>1. q \in SUBSET Nat BY DEF Polynomial
  <2>2. \A x \in Int : x \in Multiple(q)
          <=> ~(~(x \in q <=> x - 5 \in q) <=> ~(x - 12 \in q <=> x - 16 \in q))
    BY <2>1, MultipleMember
  <2>3. q \subseteq 0 .. 7
    <3>1. SUFFICES ASSUME NEW e \in q, e > 7
                   PROVE  FALSE
      BY <2>1
    <3>2. PICK h \in q : h > 7 /\ \A d \in q : d <= h
      <4>1. PICK h \in q : \A d \in q : d <= h BY <3>1, TopTerm
      <4>2. e <= h /\ e \in Nat /\ h \in Nat BY <2>1, <3>1, <4>1
      <4>3. h > 7 BY <3>1, <4>2
      <4>4. QED BY <4>1, <4>3
    <3>3. h + 16 \in Int /\ h + 16 \notin q /\ (h + 16) - 5 \notin q
          /\ (h + 16) - 12 \notin q /\ (h + 16) - 16 \in q
      <4>1. /\ h + 16 > h /\ (h + 16) - 5 > h /\ (h + 16) - 12 > h
            /\ (h + 16) - 16 = h /\ h + 16 \in Int
        BY <2>1, <3>2
      <4>2. \A d \in q : d \in Int /\ d <= h BY <2>1, <3>2
      <4>3. QED BY <3>2, <4>1, <4>2
    <3>4. h + 16 \in Multiple(q) BY <2>2, <3>3
    <3>5. QED BY <1>3, <2>1, <3>2, <3>4
  <2>4. \A x \in 8 .. 15 : x \notin Multiple(q) BY <1>3
  <2>5. /\ 3 \notin q /\ 4 \notin q /\ 5 \notin q /\ 6 \notin q /\ (7 \in q <=> 0 \in q)
        /\ 1 \notin q /\ 2 \notin q
    <3>1. \A x \in Int : x < 0 \/ x > 7 => x \notin q BY <2>3
    <3>2. 8 \notin Multiple(q) /\ 9 \notin Multiple(q) /\ 10 \notin Multiple(q)
          /\ 11 \notin Multiple(q) /\ 12 \notin Multiple(q) /\ 13 \notin Multiple(q)
          /\ 14 \notin Multiple(q)
      BY <2>4
    <3>3. 3 \notin q BY <2>2, <3>1, <3>2
    <3>4. 4 \notin q BY <2>2, <3>1, <3>2
    <3>5. 5 \notin q BY <2>2, <3>1, <3>2
    <3>6. 6 \notin q BY <2>2, <3>1, <3>2
    <3>7. 7 \in q <=> 0 \in q BY <2>2, <3>1, <3>2
    <3>8. 1 \notin q BY <2>2, <3>1, <3>2
    <3>9. 2 \notin q BY <2>2, <3>1, <3>2
    <3>10. QED BY <3>3, <3>4, <3>5, <3>6, <3>7, <3>8, <3>9
  <2>6. CASE 0 \in q
    <3>1. \A e \in 0 .. 7 : e \in q <=> e \in {0, 7} BY <2>5, <2>6
    <3>2. {0, 7} \subseteq 0 .. 7 OBVIOUS
    <3>3. \A e : e \in q <=> e \in {0, 7} BY <2>3, <3>1, <3>2
    <3>4. q = {0, 7} BY <3>3
    <3>5. QED BY <3>4
  <2>7. CASE 0 \notin q
    <3>1. q = {} BY <2>3, <2>5, <2>7
    <3>2. QED BY <3>1
  <2>8. QED BY <2>6, <2>7
<1>4. QED BY <1>1, <1>2, <1>3

\* Damage to the payload's last byte and the checksum's first is noticed as well, but for
\* one kind: bits 0, 3 and 7 of the one and 0, 5 and 7 of the other.
THEOREM EndDamageRefused ==
  ASSUME NEW p \in Payloads, NEW b \in [1 .. BufferSize -> 0 .. 255],
         \A j \in 1 .. Len(p) + 6 : j \notin {Len(p) + 4, Len(p) + 5} => b[j] = Frame(p)[j],
         b[Len(p) + 4] # Frame(p)[Len(p) + 4] \/ b[Len(p) + 5] # Frame(p)[Len(p) + 5],
         ~(/\ WrongIn(p, b, Len(p) + 4) = {0, 3, 7}
           /\ WrongIn(p, b, Len(p) + 5) = {0, 5, 7})
  PROVE  stream_data_handle(b) = {<<>>}
<1> DEFINE L == Len(p)
           last == WrongIn(p, b, L + 4)
           first == WrongIn(p, b, L + 5)
           W == WrongTerms(p, b)
<1>1. /\ L \in Nat /\ 1 <= L /\ FrameLength(p) = L + 7 /\ L + 7 <= BufferSize
      /\ BufferSize \in Nat
  BY PayloadFacts, PayloadsAssumption
<1>2. (\A j \in 1 .. 4 : b[j] = Frame(p)[j]) /\ W = first \cup Up(last, 16) BY EndTerms
<1>3. last \subseteq 0 .. 7 /\ first \subseteq 0 .. 7
  <2>1. \A m : Bits(m) \subseteq 0 .. 7 BY BitsIn
  <2>2. QED BY <2>1 DEF WrongIn, Plus
<1>4. last # {} \/ first # {}
  <2>1. \A j \in {L + 4, L + 5} : b[j] \in 0 .. 255 /\ Frame(p)[j] \in 0 .. 255
    <3>1. \A j \in {L + 4, L + 5} : j \in 1 .. BufferSize /\ j \in 1 .. FrameLength(p)
      BY <1>1
    <3>2. Frame(p) \in Seq(0 .. 255) /\ Len(Frame(p)) = FrameLength(p) BY FrameBytes
    <3>3. QED BY <3>1, <3>2, ElementOfSeq
  <2>2. QED BY <2>1, OtherBits DEF WrongIn
<1>5. ~(last = {0, 3, 7} /\ first = {0, 5, 7}) OBVIOUS
<1> HIDE DEF last, first, W
<1>6. \A x \in Int : x \in Up(last, 16) <=> x - 16 \in last
  <2>1. last \in SUBSET Nat /\ 16 \in Nat BY <1>3
  <2>2. QED BY <2>1, UpMember
<1>7. Up(last, 16) \subseteq 16 .. 23 BY <1>3 DEF Up
<1>8. ~IsMultiple(W)
  <2>1. ASSUME NEW q \in Polynomial, W = Multiple(q)
        PROVE  FALSE
    <3>1. W \subseteq (0 .. 7) \cup (16 .. 23) BY <1>2, <1>3, <1>7
    <3>2. q \in {{}, {0, 7}} BY <2>1, <3>1, EndMultiple
    <3>3. CASE q = {}
      <4>1. W = {} BY <2>1, <3>3 DEF Multiple, Plus, Up
      <4>2. first = {} /\ Up(last, 16) = {} BY <1>2, <4>1
      <4>3. PICK e \in last : TRUE BY <1>4, <4>2
      <4>4. e + 16 \in Up(last, 16) BY DEF Up
      <4>5. QED BY <4>2, <4>4
    <3>4. CASE q = {0, 7}
      <4>1. W = {0, 5, 7} \cup Up({0, 3, 7}, 16) BY <2>1, <3>4, EndMultiple
      <4>2. Up({0, 3, 7}, 16) = {16, 19, 23} BY DEF Up
      <4>3. W = {0, 5, 7, 16, 19, 23} BY <4>1, <4>2
      <4>4. first = {0, 5, 7} BY <1>2, <1>3, <1>7, <4>3
      <4>5. \A e \in 0 .. 7 : e \in last <=> e + 16 \in W
        <5>1. \A e \in 0 .. 7 : /\ e + 16 \in Int /\ (e + 16) - 16 = e
                                /\ e + 16 \notin 0 .. 7
          OBVIOUS
        <5>2. ASSUME NEW e \in 0 .. 7
              PROVE  e \in last <=> e + 16 \in W
          <6>1. e + 16 \in Up(last, 16) <=> e \in last BY <1>6, <5>1
          <6>2. e + 16 \notin first BY <1>3, <5>1
          <6>3. QED BY <1>2, <6>1, <6>2
        <5>3. QED BY <5>2
      <4>6. last = {0, 3, 7}
        <5>1. ASSUME NEW e \in 0 .. 7
              PROVE  e \in last <=> e \in {0, 3, 7}
          <6>1. e + 16 \in {0, 5, 7, 16, 19, 23} <=> e \in {0, 3, 7} OBVIOUS
          <6>2. QED BY <4>3, <4>5, <6>1
        <5>2. {0, 3, 7} \subseteq 0 .. 7 OBVIOUS
        <5>3. \A e : e \in last <=> e \in {0, 3, 7} BY <1>3, <5>1, <5>2
        <5>4. QED BY <5>3
      <4>7. QED BY <1>5, <4>4, <4>6
    <3>5. QED BY <3>2, <3>3, <3>4
  <2>2. QED BY <2>1 DEF IsMultiple
<1>9. QED BY <1>2, <1>8, DamageHandled DEF W

\* That kind goes unnoticed, in every frame: the checksum is read low byte first, so what
\* lies together on the line is far apart in the polynomial.
THEOREM EndDamagePasses ==
  ASSUME NEW p \in Payloads
  PROVE  \E b \in [1 .. BufferSize -> 0 .. 255], q \in Seq(0 .. 255) :
           /\ \A j \in 1 .. FrameLength(p) :
                j \notin {Len(p) + 4, Len(p) + 5} => b[j] = Frame(p)[j]
           /\ stream_data_handle(b) = {q} /\ q # p /\ q # <<>>
<1> DEFINE L == Len(p)
           f == Frame(p)
           Turned(i, bits) == ByteOf(Plus(Bits(f[i]), bits))
           b == [j \in 1 .. BufferSize |-> IF j = L + 4 THEN Turned(L + 4, {0, 3, 7})
                                           ELSE IF j = L + 5 THEN Turned(L + 5, {0, 5, 7})
                                           ELSE IF j \in 1 .. FrameLength(p) THEN f[j] ELSE 0]
           q == SubSeq(b, 5, 4 + L)
<1>1. /\ L \in Nat /\ 1 <= L /\ FrameLength(p) = L + 7 /\ L + 7 <= BufferSize
      /\ BufferSize \in Nat
  BY PayloadFacts, PayloadsAssumption
<1>2. f \in Seq(0 .. 255) /\ Len(f) = FrameLength(p) BY FrameBytes
<1>3. \A i, bits : bits \subseteq 0 .. 7 => /\ Turned(i, bits) \in 0 .. 255
                                           /\ Bits(Turned(i, bits)) = Plus(Bits(f[i]), bits)
  <2>1. ASSUME NEW i, NEW bits, bits \subseteq 0 .. 7
        PROVE  /\ Turned(i, bits) \in 0 .. 255
               /\ Bits(Turned(i, bits)) = Plus(Bits(f[i]), bits)
    <3>1. Plus(Bits(f[i]), bits) \cap 0 .. 7 = Plus(Bits(f[i]), bits)
      <4>1. Bits(f[i]) \subseteq 0 .. 7 BY BitsIn
      <4> HIDE DEF f
      <4>2. QED BY <2>1, <4>1 DEF Plus
    <3>2. QED BY <3>1, BitsOfByteOf
  <2>2. QED BY <2>1
<1>4. \A j \in 1 .. FrameLength(p) : f[j] \in 0 .. 255 BY <1>2, ElementOfSeq
<1>5. {0, 3, 7} \subseteq 0 .. 7 /\ {0, 5, 7} \subseteq 0 .. 7 OBVIOUS
<1> HIDE DEF Turned, f
<1>6. b \in [1 .. BufferSize -> 0 .. 255]
  <2>1. Turned(L + 4, {0, 3, 7}) \in 0 .. 255 /\ Turned(L + 5, {0, 5, 7}) \in 0 .. 255
    BY <1>3, <1>5
  <2>2. 0 \in 0 .. 255 OBVIOUS
  <2>3. QED BY <1>4, <2>1, <2>2
<1>7. \A j \in 1 .. FrameLength(p) : j \notin {L + 4, L + 5} => b[j] = f[j] BY <1>1
<1>8. /\ Bits(b[L + 4]) = Plus(Bits(f[L + 4]), {0, 3, 7})
      /\ Bits(b[L + 5]) = Plus(Bits(f[L + 5]), {0, 5, 7})
  <2>1. L + 4 \in 1 .. BufferSize /\ L + 5 \in 1 .. BufferSize /\ L + 5 # L + 4 BY <1>1
  <2>2. b[L + 4] = Turned(L + 4, {0, 3, 7}) /\ b[L + 5] = Turned(L + 5, {0, 5, 7}) BY <2>1
  <2> HIDE DEF b
  <2>3. QED BY <1>3, <1>5, <2>2
<1> HIDE DEF b
<1>9. \A j \in 1 .. 4 : b[j] = Frame(p)[j]
  <2>1. \A j \in 1 .. 4 : j \in 1 .. FrameLength(p) /\ j \notin {L + 4, L + 5} BY <1>1
  <2>2. QED BY <1>7, <2>1 DEF f
<1>10. WrongTerms(p, b) = {0, 5, 7} \cup Up({0, 3, 7}, 16)
  <2>1. \A j \in 1 .. L + 6 : j \notin {L + 4, L + 5} => b[j] = Frame(p)[j]
    <3>1. \A j \in 1 .. L + 6 : j \in 1 .. FrameLength(p) BY <1>1
    <3>2. QED BY <1>7, <3>1 DEF f
  <2>2. WrongTerms(p, b) = WrongIn(p, b, L + 5) \cup Up(WrongIn(p, b, L + 4), 16)
    BY <2>1, EndTerms
  <2>3. WrongIn(p, b, L + 4) = {0, 3, 7} /\ WrongIn(p, b, L + 5) = {0, 5, 7}
    BY <1>8 DEF f, WrongIn, Plus
  <2>4. QED BY <2>2, <2>3
<1>11. IsMultiple(WrongTerms(p, b)) BY <1>10, EndMultiple DEF IsMultiple
<1>12. stream_data_handle(b) = {q} BY <1>6, <1>9, <1>11, DamageHandled
<1>13. /\ q \in Seq(0 .. 255) /\ Len(q) = L /\ q[L] = b[L + 4]
  <2>1. \A i \in 5 .. 4 + L : b[i] \in 0 .. 255 BY <1>1, <1>6
  <2>2. 5 \in Int /\ 4 + L \in Int /\ 5 <= 4 + L /\ (4 + L) - 5 + 1 = L /\ L \in 1 .. L
        /\ 5 + L - 1 = L + 4
    BY <1>1
  <2>3. /\ q \in Seq(0 .. 255)
        /\ Len(q) = IF 5 <= 4 + L THEN (4 + L) - 5 + 1 ELSE 0
        /\ \A i \in 1 .. (4 + L) - 5 + 1 : q[i] = b[5 + i - 1]
    BY <2>1, <2>2, SubSeqProperties
  <2>4. QED BY <2>2, <2>3
<1>14. q # p
  <2>1. L + 3 \in 1 .. L + 3 /\ L \in 1 .. L /\ (L + 3) + 1 = L + 4 BY <1>1
  <2>2. p[L] = f[L + 4] BY <2>1, FrameBytes, BodyBytes DEF f
  <2>3. Bits(b[L + 4]) # Bits(f[L + 4])
    <3>1. 0 \in Bits(b[L + 4]) <=> ~(0 \in Bits(f[L + 4])) BY <1>8, PlusMember
    <3>2. QED BY <3>1
  <2>4. QED BY <1>13, <2>2, <2>3
<1> HIDE DEF q
<1>15. q # <<>>
  <2>1. Len(q) # 0 BY <1>1, <1>13
  <2>2. QED BY <2>1
<1>16. QED BY <1>6, <1>7, <1>12, <1>13, <1>14, <1>15 DEF f

-----------------------------------------------------------------------------
(***************************************************************************)
(* Types.                                                                  *)
(***************************************************************************)
\* What is handed on is a sequence of bytes, whatever the buffer holds: it lies
\* within the buffer.
LEMMA HandledBytes ==
  ASSUME NEW b \in [1 .. BufferSize -> 0 .. 255], NEW p \in stream_data_handle(b)
  PROVE  p \in Seq(0 .. 255)
<1>1. CASE p = <<>> BY <1>1
<1>2. CASE p \in Payloads BY <1>2, PayloadFacts
<1>3. CASE Within(b) /\ p = SubSeq(b, 5, 4 + data_length(b))
  <2> DEFINE L == data_length(b)
  <2>1. BufferSize \in Nat /\ BufferSize >= 8 BY PayloadsAssumption
  <2>2. L \in 0 .. 255
    <3>1. 4 \in 1 .. BufferSize BY <2>1
    <3>2. QED BY <3>1 DEF data_length
  <2>3. (6 + L + 1) % 256 \in 7 .. BufferSize BY <1>3 DEF Within, pck_length
  <2> HIDE DEF L
  <2>4. 4 + L <= BufferSize
    <3>1. CASE L <= 248
      <4>1. (6 + L + 1) % 256 = 7 + L BY <2>2, <3>1
      <4>2. QED BY <2>1, <2>2, <2>3, <4>1
    <3>2. CASE L > 248
      <4>1. (6 + L + 1) % 256 = L - 249 BY <2>2, <3>2
      <4>2. QED BY <2>1, <2>2, <2>3, <4>1
    <3>3. QED BY <2>2, <3>1, <3>2
  <2>5. 5 \in Int /\ 4 + L \in Int /\ \A i \in 5 .. 4 + L : i \in 1 .. BufferSize
    BY <2>1, <2>2, <2>4
  <2>6. \A i \in 5 .. 4 + L : b[i] \in 0 .. 255 BY <2>5
  <2>7. SubSeq(b, 5, 4 + L) \in Seq(0 .. 255) BY <2>5, <2>6, SubSeqProperties
  <2>8. QED BY <1>3, <2>7 DEF L
<1>4. QED BY <1>1, <1>2, <1>3 DEF stream_data_handle

\* What Gather leaves of cnt and handled.
LEMMA GatherType ==
  ASSUME NEW b \in [1 .. BufferSize -> 0 .. 255], NEW filled \in 1 .. BufferSize,
         handled \in Seq(Seq(0 .. 255)), Gather(b, filled)
  PROVE  cnt' \in 0 .. BufferSize - 1 /\ handled' \in Seq(Seq(0 .. 255))
<1>1. BufferSize \in Nat /\ BufferSize >= 8 BY PayloadsAssumption
<1>2. CASE b[1] = FLAG /\ b[filled] = FLAG
  <2>1. PICK p \in stream_data_handle(b) :
          handled' = IF p = <<>> THEN handled ELSE Append(handled, p)
    BY <1>2 DEF Gather
  <2>2. p \in Seq(0 .. 255) BY HandledBytes
  <2>3. Append(handled, p) \in Seq(Seq(0 .. 255))
    <3> DEFINE S == Seq(0 .. 255)
    <3>1. handled \in Seq(S) /\ p \in S BY <2>2
    <3> HIDE DEF S
    <3>2. Append(handled, p) \in Seq(S) BY <3>1, AppendProperties
    <3>3. QED BY <3>2 DEF S
  <2>4. cnt' = 0 BY <1>2 DEF Gather
  <2>5. QED BY <1>1, <2>1, <2>3, <2>4
<1>3. CASE ~(b[1] = FLAG /\ b[filled] = FLAG)
  <2>1. handled' = handled /\ cnt' = IF filled >= BufferSize THEN 0 ELSE filled
    BY <1>3 DEF Gather
  <2>2. QED BY <1>1, <2>1
<1>4. QED BY <1>2, <1>3

\* The bounds of a read.
LEMMA ReadBounds ==
  ASSUME TypeOK, NEW k, Read(k)
  PROVE  /\ k \in Nat /\ 1 <= k /\ k <= Len(wire) /\ Len(wire) \in Nat
         /\ cnt \in Nat /\ cnt + k <= BufferSize /\ cnt + k \in 1 .. BufferSize
<1> DEFINE n == Len(wire)
<1>1. n \in Nat /\ cnt \in 0 .. BufferSize - 1 BY DEF TypeOK
<1>2. BufferSize \in Nat BY PayloadsAssumption
<1>3. k \in 1 .. AtMost(n, BufferSize - cnt) BY DEF Read
<1> HIDE DEF n
<1>4. k \in Nat /\ 1 <= k /\ k <= n /\ k <= BufferSize - cnt
  BY <1>1, <1>2, <1>3 DEF AtMost
<1>5. cnt \in Nat /\ cnt + k <= BufferSize /\ cnt + k \in 1 .. BufferSize
  BY <1>1, <1>2, <1>4
<1>6. QED BY <1>1, <1>4, <1>5 DEF n

\* What a read leaves in the buffer, and on the wire.
LEMMA ReadBytes ==
  ASSUME TypeOK, NEW k, Read(k)
  PROVE  /\ buffer' \in [1 .. BufferSize -> 0 .. 255]
         /\ wire' \in Seq(0 .. 255) /\ Len(wire') = Len(wire) - k
         /\ \A i \in 1 .. BufferSize : buffer'[i] = IF i \in cnt + 1 .. cnt + k
                                                    THEN wire[i - cnt] ELSE buffer[i]
         /\ \A i \in 1 .. Len(wire) - k : wire'[i] = wire[k + i]
<1> DEFINE n == Len(wire)
<1>1. /\ k \in Nat /\ 1 <= k /\ k <= n /\ n \in Nat /\ cnt \in Nat BY ReadBounds
<1>2. \A i \in 1 .. n : wire[i] \in 0 .. 255 BY ElementOfSeq DEF TypeOK
<1>3. buffer \in [1 .. BufferSize -> 0 .. 255] BY DEF TypeOK
<1>4. buffer' = [i \in 1 .. BufferSize |->
                   IF i \in cnt + 1 .. cnt + k THEN wire[i - cnt] ELSE buffer[i]]
  BY DEF Read
<1>5. wire' = SubSeq(wire, k + 1, n) BY DEF Read
<1> HIDE DEF n
<1>6. \A i \in cnt + 1 .. cnt + k : i - cnt \in 1 .. n BY <1>1
<1>7. buffer' \in [1 .. BufferSize -> 0 .. 255] BY <1>2, <1>3, <1>4, <1>6
<1>8. /\ k + 1 \in Int /\ n \in Int /\ n - (k + 1) + 1 = n - k
      /\ \A i \in k + 1 .. n : i \in 1 .. n
      /\ \A i \in 1 .. n - k : k + 1 + i - 1 = k + i
  BY <1>1
<1>9. \A i \in k + 1 .. n : wire[i] \in 0 .. 255 BY <1>2, <1>8
<1>10. /\ wire' \in Seq(0 .. 255)
       /\ Len(wire') = IF k + 1 <= n THEN n - (k + 1) + 1 ELSE 0
       /\ \A i \in 1 .. n - (k + 1) + 1 : wire'[i] = wire[k + 1 + i - 1]
  BY <1>5, <1>8, <1>9, SubSeqProperties
<1>11. Len(wire') = n - k BY <1>1, <1>10
<1>12. \A i \in 1 .. n - k : wire'[i] = wire[k + i] BY <1>8, <1>10
<1>13. QED BY <1>4, <1>7, <1>10, <1>11, <1>12 DEF n

\* Every step keeps the types.
LEMMA TypeStep == TypeOK /\ [Next]_vars => TypeOK'
<1> SUFFICES ASSUME TypeOK, [Next]_vars
             PROVE  TypeOK'
  OBVIOUS
<1>1. ASSUME NEW p \in Payloads, Send(p)
      PROVE  TypeOK'
  <2>1. sent' = Append(sent, p) /\ Len(sent) < MaxFrames /\ wire' = wire \o Frame(p)
        /\ UNCHANGED <<buffer, cnt, handled, apart>>
    BY <1>1 DEF Send
  <2>2. sent \in Seq(Payloads) /\ MaxFrames \in Nat BY PayloadsAssumption DEF TypeOK
  <2>3. sent' \in Seq(Payloads) /\ Len(sent') = Len(sent) + 1
    BY <2>1, <2>2, AppendProperties
  <2>4. Len(sent') <= MaxFrames
    <3>1. Len(sent) \in Nat BY <2>2
    <3>2. QED BY <2>1, <2>2, <2>3, <3>1
  <2>5. wire' \in Seq(0 .. 255)
    <3>1. wire \in Seq(0 .. 255) /\ Frame(p) \in Seq(0 .. 255) BY FrameBytes DEF TypeOK
    <3>2. QED BY <2>1, <3>1, JoinedBytes
  <2>6. QED BY <2>1, <2>3, <2>4, <2>5 DEF TypeOK
<1>2. ASSUME NEW k \in 1 .. BufferSize, Read(k)
      PROVE  TypeOK'
  <2>1. cnt + k \in 1 .. BufferSize BY <1>2, ReadBounds
  <2>2. buffer' \in [1 .. BufferSize -> 0 .. 255] /\ wire' \in Seq(0 .. 255)
    BY <1>2, ReadBytes
  <2>3. Gather(buffer', cnt + k) /\ handled \in Seq(Seq(0 .. 255)) BY <1>2 DEF Read, TypeOK
  <2>4. cnt' \in 0 .. BufferSize - 1 /\ handled' \in Seq(Seq(0 .. 255))
    BY <2>1, <2>2, <2>3, GatherType
  <2>5. sent' = sent /\ apart' \in BOOLEAN BY <1>2 DEF Read, TypeOK, KeepsApart
  <2>6. QED BY <2>2, <2>4, <2>5 DEF TypeOK
<1>3. CASE UNCHANGED vars BY <1>3 DEF TypeOK, vars
<1>4. QED BY <1>1, <1>2, <1>3 DEF Next

\* So do the first states.
LEMMA InitType == Init => TypeOK
<1> SUFFICES ASSUME Init
             PROVE  TypeOK
  OBVIOUS
<1>1. BufferSize \in Nat /\ BufferSize >= 8 /\ MaxFrames \in Nat BY PayloadsAssumption
<1>2. PICK b \in Stale : buffer = [i \in 1 .. BufferSize |-> b] BY DEF Init
<1>3. b \in 0 .. 255 BY StaleAssumption
<1>4. buffer \in [1 .. BufferSize -> 0 .. 255] BY <1>2, <1>3
<1>5. sent = <<>> /\ wire = <<>> /\ handled = <<>> /\ cnt = 0 /\ apart = TRUE BY DEF Init
<1>6. Len(sent) = 0 BY <1>5
<1>7. QED BY <1>1, <1>4, <1>5, <1>6 DEF TypeOK

\* The variables have their types.
THEOREM TypeCorrect == Spec => []TypeOK BY InitType, TypeStep, PTL DEF Spec

\* The checksum of whatever bytes are gathered is the CCITT remainder that
\* protocol.txt describes.
THEOREM ChecksumCorrect == Spec => []ChecksumIsRemainder
<1>1. TypeOK => ChecksumIsRemainder
  <2> SUFFICES ASSUME TypeOK
               PROVE  ChecksumIsRemainder
    OBVIOUS
  <2> DEFINE gathered == SubSeq(buffer, 1, cnt)
  <2>1. BufferSize \in Nat /\ cnt \in 0 .. BufferSize - 1
        /\ buffer \in [1 .. BufferSize -> 0 .. 255]
    BY PayloadsAssumption DEF TypeOK
  <2>2. 1 \in Int /\ cnt \in Int /\ \A i \in 1 .. cnt : buffer[i] \in 0 .. 255 BY <2>1
  <2>3. gathered \in Seq(0 .. 255) BY <2>2, SubSeqProperties
  <2>4. Len(gathered) \in Nat BY <2>3
  <2> HIDE DEF gathered
  <2>5. crc16_calculate(gathered) = Remainder(Degrees(gathered), 8 * Len(gathered))
    BY <2>4, CrcIsRemainder
  <2>6. QED BY <2>5 DEF ChecksumIsRemainder, gathered
<1>2. QED BY <1>1, TypeCorrect, PTL

-----------------------------------------------------------------------------
(***************************************************************************)
(* Reassembly.                                                             *)
(***************************************************************************)
\* Byte x of what has been gathered, or is to be read, and is not handed on.
Unhandled(x) == IF x <= cnt THEN buffer[x] ELSE wire[x - cnt]

\* From there on, up to the end of what was sent, the frames lie one behind another.
FramesFrom(i) ==
  \A j \in i + 1 .. Len(sent) : \A m \in 1 .. FrameLength(sent[j]) :
    Unhandled(EndOf(sent, j - 1) - EndOf(sent, i) + m) = Frame(sent[j])[m]

\* The frames handed on are the first ones sent, in order.  What is gathered is a
\* part of the next frame, short of its end, and with the bytes still to be read it
\* makes up the rest of what was sent.
InTurn ==
  LET i == Len(handled)
  IN /\ i <= Len(sent) /\ handled = SubSeq(sent, 1, i)
     /\ cnt + Len(wire) = EndOf(sent, Len(sent)) - EndOf(sent, i)
     /\ i < Len(sent) => cnt < FrameLength(sent[i + 1])
     /\ FramesFrom(i)

IInv == TypeOK /\ (apart => InTurn)

\* The ends of the frames that were sent.
LEMMA SentEnds ==
  ASSUME TypeOK
  PROVE  /\ sent \in Seq(Payloads) /\ Len(sent) \in Nat
         /\ \A i \in 1 .. Len(sent) : sent[i] \in Payloads
         /\ EndOf(sent, 0) = 0
         /\ \A i \in 0 .. Len(sent) : EndOf(sent, i) \in Nat
         /\ \A i \in 1 .. Len(sent) : EndOf(sent, i) = EndOf(sent, i - 1) + FrameLength(sent[i])
         /\ \A i \in 0 .. Len(sent) : \A j \in i .. Len(sent) : EndOf(sent, i) <= EndOf(sent, j)
<1>1. sent \in Seq(Payloads) /\ Len(sent) \in Nat BY DEF TypeOK
<1>2. \A i \in 1 .. Len(sent) : sent[i] \in Payloads BY <1>1, ElementOfSeq
<1>3. \A i \in 1 .. Len(sent) : FrameLength(sent[i]) \in Nat BY <1>2, PayloadFacts
<1>4. /\ EndOf(sent, 0) = 0
      /\ \A i \in 0 .. Len(sent) : EndOf(sent, i) \in Nat
      /\ \A i \in 1 .. Len(sent) : EndOf(sent, i) = EndOf(sent, i - 1) + FrameLength(sent[i])
  BY <1>1, <1>3, EndOfStep
<1>5. \A i \in 0 .. Len(sent) : \A j \in i .. Len(sent) : EndOf(sent, i) <= EndOf(sent, j)
  BY <1>1, <1>3, EndOfGrows
<1>6. QED BY <1>1, <1>2, <1>4, <1>5

\* The parts of InTurn, as numbers.
LEMMA TurnFacts ==
  ASSUME TypeOK, InTurn
  PROVE  /\ Len(handled) \in 0 .. Len(sent)
         /\ Len(handled) = Len(sent) => cnt = 0 /\ Len(wire) = 0
         /\ BytesRead = EndOf(sent, Len(handled)) + cnt
         /\ Len(handled) < Len(sent) =>
              /\ Len(handled) + 1 \in 1 .. Len(sent)
              /\ sent[Len(handled) + 1] \in Payloads
              /\ EndOf(sent, Len(handled) + 1)
                   = EndOf(sent, Len(handled)) + FrameLength(sent[Len(handled) + 1])
<1> DEFINE i == Len(handled)
           n == Len(sent)
           w == Len(wire)
<1>1. i \in Nat /\ n \in Nat /\ w \in Nat /\ cnt \in Nat BY DEF TypeOK
<1>2. i <= n /\ cnt + w = EndOf(sent, n) - EndOf(sent, i) BY DEF InTurn
<1>3. /\ \A j \in 1 .. n : sent[j] \in Payloads
      /\ \A j \in 0 .. n : EndOf(sent, j) \in Nat
      /\ \A j \in 1 .. n : EndOf(sent, j) = EndOf(sent, j - 1) + FrameLength(sent[j])
  BY SentEnds
<1>4. BytesRead = EndOf(sent, n) - w BY DEF BytesRead
<1> HIDE DEF i, n, w
<1>5. i \in 0 .. n /\ n \in 0 .. n BY <1>1, <1>2
<1>6. EndOf(sent, i) \in Nat /\ EndOf(sent, n) \in Nat BY <1>3, <1>5
<1>7. i = n => cnt = 0 /\ w = 0 BY <1>1, <1>2, <1>6
<1>8. BytesRead = EndOf(sent, i) + cnt BY <1>1, <1>2, <1>4, <1>6
<1>9. ASSUME i < n
      PROVE  /\ i + 1 \in 1 .. n /\ sent[i + 1] \in Payloads
             /\ EndOf(sent, i + 1) = EndOf(sent, i) + FrameLength(sent[i + 1])
  <2>1. i + 1 \in 1 .. n /\ (i + 1) - 1 = i BY <1>1, <1>9
  <2>2. QED BY <1>3, <2>1
<1>10. QED BY <1>5, <1>7, <1>8, <1>9 DEF i, n, w

\* Frames in their turn are handed on once.
LEMMA InTurnOnce == TypeOK /\ InTurn => HandledOnce
<1> SUFFICES ASSUME TypeOK, InTurn
             PROVE  HandledOnce
  OBVIOUS
<1> DEFINE i == Len(handled)
           n == Len(sent)
           Done == {j \in DOMAIN sent : EndOf(sent, j) <= BytesRead}
<1>1. /\ i \in 0 .. n /\ BytesRead = EndOf(sent, i) + cnt
      /\ i = n => cnt = 0
      /\ i < n => /\ i + 1 \in 1 .. n /\ sent[i + 1] \in Payloads
                  /\ EndOf(sent, i + 1) = EndOf(sent, i) + FrameLength(sent[i + 1])
  BY TurnFacts
<1>2. /\ n \in Nat /\ DOMAIN sent = 1 .. n
      /\ \A j \in 0 .. n : EndOf(sent, j) \in Nat
      /\ \A j \in 0 .. n : \A l \in j .. n : EndOf(sent, j) <= EndOf(sent, l)
  BY SentEnds
<1>3. handled = SubSeq(sent, 1, i) /\ (i < n => cnt < FrameLength(sent[i + 1])) BY DEF InTurn
<1>4. cnt \in Nat BY DEF TypeOK
<1> HIDE DEF i, n
<1>5. ASSUME NEW j \in 1 .. n
      PROVE  EndOf(sent, j) <= BytesRead <=> j <= i
  <2>1. j \in 0 .. n /\ EndOf(sent, i) \in Nat /\ EndOf(sent, j) \in Nat BY <1>1, <1>2
  <2>2. CASE j <= i
    <3>1. i \in j .. n BY <1>1, <1>2, <2>2
    <3>2. EndOf(sent, j) <= EndOf(sent, i) BY <1>2, <2>1, <3>1
    <3>3. QED BY <1>1, <1>4, <2>1, <2>2, <3>2
  <2>3. CASE ~(j <= i)
    <3>1. i < n /\ i + 1 \in 0 .. n /\ j \in i + 1 .. n BY <1>1, <1>2, <2>3
    <3>2. EndOf(sent, i + 1) <= EndOf(sent, j) BY <1>2, <3>1
    <3>3. FrameLength(sent[i + 1]) \in Nat BY <1>1, <3>1, PayloadFacts
    <3>4. QED BY <1>1, <1>3, <1>4, <2>1, <2>3, <3>1, <3>2, <3>3
  <2>4. QED BY <2>2, <2>3
<1>6. Done = 1 .. i
  <2>1. \A j : j \in 1 .. i <=> j \in 1 .. n /\ j <= i BY <1>1, <1>2
  <2>2. QED BY <1>2, <1>5, <2>1
<1>7. Cardinality(1 .. i) = i
  <2>1. i \in Nat /\ 1 \in Int /\ i \in Int BY <1>1, <1>2
  <2>2. Cardinality(1 .. i) = IF 1 > i THEN 0 ELSE i - 1 + 1 BY <2>1, FS_Interval
  <2>3. QED BY <2>1, <2>2
<1>8. QED BY <1>3, <1>6, <1>7 DEF HandledOnce

\* The bytes of the frames not handed on lie among what is gathered or unread, and
\* those of the frames after the next one lie beyond the next one.
LEMMA BytePlaces ==
  ASSUME TypeOK, InTurn, NEW j \in Len(handled) + 1 .. Len(sent),
         NEW m \in 1 .. FrameLength(sent[j])
  PROVE  LET x == EndOf(sent, j - 1) - EndOf(sent, Len(handled)) + m
         IN /\ x \in 1 .. cnt + Len(wire)
            /\ Unhandled(x) = Frame(sent[j])[m]
            /\ j # Len(handled) + 1 => x > FrameLength(sent[Len(handled) + 1])
<1> DEFINE i == Len(handled)
           n == Len(sent)
           w == Len(wire)
           F == FrameLength(sent[j])
           x == EndOf(sent, j - 1) - EndOf(sent, i) + m
<1>1. i \in Nat /\ n \in Nat /\ w \in Nat /\ cnt \in Nat BY DEF TypeOK
<1>2. cnt + w = EndOf(sent, n) - EndOf(sent, i) BY DEF InTurn
<1>3. /\ \A l \in 1 .. n : sent[l] \in Payloads
      /\ \A l \in 0 .. n : EndOf(sent, l) \in Nat
      /\ \A l \in 1 .. n : EndOf(sent, l) = EndOf(sent, l - 1) + FrameLength(sent[l])
      /\ \A l \in 0 .. n : \A h \in l .. n : EndOf(sent, l) <= EndOf(sent, h)
  BY SentEnds
<1>4. Unhandled(x) = Frame(sent[j])[m] BY DEF InTurn, FramesFrom
<1>5. j \in i + 1 .. n /\ m \in 1 .. F OBVIOUS
<1> HIDE DEF i, n, w, F
<1>6. /\ i \in 0 .. n /\ n \in 0 .. n /\ j \in 0 .. n /\ j - 1 \in 0 .. n /\ j \in 1 .. n
      /\ j - 1 \in i .. n /\ n \in j .. n /\ i <= n
  BY <1>1, <1>5
<1>7. /\ EndOf(sent, i) \in Nat /\ EndOf(sent, n) \in Nat
      /\ EndOf(sent, j) \in Nat /\ EndOf(sent, j - 1) \in Nat
      /\ EndOf(sent, i) <= EndOf(sent, j - 1) /\ EndOf(sent, j) <= EndOf(sent, n)
  BY <1>3, <1>6
<1>8. EndOf(sent, j) = EndOf(sent, j - 1) + F BY <1>3, <1>6 DEF F
<1>9. F \in Nat
  <2>1. sent[j] \in Payloads BY <1>3, <1>6
  <2>2. QED BY <2>1, PayloadFacts DEF F
<1>10. x \in 1 .. cnt + w BY <1>1, <1>2, <1>5, <1>7, <1>8, <1>9
<1>11. ASSUME j # i + 1
       PROVE  x > FrameLength(sent[i + 1])
  <2>1. i + 1 \in 1 .. n /\ (i + 1) - 1 = i /\ i + 1 \in 0 .. n /\ j - 1 \in i + 1 .. n
    BY <1>1, <1>5, <1>6, <1>11
  <2>2. /\ EndOf(sent, i + 1) = EndOf(sent, i) + FrameLength(sent[i + 1])
        /\ EndOf(sent, i + 1) \in Nat /\ EndOf(sent, i + 1) <= EndOf(sent, j - 1)
    BY <1>3, <1>6, <2>1
  <2>3. FrameLength(sent[i + 1]) \in Nat
    <3>1. sent[i + 1] \in Payloads BY <1>3, <2>1
    <3>2. QED BY <3>1, PayloadFacts
  <2>4. QED BY <1>5, <1>7, <1>9, <2>2, <2>3
<1>12. QED BY <1>4, <1>10, <1>11 DEF i, w

\* A frame more goes to the end of what is unread.
LEMMA SendInTurn ==
  ASSUME TypeOK, InTurn, NEW p \in Payloads, Send(p)
  PROVE  InTurn'
<1> DEFINE i == Len(handled)
           n == Len(sent)
           w == Len(wire)
           t == Append(sent, p)
           F == FrameLength(p)
<1>1. i \in Nat /\ n \in Nat /\ w \in Nat /\ cnt \in Nat BY DEF TypeOK
<1>2. /\ sent' = t /\ wire' = wire \o Frame(p)
      /\ cnt' = cnt /\ buffer' = buffer /\ handled' = handled
  BY DEF Send
<1>3. /\ sent \in Seq(Payloads) /\ \A j \in 1 .. n : sent[j] \in Payloads
      /\ \A j \in 0 .. n : EndOf(sent, j) \in Nat
  BY SentEnds
<1>4. /\ t \in Seq(Payloads) /\ Len(t) = n + 1 /\ t[n + 1] = p
      /\ \A j \in 1 .. n : t[j] = sent[j]
  BY <1>3, AppendProperties
<1>5. F \in Nat /\ 1 <= F
  <2> DEFINE L == Len(p)
  <2>1. L \in Nat /\ F = L + 7 BY PayloadFacts
  <2> HIDE DEF L, F
  <2>2. QED BY <2>1
<1>6. /\ \A j \in 0 .. n : EndOf(t, j) = EndOf(sent, j)
      /\ EndOf(t, n + 1) = EndOf(sent, n) + F
  <2>1. \A q \in Payloads : FrameLength(q) \in Nat BY PayloadFacts
  <2>2. QED BY <1>3, <2>1, EndOfAppend
<1>7. /\ Len(wire') = w + F /\ \A y \in 1 .. w : wire'[y] = wire[y]
      /\ \A m \in 1 .. F : wire'[w + m] = Frame(p)[m]
  <2>1. Frame(p) \in Seq(0 .. 255) /\ wire \in Seq(0 .. 255) BY FrameBytes DEF TypeOK
  <2>2. /\ Len(wire \o Frame(p)) = Len(wire) + Len(Frame(p))
        /\ \A y \in 1 .. Len(wire) : (wire \o Frame(p))[y] = wire[y]
        /\ \A m \in 1 .. Len(Frame(p)) : (wire \o Frame(p))[Len(wire) + m] = Frame(p)[m]
    BY <2>1, JoinedBytes
  <2>3. Len(Frame(p)) = F BY FrameBytes
  <2>4. QED BY <1>2, <2>2, <2>3
<1>8. /\ i <= n /\ handled = SubSeq(sent, 1, i)
      /\ cnt + w = EndOf(sent, n) - EndOf(sent, i)
      /\ i < n => cnt < FrameLength(sent[i + 1])
  BY DEF InTurn
<1>9. i = n => cnt = 0 BY TurnFacts
<1>10. \A j \in i + 1 .. n : \A m \in 1 .. FrameLength(sent[j]) :
         LET x == EndOf(sent, j - 1) - EndOf(sent, i) + m
         IN /\ x \in 1 .. cnt + w
            /\ (IF x <= cnt THEN buffer[x] ELSE wire[x - cnt]) = Frame(sent[j])[m]
  BY BytePlaces DEF Unhandled
<1>11. Len(sent') = n + 1 /\ Len(handled') = i BY <1>2, <1>4
<1> HIDE DEF i, n, w, F, t
<1>12. i <= n + 1 /\ handled' = SubSeq(sent', 1, i)
  <2>1. 1 \in Int /\ i \in Int /\ \A l \in 1 .. i : l \in 1 .. n BY <1>1, <1>8
  <2>2. /\ \A l \in 1 .. i : sent[l] \in Payloads
        /\ \A l \in 1 .. i : t[l] \in Payloads /\ t[l] = sent[l]
    BY <1>3, <1>4, <2>1
  <2>3. /\ SubSeq(sent, 1, i) \in Seq(Payloads)
        /\ Len(SubSeq(sent, 1, i)) = IF 1 <= i THEN i - 1 + 1 ELSE 0
        /\ \A l \in 1 .. i - 1 + 1 : SubSeq(sent, 1, i)[l] = sent[1 + l - 1]
    BY <2>1, <2>2, SubSeqProperties
  <2>4. /\ SubSeq(t, 1, i) \in Seq(Payloads)
        /\ Len(SubSeq(t, 1, i)) = IF 1 <= i THEN i - 1 + 1 ELSE 0
        /\ \A l \in 1 .. i - 1 + 1 : SubSeq(t, 1, i)[l] = t[1 + l - 1]
    BY <2>1, <2>2, SubSeqProperties
  <2>5. Len(SubSeq(sent, 1, i)) = i /\ Len(SubSeq(t, 1, i)) = i /\ i - 1 + 1 = i
        /\ \A l \in 1 .. i : 1 + l - 1 = l
    BY <1>1, <2>3, <2>4
  <2>6. \A l \in 1 .. i : SubSeq(t, 1, i)[l] = SubSeq(sent, 1, i)[l]
    BY <2>2, <2>3, <2>4, <2>5
  <2>7. SubSeq(t, 1, i) = SubSeq(sent, 1, i) BY <2>3, <2>4, <2>5, <2>6, SeqEqual
  <2>8. QED BY <1>1, <1>2, <1>8, <2>7
<1>13. i \in 0 .. n /\ n \in 0 .. n BY <1>1, <1>8
<1>14. EndOf(sent, i) \in Nat /\ EndOf(sent, n) \in Nat /\ EndOf(t, i) = EndOf(sent, i)
  BY <1>3, <1>6, <1>13
<1>15. cnt' + Len(wire') = EndOf(sent', n + 1) - EndOf(sent', i)
  <2> DEFINE e == EndOf(sent, n)
             b == EndOf(sent, i)
  <2>1. cnt' = cnt /\ Len(wire') = w + F BY <1>2, <1>7
  <2>2. EndOf(sent', n + 1) = e + F /\ EndOf(sent', i) = b BY <1>2, <1>6, <1>14
  <2>3. cnt + w = e - b /\ e \in Nat /\ b \in Nat BY <1>8, <1>14
  <2> HIDE DEF e, b
  <2>4. cnt + (w + F) = (e + F) - b BY <1>1, <1>5, <2>3
  <2>5. QED BY <2>1, <2>2, <2>4
<1>16. cnt' < FrameLength(sent'[i + 1])
  <2>1. CASE i < n
    <3>1. i + 1 \in 1 .. n BY <1>1, <2>1
    <3>2. QED BY <1>2, <1>4, <1>8, <2>1, <3>1
  <2>2. CASE i = n
    <3>1. sent'[i + 1] = p BY <1>2, <1>4, <2>2
    <3>2. QED BY <1>2, <1>5, <1>9, <2>2, <3>1 DEF F
  <2>3. QED BY <1>1, <1>8, <2>1, <2>2
<1>17. ASSUME NEW j \in i + 1 .. n + 1, NEW m \in 1 .. FrameLength(sent'[j])
       PROVE  LET x == EndOf(sent', j - 1) - EndOf(sent', i) + m
              IN (IF x <= cnt' THEN buffer'[x] ELSE wire'[x - cnt']) = Frame(sent'[j])[m]
  <2>1. CASE j <= n
    <3> DEFINE x == EndOf(sent, j - 1) - EndOf(sent, i) + m
    <3>1. j \in 1 .. n /\ j \in i + 1 .. n /\ j - 1 \in 0 .. n BY <1>1, <2>1
    <3>2. sent'[j] = sent[j] /\ EndOf(sent', j - 1) = EndOf(sent, j - 1) BY <1>2, <1>4, <1>6, <3>1
    <3>3. m \in 1 .. FrameLength(sent[j]) BY <3>2
    <3>4. /\ x \in 1 .. cnt + w
          /\ (IF x <= cnt THEN buffer[x] ELSE wire[x - cnt]) = Frame(sent[j])[m]
      BY <1>10, <3>1, <3>3
    <3>5. x = EndOf(sent', j - 1) - EndOf(sent', i) + m BY <1>2, <1>14, <3>2
    <3> HIDE DEF x
    <3>6. ~(x <= cnt) => wire'[x - cnt] = wire[x - cnt]
      <4>1. ASSUME ~(x <= cnt)
            PROVE  x - cnt \in 1 .. w
        BY <1>1, <3>4, <4>1
      <4>2. QED BY <1>7, <4>1
    <3>7. (IF x <= cnt' THEN buffer'[x] ELSE wire'[x - cnt']) = Frame(sent'[j])[m]
      BY <1>2, <3>2, <3>4, <3>6
    <3>8. QED BY <3>5, <3>7
  <2>2. CASE ~(j <= n)
    <3> DEFINE x == EndOf(sent', j - 1) - EndOf(sent', i) + m
    <3>1. j = n + 1 /\ j - 1 = n BY <1>1, <2>2
    <3>2. sent'[j] = p /\ m \in 1 .. F BY <1>2, <1>4, <3>1 DEF F
    <3>3. EndOf(sent', j - 1) = EndOf(sent, n) /\ EndOf(sent', i) = EndOf(sent, i)
      BY <1>2, <1>6, <1>13, <3>1
    <3>4. x = cnt + w + m BY <1>1, <1>8, <1>14, <3>2, <3>3
    <3> HIDE DEF x
    <3>5. ~(x <= cnt) /\ x - cnt = w + m BY <1>1, <1>5, <3>2, <3>4
    <3>6. (IF x <= cnt' THEN buffer'[x] ELSE wire'[x - cnt']) = Frame(sent'[j])[m]
      BY <1>2, <1>7, <3>2, <3>5
    <3>7. QED BY <3>6 DEF x
  <2>3. QED BY <2>1, <2>2
<1>18. QED BY <1>11, <1>12, <1>15, <1>16, <1>17 DEF InTurn, FramesFrom, Unhandled

\* A read that keeps apart what belongs apart gathers no more than the next frame,
\* and gathers a 0x7e last only when it completes that frame.
LEMMA ReadKeepsApart ==
  ASSUME TypeOK, InTurn, NEW k, Read(k), KeepsApart(k)
  PROVE  LET q == sent[Len(handled) + 1]
         IN /\ Len(handled) < Len(sent) /\ q \in Payloads
            /\ cnt + k <= FrameLength(q)
            /\ wire[k] = FLAG => cnt + k = FrameLength(q)
<1> DEFINE i == Len(handled)
           n == Len(sent)
           w == Len(wire)
           q == sent[i + 1]
           F == FrameLength(q)
           b == EndOf(sent, i)
<1>1. i \in Nat /\ n \in Nat /\ cnt \in Nat BY DEF TypeOK
<1>2. /\ k \in Nat /\ 1 <= k /\ k <= w /\ w \in Nat BY ReadBounds
<1>3. /\ i \in 0 .. n
      /\ i = n => w = 0
      /\ BytesRead = b + cnt
      /\ i < n => /\ i + 1 \in 1 .. n /\ q \in Payloads /\ EndOf(sent, i + 1) = b + F
  BY TurnFacts
<1>4. i < n => cnt < F BY DEF InTurn
<1>5. /\ \A j \in 0 .. n : EndOf(sent, j) \in Nat
      /\ \A j \in 0 .. n : \A l \in j .. n : EndOf(sent, j) <= EndOf(sent, l)
  BY SentEnds
<1>6. /\ \A end \in FrameEnds : ~(BytesRead < end /\ end < BytesRead + k)
      /\ wire[k] = FLAG => BytesRead + k \in FrameEnds
  BY DEF KeepsApart
<1>7. FrameEnds = {EndOf(sent, j) : j \in 1 .. n} BY DEF FrameEnds
<1> HIDE DEF i, n, w, q, F, b
<1>8. i < n BY <1>1, <1>2, <1>3
<1>9. /\ i + 1 \in 1 .. n /\ q \in Payloads /\ EndOf(sent, i + 1) = b + F /\ cnt < F
  BY <1>3, <1>4, <1>8
<1>10. F \in Nat BY <1>9, PayloadFacts DEF F
<1>11. b \in Nat BY <1>3, <1>5 DEF b
<1>12. cnt + k <= F
  <2>1. b + F \in FrameEnds BY <1>7, <1>9
  <2>2. ~(b + cnt < b + F /\ b + F < b + cnt + k) BY <1>3, <1>6, <2>1
  <2>3. QED BY <1>1, <1>2, <1>9, <1>10, <1>11, <2>2
<1>13. ASSUME wire[k] = FLAG
       PROVE  cnt + k = F
  <2>1. PICK j \in 1 .. n : b + cnt + k = EndOf(sent, j) BY <1>3, <1>6, <1>7, <1>13
  <2>2. CASE j <= i
    <3>1. j \in 0 .. n /\ i \in j .. n BY <1>1, <1>3, <2>2
    <3>2. EndOf(sent, j) <= b BY <1>5, <3>1 DEF b
    <3>3. QED BY <1>1, <1>2, <1>11, <2>1, <3>2
  <2>3. CASE ~(j <= i)
    <3>1. i + 1 \in 0 .. n /\ j \in i + 1 .. n /\ j \in 0 .. n BY <1>1, <1>9, <2>3
    <3>2. EndOf(sent, i + 1) <= EndOf(sent, j) /\ EndOf(sent, j) \in Nat BY <1>5, <3>1
    <3>3. QED BY <1>1, <1>2, <1>9, <1>10, <1>11, <1>12, <2>1, <3>2
  <2>4. QED BY <2>2, <2>3
<1>14. QED BY <1>8, <1>9, <1>12, <1>13 DEF i, n, q, F

\* A read leaves what is not handed on where it lay: in the buffer up to what it
\* gathered, behind that on the wire.
LEMMA ReadUnhandled ==
  ASSUME TypeOK, NEW k, Read(k)
  PROVE  /\ \A x \in 1 .. cnt + k : buffer'[x] = Unhandled(x)
         /\ \A y \in 1 .. Len(wire) - k : wire'[y] = Unhandled(cnt + k + y)
         /\ wire[k] = Unhandled(cnt + k)
<1> DEFINE w == Len(wire)
<1>1. /\ k \in Nat /\ 1 <= k /\ k <= w /\ w \in Nat /\ cnt \in Nat /\ cnt + k <= BufferSize
      /\ BufferSize \in Nat
  BY ReadBounds, PayloadsAssumption
<1>2. /\ \A i \in 1 .. BufferSize : buffer'[i] = IF i \in cnt + 1 .. cnt + k
                                                 THEN wire[i - cnt] ELSE buffer[i]
      /\ \A i \in 1 .. w - k : wire'[i] = wire[k + i]
  BY ReadBytes
<1> HIDE DEF w
<1>3. ASSUME NEW x \in 1 .. cnt + k
      PROVE  buffer'[x] = Unhandled(x)
  <2>1. x \in 1 .. BufferSize /\ (x \in cnt + 1 .. cnt + k <=> ~(x <= cnt)) BY <1>1
  <2>2. QED BY <1>2, <2>1 DEF Unhandled
<1>4. ASSUME NEW y \in 1 .. w - k
      PROVE  wire'[y] = Unhandled(cnt + k + y)
  <2> DEFINE x == cnt + k + y
  <2>1. ~(x <= cnt) /\ x - cnt = k + y BY <1>1
  <2> HIDE DEF x
  <2>2. Unhandled(x) = wire[k + y] BY <2>1 DEF Unhandled
  <2>3. QED BY <1>2, <2>2 DEF x
<1>5. wire[k] = Unhandled(cnt + k)
  <2> DEFINE x == cnt + k
  <2>1. ~(x <= cnt) /\ x - cnt = k BY <1>1
  <2> HIDE DEF x
  <2>2. Unhandled(x) = wire[k] BY <2>1 DEF Unhandled
  <2>3. QED BY <2>2 DEF x
<1>6. QED BY <1>3, <1>4, <1>5 DEF w

\* A read that completes the next frame hands it on.
LEMMA CompleteInTurn ==
  ASSUME TypeOK, InTurn, NEW k, Read(k), KeepsApart(k),
         cnt + k = FrameLength(sent[Len(handled) + 1])
  PROVE  InTurn'
<1> DEFINE i == Len(handled)
           n == Len(sent)
           w == Len(wire)
           q == sent[i + 1]
           F == FrameLength(q)
           b == EndOf(sent, i)
           e == EndOf(sent, n)
<1>1. i \in Nat /\ n \in Nat /\ cnt \in Nat /\ cnt + k = F BY DEF TypeOK
<1>2. k \in Nat /\ 1 <= k /\ k <= w /\ w \in Nat BY ReadBounds
<1>3. i < n /\ q \in Payloads BY ReadKeepsApart
<1>4. /\ i + 1 \in 1 .. n /\ EndOf(sent, i + 1) = b + F /\ i \in 0 .. n BY <1>3, TurnFacts
<1>5. /\ q # <<>> /\ F \in Nat /\ 1 <= F /\ F <= BufferSize
  <2> DEFINE L == Len(q)
  <2>1. q # <<>> /\ L \in Nat /\ F = L + 7 /\ F <= BufferSize BY <1>3, PayloadFacts
  <2> HIDE DEF L, F
  <2>2. QED BY <2>1
<1>6. handled = SubSeq(sent, 1, i) /\ cnt + w = e - b BY DEF InTurn
<1>7. \A j \in i + 1 .. n : \A m \in 1 .. FrameLength(sent[j]) :
        LET x == EndOf(sent, j - 1) - b + m
        IN /\ x \in 1 .. cnt + w
           /\ Unhandled(x) = Frame(sent[j])[m]
           /\ j # i + 1 => x > F
  BY BytePlaces
<1>8. /\ \A x \in 1 .. cnt + k : buffer'[x] = Unhandled(x)
      /\ \A y \in 1 .. w - k : wire'[y] = Unhandled(cnt + k + y)
  BY ReadUnhandled
<1>9. buffer' \in [1 .. BufferSize -> 0 .. 255] /\ Len(wire') = w - k BY ReadBytes
<1>10. /\ sent \in Seq(Payloads) /\ \A j \in 1 .. n : sent[j] \in Payloads
       /\ \A j \in 0 .. n : EndOf(sent, j) \in Nat
  BY SentEnds
<1>11. sent' = sent /\ Gather(buffer', cnt + k) BY DEF Read
<1>12. \A m \in 1 .. F : Frame(q)[m] \in 0 .. 255
  <2>1. Frame(q) \in Seq(0 .. 255) /\ Len(Frame(q)) = F BY <1>3, FrameBytes
  <2>2. QED BY <2>1, ElementOfSeq
<1>13. Frame(q)[1] = FLAG /\ Frame(q)[F] = FLAG BY <1>3, FrameBytes
<1>14. /\ handled = SubSeq(sent, 1, i)
       /\ SubSeq(sent, 1, i + 1) = Append(handled, q)
       /\ Len(Append(handled, q)) = i + 1
  <2>1. 1 \in 1 .. n /\ i + 1 \in 1 .. n /\ (i + 1) - 1 = i BY <1>1, <1>3, <1>4
  <2>2. SubSeq(sent, 1, i + 1) = SubSeq(sent, 1, (i + 1) - 1) \o <<sent[i + 1]>>
    BY <1>10, <2>1, SubSeqRecursiveSecond
  <2>3. \A l \in 1 .. i : sent[l] \in Payloads BY <1>1, <1>3, <1>10
  <2>4. 1 \in Int /\ i \in Int BY <1>1
  <2>5. handled \in Seq(Payloads) BY <1>6, <2>3, <2>4, SubSeqProperties
  <2>6. Append(handled, q) = handled \o <<q>> /\ Len(Append(handled, q)) = Len(handled) + 1
    BY <1>3, <2>5, AppendIsConcat, AppendProperties
  <2>7. QED BY <1>6, <2>1, <2>2, <2>6
<1> HIDE DEF i, n, w, F, b, e, q
<1>15. \A m \in 1 .. F : buffer'[m] = Frame(q)[m]
  <2>1. ASSUME NEW m \in 1 .. F
        PROVE  Unhandled(m) = Frame(q)[m]
    <3>1. i + 1 \in i + 1 .. n /\ (i + 1) - 1 = i BY <1>1, <1>3
    <3>2. m \in 1 .. FrameLength(sent[i + 1]) BY DEF F, q
    <3>3. b \in Nat BY <1>4, <1>10 DEF b
    <3>4. EndOf(sent, (i + 1) - 1) - b + m = m BY <1>5, <3>1, <3>3 DEF b
    <3>5. QED BY <1>7, <3>1, <3>2, <3>4 DEF q
  <2>2. QED BY <1>1, <1>8, <2>1
<1>16. stream_data_handle(buffer') = {q} BY <1>3, <1>9, <1>15, FrameHandled DEF F
<1>17. buffer'[1] = FLAG /\ buffer'[cnt + k] = FLAG BY <1>1, <1>5, <1>13, <1>15
<1>18. handled' = Append(handled, q) /\ cnt' = 0 BY <1>5, <1>11, <1>16, <1>17 DEF Gather
<1>19. /\ Len(handled') = i + 1 /\ Len(sent') = n /\ handled' = SubSeq(sent', 1, i + 1)
       /\ i + 1 <= n
  BY <1>1, <1>3, <1>11, <1>14, <1>18 DEF n
<1>20. b \in Nat /\ e \in Nat /\ n \in 0 .. n BY <1>1, <1>4, <1>10 DEF b, e
<1>21. cnt' + Len(wire') = EndOf(sent', n) - EndOf(sent', i + 1)
  <2>1. 0 + (w - k) = e - (b + F) BY <1>1, <1>2, <1>5, <1>6, <1>20
  <2>2. QED BY <1>4, <1>9, <1>11, <1>18, <2>1 DEF e
<1>22. ASSUME i + 1 < n
       PROVE  cnt' < FrameLength(sent'[(i + 1) + 1])
  <2> DEFINE r == sent[(i + 1) + 1]
             L == Len(r)
  <2>1. (i + 1) + 1 \in 1 .. n BY <1>1, <1>22
  <2>2. r \in Payloads BY <1>10, <2>1
  <2>3. L \in Nat /\ FrameLength(r) = L + 7 BY <2>2, PayloadFacts
  <2> HIDE DEF L
  <2>4. 0 < FrameLength(r) BY <2>3
  <2>5. QED BY <1>11, <1>18, <2>4
<1>23. ASSUME NEW j \in (i + 1) + 1 .. n, NEW m \in 1 .. FrameLength(sent'[j])
       PROVE  LET x == EndOf(sent', j - 1) - EndOf(sent', i + 1) + m
              IN (IF x <= cnt' THEN buffer'[x] ELSE wire'[x - cnt']) = Frame(sent'[j])[m]
  <2> DEFINE y == EndOf(sent, j - 1) - b + m
             x == EndOf(sent', j - 1) - EndOf(sent', i + 1) + m
  <2>1. j \in i + 1 .. n /\ j # i + 1 /\ j - 1 \in 0 .. n /\ j \in 1 .. n BY <1>1
  <2>2. m \in 1 .. FrameLength(sent[j]) BY <1>11
  <2>3. y \in 1 .. cnt + w /\ Unhandled(y) = Frame(sent[j])[m] /\ y > F BY <1>7, <2>1, <2>2
  <2>4. EndOf(sent, j - 1) \in Nat /\ m \in Nat BY <1>10, <2>1
  <2>5. x = EndOf(sent, j - 1) - (b + F) + m BY <1>4, <1>11
  <2>6. y = F + x BY <1>5, <1>20, <2>4, <2>5
  <2>7. x \in Int BY <1>5, <1>20, <2>4, <2>5
  <2> HIDE DEF x, y
  <2>8. x \in 1 .. w - k /\ y = cnt + k + x /\ ~(x <= 0) /\ x - 0 = x
    BY <1>1, <1>2, <1>5, <2>3, <2>6, <2>7
  <2>9. wire'[x] = Frame(sent'[j])[m] BY <1>8, <1>11, <2>3, <2>8
  <2>10. (IF x <= cnt' THEN buffer'[x] ELSE wire'[x - cnt']) = Frame(sent'[j])[m]
    BY <1>18, <2>8, <2>9
  <2>11. QED BY <2>10 DEF x
<1>24. QED BY <1>19, <1>21, <1>22, <1>23 DEF InTurn, FramesFrom, Unhandled

\* A read that stops short of the end of the next frame keeps what it gathered.
LEMMA PartInTurn ==
  ASSUME TypeOK, InTurn, NEW k, Read(k), KeepsApart(k),
         cnt + k # FrameLength(sent[Len(handled) + 1])
  PROVE  InTurn'
<1> DEFINE i == Len(handled)
           n == Len(sent)
           w == Len(wire)
           q == sent[i + 1]
           F == FrameLength(q)
           b == EndOf(sent, i)
           e == EndOf(sent, n)
<1>1. i \in Nat /\ n \in Nat /\ cnt \in Nat /\ BufferSize \in Nat
  BY PayloadsAssumption DEF TypeOK
<1>2. k \in Nat /\ 1 <= k /\ k <= w /\ w \in Nat BY ReadBounds
<1>3. i < n /\ q \in Payloads /\ cnt + k <= F /\ wire[k] # FLAG /\ cnt + k # F
  BY ReadKeepsApart
<1>4. F \in Nat /\ F <= BufferSize BY <1>3, PayloadFacts
<1>5. handled = SubSeq(sent, 1, i) /\ cnt + w = e - b BY DEF InTurn
<1>6. \A j \in i + 1 .. n : \A m \in 1 .. FrameLength(sent[j]) :
        LET x == EndOf(sent, j - 1) - b + m
        IN x \in 1 .. cnt + w /\ Unhandled(x) = Frame(sent[j])[m]
  BY BytePlaces
<1>7. /\ \A x \in 1 .. cnt + k : buffer'[x] = Unhandled(x)
      /\ \A y \in 1 .. w - k : wire'[y] = Unhandled(cnt + k + y)
      /\ wire[k] = Unhandled(cnt + k)
  BY ReadUnhandled
<1>8. Len(wire') = w - k BY ReadBytes
<1>9. sent' = sent /\ Gather(buffer', cnt + k) BY DEF Read
<1>10. b \in Nat /\ e \in Nat
  <2>1. i \in 0 .. n /\ n \in 0 .. n BY <1>1, <1>3
  <2>2. QED BY <2>1, SentEnds
<1> HIDE DEF i, n, w, F, b, e, q
<1>11. buffer'[cnt + k] # FLAG
  <2>1. cnt + k \in 1 .. cnt + k BY <1>1, <1>2
  <2>2. QED BY <1>3, <1>7, <2>1
<1>12. handled' = handled /\ cnt' = cnt + k
  <2>1. ~(cnt + k >= BufferSize) BY <1>1, <1>2, <1>3, <1>4
  <2>2. QED BY <1>9, <1>11, <2>1 DEF Gather
<1>13. /\ Len(handled') = i /\ Len(sent') = n /\ handled' = SubSeq(sent', 1, i) /\ i <= n
  BY <1>1, <1>3, <1>5, <1>9, <1>12 DEF i, n
<1>14. cnt' + Len(wire') = EndOf(sent', n) - EndOf(sent', i)
  <2>1. (cnt + k) + (w - k) = e - b BY <1>1, <1>2, <1>5, <1>10
  <2>2. QED BY <1>8, <1>9, <1>12, <2>1 DEF e, b
<1>15. cnt' < FrameLength(sent'[i + 1])
  <2>1. cnt + k < F BY <1>1, <1>2, <1>3, <1>4
  <2>2. QED BY <1>9, <1>12, <2>1 DEF F, q
<1>16. ASSUME NEW j \in i + 1 .. n, NEW m \in 1 .. FrameLength(sent'[j])
       PROVE  LET x == EndOf(sent', j - 1) - EndOf(sent', i) + m
              IN (IF x <= cnt' THEN buffer'[x] ELSE wire'[x - cnt']) = Frame(sent'[j])[m]
  <2> DEFINE x == EndOf(sent, j - 1) - b + m
  <2>1. x \in 1 .. cnt + w /\ Unhandled(x) = Frame(sent[j])[m] BY <1>6, <1>9
  <2>2. x = EndOf(sent', j - 1) - EndOf(sent', i) + m BY <1>9 DEF b
  <2> HIDE DEF x
  <2>3. CASE x <= cnt + k
    <3>1. x \in 1 .. cnt + k BY <1>1, <1>2, <2>1, <2>3
    <3>2. buffer'[x] = Frame(sent'[j])[m] BY <1>7, <1>9, <2>1, <3>1
    <3>3. QED BY <1>12, <2>2, <2>3, <3>2
  <2>4. CASE ~(x <= cnt + k)
    <3> DEFINE y == x - (cnt + k)
    <3>1. y \in 1 .. w - k /\ cnt + k + y = x BY <1>1, <1>2, <2>1, <2>4
    <3> HIDE DEF y
    <3>2. wire'[y] = Frame(sent'[j])[m] BY <1>7, <1>9, <2>1, <3>1
    <3>3. wire'[x - cnt'] = Frame(sent'[j])[m] BY <1>12, <3>2 DEF y
    <3>4. QED BY <1>12, <2>2, <2>4, <3>3
  <2>5. QED BY <2>3, <2>4
<1>17. QED BY <1>13, <1>14, <1>15, <1>16 DEF InTurn, FramesFrom, Unhandled

\* Every step keeps IInv.
LEMMA TurnStep == IInv /\ [Next]_vars => IInv'
<1> SUFFICES ASSUME IInv, [Next]_vars
             PROVE  IInv'
  OBVIOUS
<1>1. TypeOK /\ TypeOK' BY TypeStep DEF IInv
<1>2. ASSUME NEW p \in Payloads, Send(p), apart'
      PROVE  InTurn'
  <2>1. apart BY <1>2 DEF Send
  <2>2. InTurn BY <2>1 DEF IInv
  <2>3. QED BY <1>1, <1>2, <2>2, SendInTurn
<1>3. ASSUME NEW k \in 1 .. BufferSize, Read(k), apart'
      PROVE  InTurn'
  <2>1. apart /\ KeepsApart(k) BY <1>3 DEF Read
  <2>2. InTurn BY <2>1 DEF IInv
  <2>3. CASE cnt + k = FrameLength(sent[Len(handled) + 1])
    BY <1>1, <1>3, <2>1, <2>2, <2>3, CompleteInTurn
  <2>4. CASE cnt + k # FrameLength(sent[Len(handled) + 1])
    BY <1>1, <1>3, <2>1, <2>2, <2>4, PartInTurn
  <2>5. QED BY <2>3, <2>4
<1>4. ASSUME UNCHANGED vars, apart'
      PROVE  InTurn'
  <2>1. InTurn BY <1>4 DEF IInv, vars
  <2>2. QED BY <1>4, <2>1 DEF vars, InTurn, FramesFrom, Unhandled
<1>5. QED BY <1>1, <1>2, <1>3, <1>4 DEF IInv, Next

\* However the reads cut the frames, each is handed on once and in its turn, as soon
\* as it is complete, up to the first read that ends in an inner 0x7e or joins two
\* frames.
THEOREM FramesReassembled == Spec => []ReassembledUnlessCut
<1>1. Init => IInv
  <2> SUFFICES ASSUME Init
               PROVE  IInv
    OBVIOUS
  <2>1. TypeOK BY InitType
  <2>2. sent = <<>> /\ wire = <<>> /\ handled = <<>> /\ cnt = 0 BY DEF Init
  <2>3. Len(sent) = 0 /\ Len(handled) = 0 /\ Len(wire) = 0 BY <2>2
  <2>4. EndOf(sent, 0) = 0 BY <2>1, SentEnds
  <2>5. handled = SubSeq(sent, 1, 0) BY <2>2, SubSeqEmpty
  <2>6. \A j \in 0 + 1 .. 0 : FALSE OBVIOUS
  <2>7. FramesFrom(0) BY <2>3, <2>6 DEF FramesFrom
  <2>8. InTurn BY <2>2, <2>3, <2>4, <2>5, <2>7 DEF InTurn
  <2>9. QED BY <2>1, <2>8 DEF IInv
<1>2. IInv /\ [Next]_vars => IInv' BY TurnStep
<1>3. IInv => ReassembledUnlessCut BY InTurnOnce DEF IInv, ReassembledUnlessCut
<1>4. QED BY <1>1, <1>2, <1>3, PTL DEF Spec
=============================================================================
