--------------------------- MODULE Payroll_proofs ---------------------------
(***************************************************************************)
(* The calendar, its locks, and the hours that are paid by it.             *)
(*                                                                         *)
(* What adds up is proved by induction on sets of naturals, from the       *)
(* well-foundedness of their order, first for the sums over ranges of      *)
(* numbers (days, weeks), then for the sums over finite sets (workers,     *)
(* lines of a journal entry).                                              *)
(***************************************************************************)
EXTENDS Payroll, FiniteSetTheorems, WellFoundedInduction, TLAPS

-----------------------------------------------------------------------------
(***************************************************************************)
(* Induction over the naturals, for sets of them.                          *)
(***************************************************************************)
\* A set of naturals with 0 and the successors of its members has them all.
LEMMA NatsByInduction ==
    ASSUME NEW T \in SUBSET Nat, 0 \in T, \A n \in T : n + 1 \in T
    PROVE  T = Nat
<1> SUFFICES ASSUME Nat \ T # {}
             PROVE  FALSE
  OBVIOUS
<1> DEFINE U == Nat \ T
<1>1. IsWellFoundedOn(OpToRel(<, Nat), Nat)
  BY NatLessThanWellFounded
<1>2. PICK n \in U : \A m \in U : ~ (<<m, n>> \in OpToRel(<, Nat))
  <2>1. U \subseteq Nat /\ U # {}
    OBVIOUS
  <2> HIDE DEF U
  <2> QED
    BY <1>1, <2>1, WFMin
<1>3. \A m \in U : ~(m < n)
  BY <1>2 DEF OpToRel
<1>4. n # 0 /\ n - 1 \in Nat /\ n - 1 \notin U
  BY <1>3
<1>5. (n - 1) + 1 \in T
  BY <1>4
<1> QED
  BY <1>5

-----------------------------------------------------------------------------
(***************************************************************************)
(* Sums over ranges of numbers.                                            *)
(***************************************************************************)
\* g holds the sums of f from a on.
Adds(g, f, a, b) == g = [i \in (a - 1)..b |-> IF i < a THEN 0 ELSE g[i - 1] + f[i]]

\* There are such sums for every range.
LEMMA AddsExists ==
    ASSUME NEW f, NEW a \in Int, NEW b \in Int, a <= b
    PROVE  \E g : Adds(g, f, a, b)
<1> DEFINE T == {n \in Nat : \E g : Adds(g, f, a, a - 1 + n)}
<1>1. 0 \in T
  <2> DEFINE g == [i \in (a - 1)..(a - 1 + 0) |-> 0]
  <2>1. g = [i \in (a - 1)..(a - 1 + 0) |-> IF i < a THEN 0 ELSE g[i - 1] + f[i]]
    OBVIOUS
  <2> HIDE DEF g
  <2>2. Adds(g, f, a, a - 1 + 0)
    BY <2>1 DEF Adds
  <2> QED
    BY <2>2
<1>2. ASSUME NEW n \in T
      PROVE  n + 1 \in T
  <2> DEFINE c == a - 1 + n
  <2>1. c \in Int /\ a - 1 <= c /\ a - 1 + (n + 1) = c + 1
    OBVIOUS
  <2>2. PICK h : Adds(h, f, a, c)
    OBVIOUS
  <2> HIDE DEF c
  <2> DEFINE g == [i \in (a - 1)..(c + 1) |-> IF i = c + 1 THEN h[c] + f[c + 1] ELSE h[i]]
  <2>3. ASSUME NEW i \in (a - 1)..(c + 1)
        PROVE  g[i] = IF i < a THEN 0 ELSE g[i - 1] + f[i]
    <3>1. CASE i = c + 1
      BY <2>1, <3>1
    <3>2. CASE i # c + 1
      <4>1. i \in (a - 1)..c /\ g[i] = h[i]
        BY <2>1, <3>2
      <4>2. h[i] = IF i < a THEN 0 ELSE h[i - 1] + f[i]
        BY <2>2, <4>1 DEF Adds
      <4>3. i >= a => g[i - 1] = h[i - 1]
        BY <2>1, <4>1
      <4> QED
        BY <4>1, <4>2, <4>3
    <3> QED
      BY <3>1, <3>2
  <2>4. g = [i \in (a - 1)..(c + 1) |-> IF i < a THEN 0 ELSE g[i - 1] + f[i]]
    BY <2>3
  <2> HIDE DEF g
  <2>5. Adds(g, f, a, c + 1)
    BY <2>4 DEF Adds
  <2> QED
    BY <2>1, <2>5
<1> HIDE DEF T
<1>3. T = Nat
  <2>1. T \subseteq Nat
    BY DEF T
  <2> QED
    BY <1>1, <1>2, <2>1, NatsByInduction
<1>4. b - a + 1 \in T
  BY <1>3
<1>5. PICK g : Adds(g, f, a, a - 1 + (b - a + 1))
  BY <1>4 DEF T
<1>6. a - 1 + (b - a + 1) = b
  OBVIOUS
<1> QED
  BY <1>5, <1>6

\* They do not depend on where the range ends.
LEMMA AddsAgree ==
    ASSUME NEW f, NEW a \in Int, NEW b \in Int, NEW c \in Int, b <= c, a - 1 <= b,
           NEW g, NEW h, Adds(g, f, a, b), Adds(h, f, a, c)
    PROVE  g[b] = h[b]
<1> DEFINE T == {n \in Nat : a - 1 + n <= b => g[a - 1 + n] = h[a - 1 + n]}
<1>1. \A i \in (a - 1)..b : g[i] = IF i < a THEN 0 ELSE g[i - 1] + f[i]
  BY DEF Adds
<1>2. \A i \in (a - 1)..b : h[i] = IF i < a THEN 0 ELSE h[i - 1] + f[i]
  BY DEF Adds
<1>3. 0 \in T
  BY <1>1, <1>2
<1>4. ASSUME NEW n \in T
      PROVE  n + 1 \in T
  <2> DEFINE i == a - 1 + (n + 1)
  <2>1. i \in Int /\ i - 1 = a - 1 + n /\ ~(i < a) /\ a - 1 <= i
    OBVIOUS
  <2>2. ASSUME i <= b
        PROVE  g[i] = h[i]
    <3>1. g[i - 1] = h[i - 1]
      BY <2>1, <2>2
    <3> HIDE DEF i
    <3>2. i \in (a - 1)..b
      BY <2>1, <2>2
    <3>3. g[i] = g[i - 1] + f[i] /\ h[i] = h[i - 1] + f[i]
      BY <1>1, <1>2, <2>1, <3>2
    <3> QED
      BY <3>1, <3>3
  <2> QED
    BY <2>2
<1> HIDE DEF T
<1>5. T = Nat
  <2>1. T \subseteq Nat
    BY DEF T
  <2> QED
    BY <1>3, <1>4, <2>1, NatsByInduction
<1>6. b - a + 1 \in T
  BY <1>5
<1>7. a - 1 + (b - a + 1) = b
  OBVIOUS
<1> QED
  BY <1>6, <1>7 DEF T

\* The sum over a range is the last of them.
LEMMA SumIsLast ==
    ASSUME NEW f, NEW a \in Int, NEW b \in Int, a <= b
    PROVE  \E g : Adds(g, f, a, b) /\ SumFromTo(f, a, b) = g[b]
<1> DEFINE s == CHOOSE g : Adds(g, f, a, b)
<1>1. Adds(s, f, a, b)
  BY AddsExists
<1>2. SumFromTo(f, a, b) = s[b]
  BY DEF SumFromTo, Adds
<1> HIDE DEF s
<1> QED
  BY <1>1, <1>2

\* The sum over no number.
LEMMA SumEmpty ==
    ASSUME NEW f, NEW a \in Int, NEW b \in Int, b < a
    PROVE  SumFromTo(f, a, b) = 0
BY DEF SumFromTo

\* The sum grows by the last number.
LEMMA SumStep ==
    ASSUME NEW f, NEW a \in Int, NEW b \in Int, a <= b
    PROVE  SumFromTo(f, a, b) = SumFromTo(f, a, b - 1) + f[b]
<1>1. PICK g : Adds(g, f, a, b) /\ SumFromTo(f, a, b) = g[b]
  BY SumIsLast
<1>2. /\ g[b] = g[b - 1] + f[b]
      /\ b - 1 < a => g[b - 1] = 0
  BY <1>1 DEF Adds
<1>3. SumFromTo(f, a, b - 1) = g[b - 1]
  <2>1. CASE b - 1 < a
    BY <1>2, <2>1, SumEmpty
  <2>2. CASE a <= b - 1
    <3>1. PICK h : Adds(h, f, a, b - 1) /\ SumFromTo(f, a, b - 1) = h[b - 1]
      BY <2>2, SumIsLast
    <3>2. h[b - 1] = g[b - 1]
      BY <1>1, <2>2, <3>1, AddsAgree
    <3> QED
      BY <3>1, <3>2
  <2> QED
    BY <2>1, <2>2
<1> QED
  BY <1>1, <1>2, <1>3

\* Induction from one number up to another.
LEMMA UpByInduction ==
    ASSUME NEW a \in Int, NEW b \in Int, a <= b, NEW S,
           a \in S, \A i \in a..(b - 1) : i \in S => i + 1 \in S
    PROVE  b \in S
<1> DEFINE T == {n \in Nat : a + n <= b => a + n \in S}
<1>1. 0 \in T
  OBVIOUS
<1>2. ASSUME NEW n \in T
      PROVE  n + 1 \in T
  <2>1. ASSUME a + (n + 1) <= b
        PROVE  a + (n + 1) \in S
    <3>1. a + n \in a..(b - 1) /\ a + n \in S
      BY <2>1
    <3>2. (a + n) + 1 \in S /\ (a + n) + 1 = a + (n + 1)
      BY <3>1
    <3> QED
      BY <3>2
  <2> QED
    BY <2>1
<1> HIDE DEF T
<1>3. T = Nat
  <2>1. T \subseteq Nat
    BY DEF T
  <2> QED
    BY <1>1, <1>2, <2>1, NatsByInduction
<1>4. b - a \in T /\ a + (b - a) = b
  BY <1>3
<1> QED
  BY <1>4 DEF T

\* Naturals add up to a natural.
LEMMA SumNat ==
    ASSUME NEW f, NEW a \in Int, NEW b \in Int, \A i \in a..b : f[i] \in Nat
    PROVE  SumFromTo(f, a, b) \in Nat
<1>1. CASE b < a
  BY <1>1, SumEmpty
<1>2. CASE a <= b
  <2> DEFINE S == {i \in (a - 1)..b : SumFromTo(f, a, i) \in Nat}
  <2>1. a - 1 \in S
    BY <1>2, SumEmpty
  <2>2. ASSUME NEW i \in (a - 1)..(b - 1), i \in S
        PROVE  i + 1 \in S
    <3>1. i + 1 \in a..b /\ (i + 1) - 1 = i
      OBVIOUS
    <3>2. SumFromTo(f, a, i + 1) = SumFromTo(f, a, i) + f[i + 1]
      BY <3>1, SumStep
    <3> QED
      BY <2>2, <3>1, <3>2
  <2> HIDE DEF S
  <2>3. b \in S
    BY <1>2, <2>1, <2>2, UpByInduction
  <2> QED
    BY <2>3 DEF S
<1> QED
  BY <1>1, <1>2

\* The sum of sums.
LEMMA SumPlus ==
    ASSUME NEW f, NEW g, NEW h, NEW a \in Int, NEW b \in Int,
           \A i \in a..b : f[i] \in Nat /\ g[i] \in Nat /\ h[i] = f[i] + g[i]
    PROVE  SumFromTo(h, a, b) = SumFromTo(f, a, b) + SumFromTo(g, a, b)
<1>1. CASE b < a
  BY <1>1, SumEmpty
<1>2. CASE a <= b
  <2> DEFINE S == {i \in (a - 1)..b :
                    SumFromTo(h, a, i) = SumFromTo(f, a, i) + SumFromTo(g, a, i)}
  <2>1. a - 1 \in S
    <3>1. SumFromTo(h, a, a - 1) = 0 /\ SumFromTo(f, a, a - 1) = 0 /\ SumFromTo(g, a, a - 1) = 0
      BY SumEmpty
    <3> QED
      BY <1>2, <3>1
  <2>2. ASSUME NEW i \in (a - 1)..(b - 1), i \in S
        PROVE  i + 1 \in S
    <3>1. i + 1 \in a..b /\ (i + 1) - 1 = i
      OBVIOUS
    <3>2. /\ SumFromTo(f, a, i + 1) = SumFromTo(f, a, i) + f[i + 1]
          /\ SumFromTo(g, a, i + 1) = SumFromTo(g, a, i) + g[i + 1]
          /\ SumFromTo(h, a, i + 1) = SumFromTo(h, a, i) + h[i + 1]
      BY <3>1, SumStep
    <3>3. SumFromTo(f, a, i) \in Nat /\ SumFromTo(g, a, i) \in Nat
      BY SumNat
    <3> QED
      BY <2>2, <3>1, <3>2, <3>3
  <2> HIDE DEF S
  <2>3. b \in S
    BY <1>2, <2>1, <2>2, UpByInduction
  <2> QED
    BY <2>3 DEF S
<1> QED
  BY <1>1, <1>2

\* A range in two parts.
LEMMA SumSplit ==
    ASSUME NEW f, NEW a \in Int, NEW m \in Int, NEW b \in Int, a - 1 <= m, m <= b,
           \A i \in a..b : f[i] \in Nat
    PROVE  SumFromTo(f, a, b) = SumFromTo(f, a, m) + SumFromTo(f, m + 1, b)
<1> DEFINE S == {i \in m..b : SumFromTo(f, a, i) = SumFromTo(f, a, m) + SumFromTo(f, m + 1, i)}
<1>1. SumFromTo(f, a, m) \in Nat
  BY SumNat
<1>2. m \in S
  <2>1. SumFromTo(f, m + 1, m) = 0
    BY SumEmpty
  <2> QED
    BY <1>1, <2>1
<1>3. ASSUME NEW i \in m..(b - 1), i \in S
      PROVE  i + 1 \in S
  <2>1. i + 1 \in a..b /\ m + 1 <= i + 1 /\ (i + 1) - 1 = i
    OBVIOUS
  <2>2. /\ SumFromTo(f, a, i + 1) = SumFromTo(f, a, i) + f[i + 1]
        /\ SumFromTo(f, m + 1, i + 1) = SumFromTo(f, m + 1, i) + f[i + 1]
    BY <2>1, SumStep
  <2>3. SumFromTo(f, m + 1, i) \in Nat /\ f[i + 1] \in Nat
    BY <2>1, SumNat
  <2> QED
    BY <1>1, <1>3, <2>1, <2>2, <2>3
<1> HIDE DEF S
<1>4. b \in S
  BY <1>2, <1>3, UpByInduction
<1> QED
  BY <1>4 DEF S

\* The sum looks at nothing but the numbers of its range.
LEMMA SumSame ==
    ASSUME NEW f, NEW g, NEW a \in Int, NEW b \in Int, \A i \in a..b : f[i] = g[i]
    PROVE  SumFromTo(f, a, b) = SumFromTo(g, a, b)
<1>1. CASE b < a
  BY <1>1, SumEmpty
<1>2. CASE a <= b
  <2> DEFINE S == {i \in (a - 1)..b : SumFromTo(f, a, i) = SumFromTo(g, a, i)}
  <2>1. a - 1 \in S
    BY <1>2, SumEmpty
  <2>2. ASSUME NEW i \in (a - 1)..(b - 1), i \in S
        PROVE  i + 1 \in S
    <3>1. i + 1 \in a..b /\ (i + 1) - 1 = i
      OBVIOUS
    <3>2. /\ SumFromTo(f, a, i + 1) = SumFromTo(f, a, i) + f[i + 1]
          /\ SumFromTo(g, a, i + 1) = SumFromTo(g, a, i) + g[i + 1]
      BY <3>1, SumStep
    <3> QED
      BY <2>2, <3>1, <3>2
  <2> HIDE DEF S
  <2>3. b \in S
    BY <1>2, <2>1, <2>2, UpByInduction
  <2> QED
    BY <2>3 DEF S
<1> QED
  BY <1>1, <1>2

-----------------------------------------------------------------------------
(***************************************************************************)
(* Sums over finite sets.                                                  *)
(***************************************************************************)
\* The member that a fold takes from a set next.
Chosen(s) == CHOOSE x \in s : TRUE

\* The sets of at most n members of S.
UpTo(S, n) == {s \in SUBSET S : Cardinality(s) <= n}

\* g holds the sums of f over the sets of K.
SetAdds(g, f, K) ==
    g = [s \in K |-> IF s = {} THEN 0 ELSE f[Chosen(s)] + g[s \ {Chosen(s)}]]

\* A set that is not empty loses one member.
LEMMA SmallerSet ==
    ASSUME NEW s, IsFiniteSet(s), NEW x \in s
    PROVE  /\ IsFiniteSet(s \ {x}) /\ s \ {x} \in SUBSET s
           /\ Cardinality(s \ {x}) \in Nat /\ Cardinality(s) \in Nat
           /\ Cardinality(s \ {x}) = Cardinality(s) - 1
BY FS_RemoveElement, FS_CardinalityType

\* One of its members is chosen.
LEMMA ChosenIsIn ==
    ASSUME NEW s, s # {}
    PROVE  Chosen(s) \in s
BY DEF Chosen

\* There are sums over all subsets of a finite set.
LEMMA SetAddsExists ==
    ASSUME NEW f, NEW S, IsFiniteSet(S)
    PROVE  \E g : SetAdds(g, f, SUBSET S)
<1> DEFINE T == {n \in Nat : \E g : SetAdds(g, f, UpTo(S, n))}
<1>1. \A s \in SUBSET S : IsFiniteSet(s) /\ Cardinality(s) \in Nat
                          /\ Cardinality(s) <= Cardinality(S)
  BY FS_Subset, FS_CardinalityType
<1>2. 0 \in T
  <2> DEFINE g == [s \in UpTo(S, 0) |-> 0]
  <2>1. \A s \in UpTo(S, 0) : s = {}
    BY <1>1, FS_EmptySet DEF UpTo
  <2>2. g = [s \in UpTo(S, 0) |-> IF s = {} THEN 0 ELSE f[Chosen(s)] + g[s \ {Chosen(s)}]]
    BY <2>1
  <2> HIDE DEF g
  <2>3. SetAdds(g, f, UpTo(S, 0))
    BY <2>2 DEF SetAdds
  <2> QED
    BY <2>3
<1>3. ASSUME NEW n \in T
      PROVE  n + 1 \in T
  <2>1. PICK h : SetAdds(h, f, UpTo(S, n))
    OBVIOUS
  <2> DEFINE g == [s \in UpTo(S, n + 1) |->
                     IF Cardinality(s) = n + 1 THEN f[Chosen(s)] + h[s \ {Chosen(s)}]
                     ELSE h[s]]
  <2>2. ASSUME NEW s \in UpTo(S, n + 1)
        PROVE  g[s] = IF s = {} THEN 0 ELSE f[Chosen(s)] + g[s \ {Chosen(s)}]
    <3>1. s \in SUBSET S /\ Cardinality(s) \in Nat /\ Cardinality(s) <= n + 1
      BY <1>1 DEF UpTo
    <3>2. CASE Cardinality(s) = n + 1
      <4>1. s # {}
        BY <3>2, FS_EmptySet
      <4>2. s \ {Chosen(s)} \in UpTo(S, n + 1) /\ Cardinality(s \ {Chosen(s)}) = n
        BY <1>1, <3>1, <3>2, <4>1, ChosenIsIn, SmallerSet DEF UpTo
      <4>3. g[s \ {Chosen(s)}] = h[s \ {Chosen(s)}]
        BY <4>2
      <4>4. g[s] = f[Chosen(s)] + h[s \ {Chosen(s)}]
        BY <3>2
      <4> QED
        BY <4>1, <4>3, <4>4
    <3>3. CASE Cardinality(s) # n + 1
      <4>1. s \in UpTo(S, n) /\ g[s] = h[s]
        BY <3>1, <3>3 DEF UpTo
      <4>2. h[s] = IF s = {} THEN 0 ELSE f[Chosen(s)] + h[s \ {Chosen(s)}]
        BY <2>1, <4>1 DEF SetAdds
      <4>3. CASE s # {}
        <5>1. /\ s \ {Chosen(s)} \in UpTo(S, n + 1)
              /\ Cardinality(s \ {Chosen(s)}) # n + 1
          BY <1>1, <3>1, <4>3, ChosenIsIn, SmallerSet DEF UpTo
        <5>2. g[s \ {Chosen(s)}] = h[s \ {Chosen(s)}]
          BY <5>1
        <5> QED
          BY <4>1, <4>2, <4>3, <5>2
      <4> QED
        BY <4>1, <4>2, <4>3
    <3> QED
      BY <3>2, <3>3
  <2>3. g = [s \in UpTo(S, n + 1) |-> IF s = {} THEN 0
                                      ELSE f[Chosen(s)] + g[s \ {Chosen(s)}]]
    BY <2>2
  <2> HIDE DEF g
  <2>4. SetAdds(g, f, UpTo(S, n + 1))
    BY <2>3 DEF SetAdds
  <2> QED
    BY <2>4
<1> HIDE DEF T
<1>4. T = Nat
  <2>1. T \subseteq Nat
    BY DEF T
  <2> QED
    BY <1>2, <1>3, <2>1, NatsByInduction
<1>5. Cardinality(S) \in T
  BY <1>1, <1>4
<1>6. UpTo(S, Cardinality(S)) = SUBSET S
  BY <1>1 DEF UpTo
<1> QED
  BY <1>5, <1>6 DEF T

\* They do not depend on the set they are made for.
LEMMA SetAddsAgree ==
    ASSUME NEW f, NEW S, NEW R \in SUBSET S, IsFiniteSet(S),
           NEW g, NEW h, SetAdds(g, f, SUBSET R), SetAdds(h, f, SUBSET S)
    PROVE  g[R] = h[R]
<1> DEFINE T == {n \in Nat : \A s \in SUBSET R : Cardinality(s) = n => g[s] = h[s]}
<1>1. \A s \in SUBSET R : IsFiniteSet(s) /\ Cardinality(s) \in Nat
  BY FS_Subset, FS_CardinalityType
<1>2. \A s \in SUBSET R :
        /\ g[s] = IF s = {} THEN 0 ELSE f[Chosen(s)] + g[s \ {Chosen(s)}]
        /\ h[s] = IF s = {} THEN 0 ELSE f[Chosen(s)] + h[s \ {Chosen(s)}]
  BY DEF SetAdds
<1>3. 0 \in T
  BY <1>1, <1>2, FS_EmptySet
<1>4. ASSUME NEW n \in T
      PROVE  n + 1 \in T
  <2>1. ASSUME NEW s \in SUBSET R, Cardinality(s) = n + 1
        PROVE  g[s] = h[s]
    <3>1. s # {}
      <4>1. n \in Nat /\ n + 1 # 0
        OBVIOUS
      <4>2. Cardinality({}) = 0
        BY FS_EmptySet
      <4> QED
        BY <2>1, <4>1, <4>2
    <3>2. s \ {Chosen(s)} \in SUBSET R /\ Cardinality(s \ {Chosen(s)}) = n
      BY <1>1, <2>1, <3>1, ChosenIsIn, SmallerSet
    <3>3. g[s \ {Chosen(s)}] = h[s \ {Chosen(s)}]
      BY <3>2
    <3> QED
      BY <1>2, <3>1, <3>3
  <2> QED
    BY <2>1
<1> HIDE DEF T
<1>5. T = Nat
  <2>1. T \subseteq Nat
    BY DEF T
  <2> QED
    BY <1>3, <1>4, <2>1, NatsByInduction
<1>6. Cardinality(R) \in T
  BY <1>1, <1>5
<1> QED
  BY <1>6 DEF T

\* The sum over a set is the last of them.
LEMMA SetSumIsLast ==
    ASSUME NEW f, NEW S, IsFiniteSet(S)
    PROVE  \E g : SetAdds(g, f, SUBSET S) /\ SumFunctionOnSet(f, S) = g[S]
<1> DEFINE a == CHOOSE g : SetAdds(g, f, SUBSET S)
<1>1. SetAdds(a, f, SUBSET S)
  BY SetAddsExists
<1>2. SumFunctionOnSet(f, S) = a[S]
  BY Zenon DEF SumFunctionOnSet, FoldFunctionOnSet, MapThenFoldSet, SetAdds, Chosen
<1> HIDE DEF a
<1> QED
  BY <1>1, <1>2

\* The sum over nothing.
LEMMA SetSumEmpty ==
    ASSUME NEW f
    PROVE  SumFunctionOnSet(f, {}) = 0
<1>1. PICK g : SetAdds(g, f, SUBSET {}) /\ SumFunctionOnSet(f, {}) = g[{}]
  BY SetSumIsLast, FS_EmptySet
<1> QED
  BY <1>1 DEF SetAdds

\* The sum is that of the chosen member and the rest.
LEMMA SetSumChosen ==
    ASSUME NEW f, NEW S, IsFiniteSet(S), S # {}
    PROVE  SumFunctionOnSet(f, S) = f[Chosen(S)] + SumFunctionOnSet(f, S \ {Chosen(S)})
<1> DEFINE R == S \ {Chosen(S)}
<1>1. IsFiniteSet(R) /\ R \in SUBSET S
  BY ChosenIsIn, SmallerSet
<1>2. PICK h : SetAdds(h, f, SUBSET S) /\ SumFunctionOnSet(f, S) = h[S]
  BY SetSumIsLast
<1>3. PICK g : SetAdds(g, f, SUBSET R) /\ SumFunctionOnSet(f, R) = g[R]
  BY <1>1, SetSumIsLast
<1> HIDE DEF R
<1>4. g[R] = h[R]
  BY <1>1, <1>2, <1>3, SetAddsAgree
<1>5. h[S] = f[Chosen(S)] + h[R]
  BY <1>2 DEF SetAdds, R
<1> QED
  BY <1>2, <1>3, <1>4, <1>5 DEF R

\* Integers add up to an integer, naturals to a natural.
LEMMA SetSumInt ==
    ASSUME NEW f, NEW S, IsFiniteSet(S), \A x \in S : f[x] \in Int
    PROVE  /\ SumFunctionOnSet(f, S) \in Int
           /\ (\A x \in S : f[x] \in Nat) => SumFunctionOnSet(f, S) \in Nat
<1> DEFINE Fine(s) == /\ SumFunctionOnSet(f, s) \in Int
                      /\ (\A x \in S : f[x] \in Nat) => SumFunctionOnSet(f, s) \in Nat
           T == {n \in Nat : \A s \in SUBSET S : Cardinality(s) = n => Fine(s)}
<1>1. \A s \in SUBSET S : IsFiniteSet(s) /\ Cardinality(s) \in Nat
  BY FS_Subset, FS_CardinalityType
<1>2. 0 \in T
  <2>1. ASSUME NEW s \in SUBSET S, Cardinality(s) = 0
        PROVE  Fine(s)
    <3>1. s = {}
      BY <1>1, <2>1, FS_EmptySet
    <3>2. SumFunctionOnSet(f, s) = 0
      BY <3>1, SetSumEmpty
    <3> QED
      BY <3>2
  <2> HIDE DEF Fine
  <2> QED
    BY <2>1
<1>3. ASSUME NEW n \in T
      PROVE  n + 1 \in T
  <2>1. ASSUME NEW s \in SUBSET S, Cardinality(s) = n + 1
        PROVE  Fine(s)
    <3>1. s # {}
      <4>1. n \in Nat /\ n + 1 # 0
        OBVIOUS
      <4>2. Cardinality({}) = 0
        BY FS_EmptySet
      <4> QED
        BY <2>1, <4>1, <4>2
    <3>2. /\ s \ {Chosen(s)} \in SUBSET S /\ Cardinality(s \ {Chosen(s)}) = n
          /\ Chosen(s) \in S
      BY <1>1, <2>1, <3>1, ChosenIsIn, SmallerSet
    <3>3. Fine(s \ {Chosen(s)})
      BY <3>2
    <3>4. SumFunctionOnSet(f, s) = f[Chosen(s)] + SumFunctionOnSet(f, s \ {Chosen(s)})
      BY <1>1, <3>1, SetSumChosen
    <3> QED
      BY <3>2, <3>3, <3>4
  <2> HIDE DEF Fine
  <2> QED
    BY <2>1
<1> HIDE DEF T
<1>4. T = Nat
  <2>1. T \subseteq Nat
    BY DEF T
  <2> QED
    BY <1>2, <1>3, <2>1, NatsByInduction
<1>5. Cardinality(S) \in T
  BY <1>1, <1>4
<1> QED
  BY <1>5 DEF T

\* The sum does not depend on which member is taken first.
LEMMA SetSumRemove ==
    ASSUME NEW f, NEW S, IsFiniteSet(S), \A x \in S : f[x] \in Int, NEW y \in S
    PROVE  SumFunctionOnSet(f, S) = f[y] + SumFunctionOnSet(f, S \ {y})
<1> DEFINE Fine(s) == \A x \in s : SumFunctionOnSet(f, s) = f[x] + SumFunctionOnSet(f, s \ {x})
           T == {n \in Nat : \A s \in SUBSET S : Cardinality(s) = n => Fine(s)}
<1>1. \A s \in SUBSET S : IsFiniteSet(s) /\ Cardinality(s) \in Nat
  BY FS_Subset, FS_CardinalityType
<1>2. 0 \in T
  <2>1. ASSUME NEW s \in SUBSET S, Cardinality(s) = 0
        PROVE  Fine(s)
    <3>1. s = {}
      BY <1>1, <2>1, FS_EmptySet
    <3> QED
      BY <3>1
  <2> HIDE DEF Fine
  <2> QED
    BY <2>1
<1>3. ASSUME NEW n \in T
      PROVE  n + 1 \in T
  <2>1. ASSUME NEW s \in SUBSET S, Cardinality(s) = n + 1, NEW x \in s
        PROVE  SumFunctionOnSet(f, s) = f[x] + SumFunctionOnSet(f, s \ {x})
    <3> DEFINE c == Chosen(s)
    <3>1. c \in s
      BY ChosenIsIn
    <3>2. SumFunctionOnSet(f, s) = f[c] + SumFunctionOnSet(f, s \ {c})
      BY <1>1, SetSumChosen
    <3> HIDE DEF c
    <3>3. CASE x = c
      BY <3>2, <3>3
    <3>4. CASE x # c
      <4>1. /\ s \ {c} \in SUBSET S /\ Cardinality(s \ {c}) = n /\ x \in s \ {c}
            /\ s \ {x} \in SUBSET S /\ Cardinality(s \ {x}) = n /\ c \in s \ {x}
        <5>1. n \in Nat /\ IsFiniteSet(s)
          BY <1>1
        <5>2. /\ Cardinality(s \ {c}) = Cardinality(s) - 1
              /\ Cardinality(s \ {x}) = Cardinality(s) - 1
          BY <3>1, <5>1, SmallerSet
        <5>3. Cardinality(s \ {c}) = n /\ Cardinality(s \ {x}) = n
          BY <2>1, <5>1, <5>2
        <5> QED
          BY <3>1, <3>4, <5>3
      <4>2. /\ SumFunctionOnSet(f, s \ {c}) = f[x] + SumFunctionOnSet(f, (s \ {c}) \ {x})
            /\ SumFunctionOnSet(f, s \ {x}) = f[c] + SumFunctionOnSet(f, (s \ {x}) \ {c})
        BY <4>1
      <4>3. (s \ {c}) \ {x} = (s \ {x}) \ {c}
        OBVIOUS
      <4>4. IsFiniteSet((s \ {c}) \ {x}) /\ \A i \in (s \ {c}) \ {x} : f[i] \in Int
        BY <1>1, <4>1
      <4>5. SumFunctionOnSet(f, (s \ {c}) \ {x}) \in Int /\ f[x] \in Int /\ f[c] \in Int
        BY <3>1, <4>4, SetSumInt
      <4> DEFINE z == SumFunctionOnSet(f, (s \ {c}) \ {x})
      <4>6. /\ SumFunctionOnSet(f, s) = f[c] + (f[x] + z)
            /\ SumFunctionOnSet(f, s \ {x}) = f[c] + z
        BY <3>2, <4>2, <4>3
      <4> HIDE DEF z
      <4>7. f[c] + (f[x] + z) = f[x] + (f[c] + z)
        BY <4>5 DEF z
      <4> QED
        BY <4>6, <4>7
    <3> QED
      BY <3>3, <3>4
  <2> QED
    BY <2>1
<1> HIDE DEF T
<1>4. T = Nat
  <2>1. T \subseteq Nat
    BY DEF T
  <2> QED
    BY <1>2, <1>3, <2>1, NatsByInduction
<1>5. Cardinality(S) \in T
  BY <1>1, <1>4
<1> QED
  BY <1>5 DEF T

\* The sum looks at nothing but the members of its set.
LEMMA SetSumSame ==
    ASSUME NEW f, NEW g, NEW S, IsFiniteSet(S), \A x \in S : f[x] = g[x]
    PROVE  SumFunctionOnSet(f, S) = SumFunctionOnSet(g, S)
<1>1. PICK a : SetAdds(a, f, SUBSET S) /\ SumFunctionOnSet(f, S) = a[S]
  BY SetSumIsLast
<1>2. PICK b : SetAdds(b, g, SUBSET S) /\ SumFunctionOnSet(g, S) = b[S]
  BY SetSumIsLast
<1>3. \A s \in SUBSET S : s # {} => Chosen(s) \in S
  BY ChosenIsIn
<1>4. SetAdds(a, g, SUBSET S)
  BY <1>1, <1>3 DEF SetAdds
<1> QED
  BY <1>1, <1>2, <1>4, SetAddsAgree

\* Two sets that share no member.
LEMMA SetSumUnion ==
    ASSUME NEW f, NEW R, NEW S, IsFiniteSet(R), IsFiniteSet(S), R \cap S = {},
           \A x \in R \cup S : f[x] \in Int
    PROVE  SumFunctionOnSet(f, R \cup S) = SumFunctionOnSet(f, R) + SumFunctionOnSet(f, S)
<1> DEFINE Fine(s) == SumFunctionOnSet(f, R \cup s)
                        = SumFunctionOnSet(f, R) + SumFunctionOnSet(f, s)
           T == {n \in Nat : \A s \in SUBSET S : Cardinality(s) = n => Fine(s)}
<1>1. \A s \in SUBSET S : IsFiniteSet(s) /\ Cardinality(s) \in Nat
  BY FS_Subset, FS_CardinalityType
<1>2. SumFunctionOnSet(f, R) \in Int
  BY SetSumInt
<1>3. 0 \in T
  <2>1. ASSUME NEW s \in SUBSET S, Cardinality(s) = 0
        PROVE  Fine(s)
    <3>1. s = {}
      BY <1>1, <2>1, FS_EmptySet
    <3>2. R \cup s = R /\ SumFunctionOnSet(f, s) = 0
      BY <3>1, SetSumEmpty
    <3> QED
      BY <1>2, <3>2
  <2> HIDE DEF Fine
  <2> QED
    BY <2>1
<1>4. ASSUME NEW n \in T
      PROVE  n + 1 \in T
  <2>1. ASSUME NEW s \in SUBSET S, Cardinality(s) = n + 1
        PROVE  Fine(s)
    <3>1. s # {}
      <4>1. n \in Nat /\ n + 1 # 0
        OBVIOUS
      <4>2. Cardinality({}) = 0
        BY FS_EmptySet
      <4> QED
        BY <2>1, <4>1, <4>2
    <3>2. PICK y : y \in s
      BY <3>1
    <3> DEFINE r == s \ {y}
    <3>3. r \in SUBSET S /\ Cardinality(r) = n /\ IsFiniteSet(r) /\ IsFiniteSet(s)
      <4>1. IsFiniteSet(s) /\ n \in Nat /\ y \in S
        BY <1>1, <2>1, <3>2
      <4>2. IsFiniteSet(r) /\ Cardinality(r) = Cardinality(s) - 1
        BY <3>2, <4>1, SmallerSet
      <4> QED
        BY <2>1, <4>1, <4>2
    <3>4. Fine(r)
      BY <3>3
    <3>5. SumFunctionOnSet(f, s) = f[y] + SumFunctionOnSet(f, r)
      <4>1. \A x \in s : f[x] \in Int
        OBVIOUS
      <4> QED
        BY <3>2, <3>3, <4>1, SetSumRemove
    <3>6. SumFunctionOnSet(f, R \cup s) = f[y] + SumFunctionOnSet(f, R \cup r)
      <4>1. IsFiniteSet(R \cup s) /\ (R \cup s) \ {y} = R \cup r /\ y \in R \cup s
        BY <3>2, <3>3, FS_Union
      <4>2. \A x \in R \cup s : f[x] \in Int
        OBVIOUS
      <4> HIDE DEF r
      <4> QED
        BY <4>1, <4>2, SetSumRemove
    <3>7. f[y] \in Int /\ SumFunctionOnSet(f, r) \in Int
      <4>1. \A x \in r : f[x] \in Int
        OBVIOUS
      <4> QED
        BY <3>2, <3>3, <4>1, SetSumInt
    <3> QED
      BY <1>2, <3>4, <3>5, <3>6, <3>7
  <2> HIDE DEF Fine
  <2> QED
    BY <2>1
<1> HIDE DEF T
<1>5. T = Nat
  <2>1. T \subseteq Nat
    BY DEF T
  <2> QED
    BY <1>3, <1>4, <2>1, NatsByInduction
<1>6. Cardinality(S) \in T
  BY <1>1, <1>5
<1> QED
  BY <1>6 DEF T

\* A sum grows by the member that its set gains.
LEMMA SetSumAdd ==
    ASSUME NEW f, NEW S, IsFiniteSet(S), NEW y, y \notin S, \A x \in S \cup {y} : f[x] \in Int
    PROVE  /\ SumFunctionOnSet(f, S \cup {y}) = f[y] + SumFunctionOnSet(f, S)
           /\ IsFiniteSet(S \cup {y})
<1> DEFINE T == S \cup {y}
<1>1. IsFiniteSet(T) /\ y \in T /\ T \ {y} = S
  BY FS_AddElement
<1>2. \A x \in T : f[x] \in Int
  OBVIOUS
<1> HIDE DEF T
<1>3. SumFunctionOnSet(f, T) = f[y] + SumFunctionOnSet(f, T \ {y})
  BY <1>1, <1>2, SetSumRemove
<1> QED
  BY <1>1, <1>3 DEF T

-----------------------------------------------------------------------------
(***************************************************************************)
(* Months.                                                                 *)
(***************************************************************************)
\* The days that lie in a month of the calendar.
Charted == {d \in Int : \E m \in Month : m.first <= d /\ d <= m.last}

\* Every date in use is one of them.
LEMMA DatesAreCharted == Date \subseteq Charted
BY PayPeriodsAssumption DEF Charted

\* A charted day lies in the month that payPeriodFor takes for it.
LEMMA MonthOfDate ==
    ASSUME NEW d \in Charted
    PROVE  /\ MonthOf(d) \in Month
           /\ MonthOf(d).first <= d /\ d <= MonthOf(d).last
BY DEF MonthOf, Charted

\* No day lies in two months.
LEMMA MonthIsUnique ==
    ASSUME NEW d \in Charted, NEW m \in Month, m.first <= d, d <= m.last
    PROVE  MonthOf(d) = m
<1>1. /\ MonthOf(d) \in Month
      /\ MonthOf(d).first <= d /\ d <= MonthOf(d).last
  BY MonthOfDate
<1>2. /\ MonthOf(d).first \in Int /\ MonthOf(d).last \in Int
      /\ m.first \in Int /\ m.last \in Int /\ d \in Int
  BY <1>1, PayPeriodsAssumption DEF Charted
<1>3. MonthOf(d).first <= m.last /\ m.first <= MonthOf(d).last
  BY <1>1, <1>2
<1> QED
  BY <1>1, <1>3, PayPeriodsAssumption

\* The month of a day is the month of each of its days.
LEMMA MonthFacts ==
    ASSUME NEW d \in Charted
    PROVE  /\ d \in Int
           /\ FirstOfMonth(d) \in Int /\ EndOfMonth(d) \in Int
           /\ FirstOfMonth(d) <= d /\ d <= EndOfMonth(d)
           /\ EndOfMonth(d) - FirstOfMonth(d) >= 27
           /\ \A e \in Int : (FirstOfMonth(d) <= e /\ e <= EndOfMonth(d))
                => /\ e \in Charted
                   /\ FirstOfMonth(e) = FirstOfMonth(d) /\ EndOfMonth(e) = EndOfMonth(d)
<1>1. /\ MonthOf(d) \in Month
      /\ MonthOf(d).first <= d /\ d <= MonthOf(d).last
  BY MonthOfDate
<1>2. /\ MonthOf(d).first \in Int /\ MonthOf(d).last \in Int /\ d \in Int
      /\ MonthOf(d).last - MonthOf(d).first >= 27
  BY <1>1, PayPeriodsAssumption DEF Charted
<1>3. ASSUME NEW e \in Int, MonthOf(d).first <= e, e <= MonthOf(d).last
      PROVE  e \in Charted /\ MonthOf(e) = MonthOf(d)
  <2>1. e \in Charted
    BY <1>1, <1>3 DEF Charted
  <2> QED
    BY <1>1, <1>3, <2>1, MonthIsUnique
<1> QED
  BY <1>1, <1>2, <1>3 DEF FirstOfMonth, EndOfMonth

-----------------------------------------------------------------------------
(***************************************************************************)
(* Blocks of 7 and 14 days: arithmetic the solver does for one length at a *)
(* time.                                                                   *)
(***************************************************************************)
\* A week from the anchor is the week of each of its days.
LEMMA WeekBlocks ==
    ASSUME NEW a \in Int, NEW d \in Int
    PROVE  LET b == a + 7 * ((d - a) \div 7) IN
           /\ b \in Int /\ b <= d /\ d <= b + 6
           /\ \A e \in Int : b <= e /\ e <= b + 6 => a + 7 * ((e - a) \div 7) = b
OBVIOUS

\* So is a fortnight.
LEMMA FortnightBlocks ==
    ASSUME NEW a \in Int, NEW d \in Int
    PROVE  LET b == a + 14 * ((d - a) \div 14) IN
           /\ b \in Int /\ b <= d /\ d <= b + 13
           /\ \A e \in Int : b <= e /\ e <= b + 13 => a + 14 * ((e - a) \div 14) = b
OBVIOUS

\* Both, as payPeriodFor computes them.
LEMMA BlockFacts ==
    ASSUME NEW s \in Schedule, s.type \in {"weekly", "biweekly"}, NEW d \in Int
    PROVE  /\ BlockStart(d, s) \in Int /\ BlockLength(s.type) \in Int
           /\ BlockStart(d, s) <= d
           /\ d <= BlockStart(d, s) + BlockLength(s.type) - 1
           /\ \A e \in Int :
                BlockStart(d, s) <= e /\ e <= BlockStart(d, s) + BlockLength(s.type) - 1
                => BlockStart(e, s) = BlockStart(d, s)
<1>1. s.anchor \in Int
  BY PayPeriodsAssumption DEF Schedule
<1>2. CASE s.type = "weekly"
  <2>1. BlockLength(s.type) = 7 /\ \A e : BlockStart(e, s) = s.anchor + 7 * ((e - s.anchor) \div 7)
    BY <1>2 DEF BlockLength, BlockStart, FloorDiv
  <2>2. /\ BlockStart(d, s) \in Int /\ BlockStart(d, s) <= d
        /\ d <= BlockStart(d, s) + 6
    BY <1>1, <2>1, WeekBlocks
  <2>3. ASSUME NEW e \in Int, BlockStart(d, s) <= e, e <= BlockStart(d, s) + 6
        PROVE  BlockStart(e, s) = BlockStart(d, s)
    BY <1>1, <2>1, <2>3, WeekBlocks
  <2> QED
    BY <2>1, <2>2, <2>3
<1>3. CASE s.type = "biweekly"
  <2>1. BlockLength(s.type) = 14 /\ \A e : BlockStart(e, s) = s.anchor + 14 * ((e - s.anchor) \div 14)
    BY <1>3 DEF BlockLength, BlockStart, FloorDiv
  <2>2. /\ BlockStart(d, s) \in Int /\ BlockStart(d, s) <= d
        /\ d <= BlockStart(d, s) + 13
    BY <1>1, <2>1, FortnightBlocks
  <2>3. ASSUME NEW e \in Int, BlockStart(d, s) <= e, e <= BlockStart(d, s) + 13
        PROVE  BlockStart(e, s) = BlockStart(d, s)
    BY <1>1, <2>1, <2>3, FortnightBlocks
  <2> QED
    BY <2>1, <2>2, <2>3
<1> QED
  BY <1>2, <1>3

-----------------------------------------------------------------------------
(***************************************************************************)
(* payPeriodFor.                                                           *)
(***************************************************************************)
\* The days a schedule has a period for: blocks need no months.
Placed(d, s) == d \in Int /\ (s.type \in {"semimonthly", "monthly"} => d \in Charted)

\* Every date in use is one of them.
LEMMA DatesArePlaced ==
    ASSUME NEW s, NEW d \in Date
    PROVE  Placed(d, s)
BY DatesAreCharted DEF Placed, Charted

\* The period of a day contains it, and is the period of each of its days.
LEMMA PeriodOfDay ==
    ASSUME NEW s \in Schedule, NEW d, Placed(d, s)
    PROVE  /\ PeriodStart(d, s) \in Int /\ PeriodEnd(d, s) \in Int
           /\ PeriodStart(d, s) <= d /\ d <= PeriodEnd(d, s)
           /\ \A e \in Int : PeriodStart(d, s) <= e /\ e <= PeriodEnd(d, s)
                => /\ Placed(e, s)
                   /\ PeriodStart(e, s) = PeriodStart(d, s) /\ PeriodEnd(e, s) = PeriodEnd(d, s)
<1>1. s.type \in {"weekly", "biweekly", "semimonthly", "monthly"}
  BY DEF Schedule, PeriodType
<1>2. CASE s.type = "monthly"
  <2>1. \A e : PeriodStart(e, s) = FirstOfMonth(e) /\ PeriodEnd(e, s) = EndOfMonth(e)
    BY <1>2 DEF PeriodStart, PeriodEnd
  <2> QED
    BY <1>2, <2>1, MonthFacts DEF Placed
<1>3. CASE s.type = "semimonthly"
  <2>1. \A e : /\ PeriodStart(e, s) = IF InFirstHalf(e) THEN FirstOfMonth(e)
                                     ELSE FirstOfMonth(e) + 15
               /\ PeriodEnd(e, s) = IF InFirstHalf(e) THEN FirstOfMonth(e) + 14
                                   ELSE EndOfMonth(e)
    BY <1>3 DEF PeriodStart, PeriodEnd
  <2>2. /\ d \in Int
        /\ FirstOfMonth(d) \in Int /\ EndOfMonth(d) \in Int
        /\ FirstOfMonth(d) <= d /\ d <= EndOfMonth(d)
        /\ EndOfMonth(d) - FirstOfMonth(d) >= 27
    BY <1>3, MonthFacts DEF Placed
  <2>3. ASSUME NEW e \in Int, PeriodStart(d, s) <= e, e <= PeriodEnd(d, s)
        PROVE  /\ Placed(e, s)
               /\ PeriodStart(e, s) = PeriodStart(d, s) /\ PeriodEnd(e, s) = PeriodEnd(d, s)
    <3>1. d \in Charted
      BY <1>3 DEF Placed
    <3>2. CASE InFirstHalf(d)
      <4>1. FirstOfMonth(d) <= e /\ e <= FirstOfMonth(d) + 14
        BY <2>1, <2>3, <3>2
      <4>2. /\ e \in Charted
            /\ FirstOfMonth(e) = FirstOfMonth(d) /\ EndOfMonth(e) = EndOfMonth(d)
        BY <2>2, <3>1, <4>1, MonthFacts
      <4>3. InFirstHalf(e)
        BY <2>2, <3>1, <4>1, <4>2 DEF InFirstHalf
      <4> QED
        BY <2>1, <3>2, <4>2, <4>3 DEF Placed
    <3>3. CASE ~InFirstHalf(d)
      <4>1. FirstOfMonth(d) + 15 <= e /\ e <= EndOfMonth(d)
        BY <2>1, <2>3, <3>3
      <4>2. /\ e \in Charted
            /\ FirstOfMonth(e) = FirstOfMonth(d) /\ EndOfMonth(e) = EndOfMonth(d)
        BY <2>2, <3>1, <4>1, MonthFacts
      <4>3. ~InFirstHalf(e)
        BY <2>2, <3>1, <4>1, <4>2 DEF InFirstHalf
      <4> QED
        BY <2>1, <3>3, <4>2, <4>3 DEF Placed
    <3> QED
      BY <3>2, <3>3
  <2>4. /\ PeriodStart(d, s) \in Int /\ PeriodEnd(d, s) \in Int
        /\ PeriodStart(d, s) <= d /\ d <= PeriodEnd(d, s)
    BY <2>1, <2>2 DEF InFirstHalf
  <2> QED
    BY <2>3, <2>4
<1>4. CASE s.type \in {"weekly", "biweekly"}
  <2>1. \A e : /\ PeriodStart(e, s) = BlockStart(e, s)
               /\ PeriodEnd(e, s) = BlockStart(e, s) + BlockLength(s.type) - 1
    BY <1>4 DEF PeriodStart, PeriodEnd
  <2>2. /\ BlockStart(d, s) \in Int /\ BlockLength(s.type) \in Int
        /\ BlockStart(d, s) <= d
        /\ d <= BlockStart(d, s) + BlockLength(s.type) - 1
        /\ \A e \in Int :
             BlockStart(d, s) <= e /\ e <= BlockStart(d, s) + BlockLength(s.type) - 1
             => BlockStart(e, s) = BlockStart(d, s)
    BY <1>4, BlockFacts DEF Placed
  <2>3. \A e \in Int : Placed(e, s)
    BY <1>4 DEF Placed
  <2> QED
    BY <2>1, <2>2, <2>3
<1> QED
  BY <1>1, <1>2, <1>3, <1>4

\* Two dates have the same period or periods that share no day: nothing is
\* paid twice, nothing falls between two periods.
THEOREM PeriodsPartition ==
    ASSUME NEW s \in Schedule, NEW d \in Date, NEW e \in Date
    PROVE  /\ d \in Days(PayPeriodFor(d, s))
           /\ \/ PayPeriodFor(d, s) = PayPeriodFor(e, s)
              \/ Days(PayPeriodFor(d, s)) \cap Days(PayPeriodFor(e, s)) = {}
<1>1. Placed(d, s) /\ Placed(e, s) /\ d \in Int
  BY DatesArePlaced DEF Placed
<1>2. d \in Days(PayPeriodFor(d, s))
  BY <1>1, PeriodOfDay DEF Days, PayPeriodFor
<1>3. ASSUME NEW f \in Days(PayPeriodFor(d, s)), f \in Days(PayPeriodFor(e, s))
      PROVE  PayPeriodFor(d, s) = PayPeriodFor(e, s)
  <2>1. f \in Int /\ PeriodStart(d, s) <= f /\ f <= PeriodEnd(d, s)
    BY <1>1, PeriodOfDay DEF Days, PayPeriodFor
  <2>2. PeriodStart(e, s) <= f /\ f <= PeriodEnd(e, s)
    BY <1>1, <1>3, PeriodOfDay DEF Days, PayPeriodFor
  <2>3. PeriodStart(f, s) = PeriodStart(d, s) /\ PeriodEnd(f, s) = PeriodEnd(d, s)
    BY <1>1, <2>1, PeriodOfDay
  <2>4. PeriodStart(f, s) = PeriodStart(e, s) /\ PeriodEnd(f, s) = PeriodEnd(e, s)
    BY <1>1, <2>1, <2>2, PeriodOfDay
  <2> QED
    BY <2>3, <2>4 DEF PayPeriodFor
<1> QED
  BY <1>2, <1>3

\* The day before a period has a period too.
LEMMA DayBefore ==
    ASSUME NEW s \in Schedule, NEW d \in Date
    PROVE  Placed(PeriodStart(d, s) - 1, s)
<1>1. Placed(d, s) /\ d \in Charted
  BY DatesArePlaced, DatesAreCharted
<1>2. PeriodStart(d, s) \in Int
  BY <1>1, PeriodOfDay
<1>3. CASE s.type \in {"weekly", "biweekly"}
  BY <1>2, <1>3 DEF Placed
<1>4. CASE s.type \in {"semimonthly", "monthly"}
  <2>1. PICK m \in Month, n \in Month : /\ m.first <= d /\ d <= m.last
                                        /\ n.last = m.first - 1
    BY PayPeriodsAssumption
  <2>2. FirstOfMonth(d) = m.first /\ EndOfMonth(d) = m.last
    BY <1>1, <2>1, MonthIsUnique DEF FirstOfMonth, EndOfMonth
  <2>3. /\ m.first \in Int /\ m.last \in Int /\ m.last - m.first >= 27
        /\ n.first \in Int /\ n.last \in Int /\ n.last - n.first >= 27
    BY PayPeriodsAssumption
  <2>4. PeriodStart(d, s) = m.first \/ PeriodStart(d, s) = m.first + 15
    BY <1>4, <2>2 DEF PeriodStart
  <2>5. PeriodStart(d, s) - 1 \in Charted
    BY <1>2, <2>1, <2>3, <2>4 DEF Charted
  <2> QED
    BY <1>2, <2>5 DEF Placed
<1> QED
  BY <1>3, <1>4 DEF Schedule, PeriodType

-----------------------------------------------------------------------------
(***************************************************************************)
(* The calendar in motion.                                                 *)
(***************************************************************************)
\* An organization starts with its schedule and no locks.
LEMMA CalendarTypeInit == CalendarInit => CalendarTypeOK
BY DEF CalendarInit, CalendarTypeOK, Period

\* Locking, unlocking and changing the schedule keep the rows well formed.
LEMMA CalendarTypeStep ==
    ASSUME CalendarTypeOK, CalendarNext
    PROVE  CalendarTypeOK'
<1> USE DEF CalendarTypeOK
<1>1. CASE UpdateSchedule
  BY <1>1 DEF UpdateSchedule
<1>2. ASSUME NEW d \in Date, Lock(d)
      PROVE  CalendarTypeOK'
  <2>1. PeriodEnd(d, schedule) \in Int /\ d <= PeriodEnd(d, schedule)
    BY <1>2, DatesArePlaced, PeriodOfDay
  <2>2. DOMAIN periods' = DOMAIN periods \cup {d}
    BY <1>2 DEF Lock
  <2>3. ASSUME NEW s \in DOMAIN periods'
        PROVE  periods'[s] \in Period /\ s <= periods'[s].end
    BY <1>2, <2>1, <2>2, <2>3 DEF Lock, Period
  <2>4. periods' \in [DOMAIN periods' -> Period]
    BY <1>2, <2>2, <2>3 DEF Lock
  <2> QED
    BY <1>2, <2>2, <2>3, <2>4 DEF Lock
<1>3. ASSUME NEW d \in Date, Unlock(d)
      PROVE  CalendarTypeOK'
  <2>1. DOMAIN periods' = DOMAIN periods
    BY <1>3 DEF Unlock
  <2>2. \A s \in DOMAIN periods : periods'[s] \in Period /\ periods'[s].end = periods[s].end
    BY <1>3 DEF Unlock, Period
  <2> QED
    BY <1>3, <2>1, <2>2 DEF Unlock
<1>4. CASE Midnight
  BY <1>4 DEF Midnight
<1> QED
  BY <1>1, <1>2, <1>3, <1>4 DEF CalendarNext

\* Every behaviour keeps the shape of the calendar's rows, and no row ends
\* before it starts: the CHECK of pay_periods never refuses a lock.
THEOREM CalendarTypeCorrect == CalendarSpec => []CalendarTypeOK
<1>1. CalendarTypeOK /\ UNCHANGED calendarVars => CalendarTypeOK'
  BY DEF CalendarTypeOK, calendarVars
<1> QED
  BY <1>1, CalendarTypeInit, CalendarTypeStep, PTL DEF CalendarSpec

\* For every calendar, anchor and day, before the anchor and after it, the
\* current period contains today and is the period of each of its days.
THEOREM PeriodsAlwaysTile == CalendarSpec => []PeriodsTile
<1>1. CalendarTypeOK => PeriodsTile
  BY DatesArePlaced, PeriodOfDay, PayPeriodsAssumption
     DEF CalendarTypeOK, PeriodsTile, PayPeriodFor, Days
<1> QED
  BY <1>1, CalendarTypeCorrect, PTL

\* assertNotInLockedPeriod and the list read the same lock off the table, for
\* every day the present schedule has a period for.
THEOREM DayIsGuardedAsListed ==
    ASSUME CalendarTypeOK, LocksFitSchedule, NEW d, Placed(d, schedule)
    PROVE  NotInLockedPeriod(d) <=> ListedStatus(PayPeriodFor(d, schedule)) = "open"
<1> DEFINE p == PeriodStart(d, schedule)
<1>1. /\ schedule \in Schedule /\ d \in Int
      /\ \A s \in DOMAIN periods : periods[s].status \in {"open", "locked"}
  BY DEF CalendarTypeOK, Period, Placed
<1>2. PayPeriodFor(d, schedule).start = p
  BY DEF PayPeriodFor
<1>3. ASSUME NEW s \in DOMAIN periods, periods[s].status = "locked"
      PROVE  /\ Placed(s, schedule) /\ s \in Int
             /\ PeriodStart(s, schedule) = s /\ PeriodEnd(s, schedule) = periods[s].end
  <2>1. s \in Date
    BY DEF CalendarTypeOK
  <2> QED
    BY <1>3, <2>1, DatesArePlaced DEF LocksFitSchedule, PayPeriodFor, Placed
<1>4. ASSUME NEW s \in DOMAIN periods, periods[s].status = "locked", Covers(s, d)
      PROVE  s = p
  <2>1. PeriodStart(s, schedule) <= d /\ d <= PeriodEnd(s, schedule)
    BY <1>3, <1>4 DEF Covers
  <2>2. PeriodStart(d, schedule) = PeriodStart(s, schedule)
    BY <1>1, <1>3, <1>4, <2>1, PeriodOfDay
  <2> QED
    BY <1>3, <1>4, <2>2
<1>5. ASSUME p \in DOMAIN periods, periods[p].status = "locked"
      PROVE  Covers(p, d)
  <2>1. PeriodStart(d, schedule) <= d /\ d <= PeriodEnd(d, schedule)
    BY <1>1, PeriodOfDay
  <2>2. PeriodEnd(p, schedule) = periods[p].end /\ p \in Int
    BY <1>3, <1>5
  <2>3. PeriodEnd(p, schedule) = PeriodEnd(d, schedule)
    <3>1. PeriodStart(d, schedule) <= p /\ p <= PeriodEnd(d, schedule)
      BY <1>1, <2>2, PeriodOfDay
    <3> QED
      BY <1>1, <2>2, <3>1, PeriodOfDay
  <2> QED
    BY <2>1, <2>2, <2>3 DEF Covers
<1>6. NotInLockedPeriod(d) <=> ~(p \in DOMAIN periods /\ periods[p].status = "locked")
  BY <1>4, <1>5 DEF NotInLockedPeriod
<1>7. ListedStatus(PayPeriodFor(d, schedule)) = "open"
      <=> ~(p \in DOMAIN periods /\ periods[p].status = "locked")
  BY <1>1, <1>2 DEF ListedStatus
<1> QED
  BY <1>6, <1>7

\* recentPayPeriods(2) is the period of today and the one before it.
LEMMA RecentTwo ==
    LET first  == PayPeriodFor(today, schedule)
        second == PayPeriodFor(first.start - 1, schedule)
    IN  RecentPayPeriods(2)[1] = first /\ RecentPayPeriods(2)[2] = second
<1> DEFINE first == PayPeriodFor(today, schedule)
           second == PayPeriodFor(first.start - 1, schedule)
           Unfolds(f) == f = [i \in 1..2 |->
                PayPeriodFor(IF i = 1 THEN today ELSE f[i - 1].start - 1, schedule)]
           witness == [i \in 1..2 |-> IF i = 1 THEN first ELSE second]
<1> HIDE DEF first, second
<1>1. Unfolds(witness)
  <2>1. ASSUME NEW i \in 1..2
        PROVE  witness[i]
                 = PayPeriodFor(IF i = 1 THEN today ELSE witness[i - 1].start - 1, schedule)
    <3>1. CASE i = 1
      BY <3>1 DEF first
    <3>2. CASE i = 2
      BY <3>2 DEF second
    <3> QED
      BY <3>1, <3>2
  <2> QED
    BY <2>1
<1>2. RecentPayPeriods(2) = CHOOSE f : Unfolds(f)
  BY DEF RecentPayPeriods
<1>3. Unfolds(RecentPayPeriods(2))
  BY <1>1, <1>2
<1>4. RecentPayPeriods(2)[1] = first
  BY <1>3 DEF first
<1>5. RecentPayPeriods(2)[2] = second
  BY <1>3, <1>4 DEF second
<1> QED
  BY <1>4, <1>5 DEF first, second

\* As long as the locks fit the schedule, what an owner reads and what guards
\* changes agree on every day of the current and of the previous period.
THEOREM ListIsTheGuard == CalendarSpec => []ListedLocksGuardTheirDays
<1>1. ASSUME CalendarTypeOK
      PROVE  ListedLocksGuardTheirDays
  <2> SUFFICES ASSUME LocksFitSchedule, NEW i \in 1..2,
                      NEW d \in Days(RecentPayPeriods(2)[i])
               PROVE  NotInLockedPeriod(d)
                        <=> ListedStatus(RecentPayPeriods(2)[i]) = "open"
    BY DEF ListedLocksGuardTheirDays
  <2>1. schedule \in Schedule /\ today \in Date /\ Placed(today, schedule)
    BY <1>1, DatesArePlaced DEF CalendarTypeOK
  <2>2. PICK c : Placed(c, schedule) /\ RecentPayPeriods(2)[i] = PayPeriodFor(c, schedule)
    <3>1. CASE i = 1
      BY <2>1, <3>1, RecentTwo
    <3>2. CASE i = 2
      BY <2>1, <3>2, RecentTwo, DayBefore DEF PayPeriodFor
    <3> QED
      BY <3>1, <3>2
  <2>3. d \in Int /\ PeriodStart(c, schedule) <= d /\ d <= PeriodEnd(c, schedule)
    BY <2>1, <2>2, PeriodOfDay DEF Days, PayPeriodFor
  <2>4. /\ Placed(d, schedule)
        /\ PayPeriodFor(d, schedule) = RecentPayPeriods(2)[i]
    BY <2>1, <2>2, <2>3, PeriodOfDay DEF PayPeriodFor
  <2> QED
    BY <1>1, <2>4, DayIsGuardedAsListed
<1> QED
  BY <1>1, CalendarTypeCorrect, PTL

-----------------------------------------------------------------------------
(***************************************************************************)
(* Hours, clocks and locks.                                                *)
(***************************************************************************)
\* Every behaviour keeps hours, clocks and marks in the shape of their rows.
THEOREM PayrollTypeCorrect == PayrollSpec => []PayrollTypeOK
<1>1. PayrollInit => PayrollTypeOK
  BY PayrollAssumption, CalendarTypeInit DEF PayrollInit, PayrollTypeOK
<1>2. PayrollTypeOK /\ [PayrollNext]_payrollVars => PayrollTypeOK'
  <2> SUFFICES ASSUME PayrollTypeOK, [PayrollNext]_payrollVars
               PROVE  PayrollTypeOK'
    OBVIOUS
  <2>1. ASSUME UNCHANGED calendarVars
        PROVE  CalendarTypeOK'
    BY <2>1 DEF PayrollTypeOK, CalendarTypeOK, calendarVars
  <2>2. CASE CalendarNext /\ UNCHANGED workVars
    BY <2>2, CalendarTypeStep DEF PayrollTypeOK, workVars
  <2>3. ASSUME NEW w \in Worker, NEW d \in WorkDay, PunchIn(w, d)
        PROVE  PayrollTypeOK'
    <3>1. Marks(w, d, Unchecked(d)) \subseteq Worker \X WorkDay \X Scope
      BY DEF Marks, Unchecked
    <3> QED
      BY <2>1, <2>3, <3>1 DEF PayrollTypeOK, PunchIn
  <2>4. ASSUME NEW w \in Worker, NEW h \in Shift, PunchOut(w, h)
        PROVE  PayrollTypeOK'
    <3>1. h \in Nat /\ onClock[w] \in WorkDay
      BY <2>4, PayrollAssumption DEF PayrollTypeOK, PunchOut
    <3>2. hours' \in [Worker -> [WorkDay -> Nat]]
      BY <2>4, <3>1 DEF PayrollTypeOK, PunchOut
    <3>3. onClock' \in [Worker -> WorkDay \cup {None}]
      BY <2>4 DEF PayrollTypeOK, PunchOut
    <3> QED
      BY <2>1, <2>4, <3>2, <3>3 DEF PayrollTypeOK, PunchOut
  <2>5. ASSUME NEW w \in Worker, NEW d \in WorkDay, NEW h \in Shift \cup {0}, Correct(w, d, h)
        PROVE  PayrollTypeOK'
    <3>1. h \in Nat
      BY PayrollAssumption
    <3>2. hours' \in [Worker -> [WorkDay -> Nat]]
      BY <2>5, <3>1 DEF PayrollTypeOK, Correct
    <3>3. Marks(w, d, Scope) \subseteq Worker \X WorkDay \X Scope
      BY DEF Marks
    <3> QED
      BY <2>1, <2>5, <3>2, <3>3 DEF PayrollTypeOK, Correct
  <2>6. ASSUME NEW w \in Worker, Archive(w)
        PROVE  PayrollTypeOK'
    BY <2>1, <2>6 DEF PayrollTypeOK, Archive
  <2>7. ASSUME NEW e \in Enforcement, SetEnforcement(e)
        PROVE  PayrollTypeOK'
    BY <2>1, <2>7 DEF PayrollTypeOK, SetEnforcement
  <2>8. CASE UNCHANGED payrollVars
    BY <2>1, <2>8 DEF PayrollTypeOK, payrollVars, workVars, calendarVars
  <2> QED
    BY <2>2, <2>3, <2>4, <2>5, <2>6, <2>7, <2>8 DEF PayrollNext
<1> QED
  BY <1>1, <1>2, PTL DEF PayrollSpec

\* For every calendar, staff and caps: the hours of a locked day move only by
\* the punch-out of a shift begun on that day.
THEOREM LockedHoursAreFinal == PayrollSpec => LockedHoursMoveByPunchOnly
<1> DEFINE Moved(w, d, s) ==
      /\ periods[s].status = "locked" /\ s <= d /\ d <= periods[s].end
      /\ hours'[w][d] # hours[w][d]
<1>1. PayrollTypeOK /\ [PayrollNext]_payrollVars =>
        [\A w \in Worker, d \in WorkDay, s \in DOMAIN periods :
            Moved(w, d, s) => onClock[w] = d /\ onClock'[w] = None]_payrollVars
  <2> SUFFICES ASSUME PayrollTypeOK, PayrollNext,
                      NEW w \in Worker, NEW d \in WorkDay, NEW s \in DOMAIN periods,
                      Moved(w, d, s)
               PROVE  onClock[w] = d /\ onClock'[w] = None
    OBVIOUS
  <2>1. ASSUME NEW v \in Worker, NEW h \in Shift, PunchOut(v, h)
        PROVE  onClock[w] = d /\ onClock'[w] = None
    BY <2>1 DEF PunchOut, PayrollTypeOK
  <2>2. ASSUME NEW v \in Worker, NEW e \in WorkDay, NEW h \in Shift \cup {0}, Correct(v, e, h)
        PROVE  FALSE
    <3>1. v = w /\ e = d
      BY <2>2 DEF Correct, PayrollTypeOK
    <3> QED
      BY <2>2, <3>1 DEF Correct, NotInLockedPeriod, Covers
  <2>3. hours' # hours
    OBVIOUS
  <2> QED
    BY <2>1, <2>2, <2>3
       DEF PayrollNext, PunchIn, Archive, SetEnforcement, workVars
<1> QED
  BY <1>1, PayrollTypeCorrect, PTL DEF PayrollSpec, LockedHoursMoveByPunchOnly

-----------------------------------------------------------------------------
(***************************************************************************)
(* The hours of ranges of days, and how overtime splits them.              *)
(***************************************************************************)
\* p names its first and last day.
IsRange(p) == p.start \in Int /\ p.end \in Int

\* The days of a range on which there may be hours.
LEMMA RecordedDays ==
    ASSUME NEW p, IsRange(p)
    PROVE  /\ Recorded(p).start \in Int /\ Recorded(p).end \in Int
           /\ Recorded(p).start = AtLeast(p.start, FirstWorkDay)
           /\ Recorded(p).end = AtMost(p.end, LastWorkDay)
           /\ Recorded(p).start .. Recorded(p).end \subseteq WorkDay
<1>1. FirstWorkDay \in Int /\ LastWorkDay \in Int
  BY PayrollAssumption, PayPeriodsAssumption
<1> QED
  BY <1>1 DEF IsRange, Recorded, AtLeast, AtMost, WorkDay

\* Naturals add up to a natural over any range.
LEMMA OverDaysNat ==
    ASSUME NEW f \in [WorkDay -> Nat], NEW p, IsRange(p)
    PROVE  OverDays(f, p) \in Nat
<1>1. \A i \in Recorded(p).start .. Recorded(p).end : f[i] \in Nat
  BY RecordedDays
<1> QED
  BY <1>1, RecordedDays, SumNat DEF OverDays

\* The three parts of a day's hours under the Californian rules.
StraightOf(w) == [d \in WorkDay |-> AtMost(hours[w][d], 8)]
DailyOf(w) == [d \in WorkDay |-> AtMost(Over(hours[w][d], 8), 4)]
DoubleOf(w) == [d \in WorkDay |-> Over(hours[w][d], 12)]

\* A Californian day is cut into three parts.
LEMMA DayParts ==
    ASSUME PayrollTypeOK, NEW w \in Worker
    PROVE  /\ hours[w] \in [WorkDay -> Nat] /\ StraightOf(w) \in [WorkDay -> Nat]
           /\ DailyOf(w) \in [WorkDay -> Nat] /\ DoubleOf(w) \in [WorkDay -> Nat]
           /\ \A d \in WorkDay :
                hours[w][d] = (StraightOf(w)[d] + DailyOf(w)[d]) + DoubleOf(w)[d]
<1>1. hours[w] \in [WorkDay -> Nat]
  BY DEF PayrollTypeOK
<1>2. ASSUME NEW d \in WorkDay
      PROVE  /\ AtMost(hours[w][d], 8) \in Nat /\ AtMost(Over(hours[w][d], 8), 4) \in Nat
             /\ Over(hours[w][d], 12) \in Nat
             /\ hours[w][d] = (AtMost(hours[w][d], 8) + AtMost(Over(hours[w][d], 8), 4))
                              + Over(hours[w][d], 12)
  <2>1. hours[w][d] \in Nat
    BY <1>1
  <2> QED
    BY <2>1 DEF AtMost, Over
<1> QED
  BY <1>1, <1>2 DEF StraightOf, DailyOf, DoubleOf

\* So is a range of days.
LEMMA RangeParts ==
    ASSUME PayrollTypeOK, NEW w \in Worker, NEW p, IsRange(p)
    PROVE  /\ HoursIn(w, p) \in Nat
           /\ OverDays(StraightOf(w), p) \in Nat
           /\ OverDays(DailyOf(w), p) \in Nat
           /\ OverDays(DoubleOf(w), p) \in Nat
           /\ HoursIn(w, p) = (OverDays(StraightOf(w), p) + OverDays(DailyOf(w), p))
                              + OverDays(DoubleOf(w), p)
<1> DEFINE a == Recorded(p).start
           b == Recorded(p).end
           both == [d \in WorkDay |-> StraightOf(w)[d] + DailyOf(w)[d]]
<1>1. /\ a \in Int /\ b \in Int /\ a..b \subseteq WorkDay
  BY RecordedDays
<1>2. /\ hours[w] \in [WorkDay -> Nat] /\ StraightOf(w) \in [WorkDay -> Nat]
      /\ DailyOf(w) \in [WorkDay -> Nat] /\ DoubleOf(w) \in [WorkDay -> Nat]
      /\ \A d \in WorkDay : hours[w][d] = (StraightOf(w)[d] + DailyOf(w)[d]) + DoubleOf(w)[d]
  BY DayParts
<1>3. /\ \A d \in WorkDay : both[d] = StraightOf(w)[d] + DailyOf(w)[d]
      /\ \A d \in WorkDay : both[d] \in Nat
  BY <1>2
<1> HIDE DEF a, b, both
<1>4. SumFromTo(both, a, b) = SumFromTo(StraightOf(w), a, b) + SumFromTo(DailyOf(w), a, b)
  BY <1>1, <1>2, <1>3, SumPlus
<1>5. SumFromTo(hours[w], a, b) = SumFromTo(both, a, b) + SumFromTo(DoubleOf(w), a, b)
  BY <1>1, <1>2, <1>3, SumPlus
<1> QED
  BY <1>2, <1>4, <1>5, OverDaysNat DEF OverDays, HoursIn, a, b

\* What calculateOvertime makes of the days of a week adds up to their hours.
LEMMA WeekTotal ==
    ASSUME PayrollTypeOK, NEW w \in Worker, NEW p, IsRange(p), NEW j
    PROVE  /\ CalculateOvertime(w, p, j).regular \in Nat
           /\ CalculateOvertime(w, p, j).overtime \in Nat
           /\ CalculateOvertime(w, p, j).double \in Nat
           /\ CalculateOvertime(w, p, j).regular
                + (CalculateOvertime(w, p, j).overtime + CalculateOvertime(w, p, j).double)
                = HoursIn(w, p)
<1>1. /\ HoursIn(w, p) \in Nat
      /\ OverDays(StraightOf(w), p) \in Nat
      /\ OverDays(DailyOf(w), p) \in Nat
      /\ OverDays(DoubleOf(w), p) \in Nat
      /\ HoursIn(w, p) = (OverDays(StraightOf(w), p) + OverDays(DailyOf(w), p))
                         + OverDays(DoubleOf(w), p)
  BY RangeParts
<1>2. CASE j = "california"
  <2>1. /\ CalculateOvertime(w, p, j).regular = AtMost(OverDays(StraightOf(w), p), 40)
        /\ CalculateOvertime(w, p, j).overtime
             = OverDays(DailyOf(w), p) + Over(OverDays(StraightOf(w), p), 40)
        /\ CalculateOvertime(w, p, j).double = OverDays(DoubleOf(w), p)
    BY <1>2 DEF CalculateOvertime, California, StraightOf, DailyOf, DoubleOf
  <2> QED
    BY <1>1, <2>1 DEF AtMost, Over
<1>3. CASE j # "california"
  <2>1. /\ CalculateOvertime(w, p, j).regular = AtMost(HoursIn(w, p), 40)
        /\ CalculateOvertime(w, p, j).overtime = Over(HoursIn(w, p), 40)
        /\ CalculateOvertime(w, p, j).double = 0
    BY <1>3 DEF CalculateOvertime, Federal
  <2> QED
    BY <1>1, <2>1 DEF AtMost, Over
<1> QED
  BY <1>2, <1>3

\* A date lies in its week.
LEMMA WeekBounds ==
    ASSUME NEW d \in Int
    PROVE  WeekOf(d) \in Int /\ 7 * WeekOf(d) <= d /\ d <= 7 * WeekOf(d) + 6
BY DEF WeekOf

\* The part of a range in one week is a range.
LEMMA WeekPartRange ==
    ASSUME NEW p, IsRange(p), NEW k \in Int
    PROVE  /\ IsRange(WeekPart(p, k))
           /\ Recorded(WeekPart(p, k)).start = AtLeast(Recorded(p).start, 7 * k)
           /\ Recorded(WeekPart(p, k)).end = AtMost(Recorded(p).end, 7 * k + 6)
<1>1. FirstWorkDay \in Int /\ LastWorkDay \in Int
  BY PayrollAssumption, PayPeriodsAssumption
<1>2. WeekPart(p, k).start \in Int /\ WeekPart(p, k).end \in Int
  BY DEF IsRange, WeekPart, AtLeast, AtMost
<1> QED
  BY <1>1, <1>2 DEF IsRange, WeekPart, Recorded, AtLeast, AtMost

\* The hours of the weeks of a range are the hours of the range.
LEMMA WeeksAddUp ==
    ASSUME NEW f \in [WorkDay -> Nat], NEW p, IsRange(p), NEW h,
           \A k \in WeekOf(Recorded(p).start) .. WeekOf(Recorded(p).end) :
              h[k] = OverDays(f, WeekPart(p, k))
    PROVE  SumFromTo(h, WeekOf(Recorded(p).start), WeekOf(Recorded(p).end)) = OverDays(f, p)
<1> DEFINE s == Recorded(p).start
           e == Recorded(p).end
           a == WeekOf(s)
           b == WeekOf(e)
<1>1. s \in Int /\ e \in Int /\ s..e \subseteq WorkDay
  BY RecordedDays
<1>2. /\ a \in Int /\ 7 * a <= s /\ s <= 7 * a + 6
      /\ b \in Int /\ 7 * b <= e /\ e <= 7 * b + 6
  BY <1>1, WeekBounds
<1>3. OverDays(f, p) = SumFromTo(f, s, e)
  BY DEF OverDays
<1>4. ASSUME NEW k \in a..b
      PROVE  h[k] = SumFromTo(f, AtLeast(s, 7 * k), AtMost(e, 7 * k + 6))
  BY <1>2, WeekPartRange DEF OverDays
<1>5. \A i \in s..e : f[i] \in Nat
  BY <1>1
<1> HIDE DEF s, e, a, b
<1>6. CASE b < a
  BY <1>1, <1>2, <1>6, <1>3, SumEmpty DEF a, b, s, e
<1>7. CASE a <= b
  <2> DEFINE S == {k \in (a - 1)..b :
                     SumFromTo(h, a, k) = SumFromTo(f, s, AtMost(e, 7 * k + 6))}
  <2>1. a - 1 \in S
    <3>1. SumFromTo(h, a, a - 1) = 0
      BY <1>2, SumEmpty
    <3>2. AtMost(e, 7 * (a - 1) + 6) \in Int /\ AtMost(e, 7 * (a - 1) + 6) < s
      BY <1>1, <1>2 DEF AtMost
    <3>3. SumFromTo(f, s, AtMost(e, 7 * (a - 1) + 6)) = 0
      BY <1>1, <3>2, SumEmpty
    <3> QED
      BY <1>2, <1>7, <3>1, <3>3
  <2>2. ASSUME NEW k \in (a - 1)..(b - 1), k \in S
        PROVE  k + 1 \in S
    <3> DEFINE m == 7 * k + 6
               n == AtMost(e, 7 * (k + 1) + 6)
    <3>1. k \in Int /\ k + 1 \in a..b /\ (k + 1) - 1 = k
      BY <1>2
    <3>2. SumFromTo(h, a, k + 1) = SumFromTo(h, a, k) + h[k + 1]
      BY <1>2, <3>1, SumStep
    <3>3. m \in Int /\ n \in Int /\ m <= n /\ m < e /\ n <= e
      <4>1. k <= b - 1 /\ a - 1 <= k /\ m = 7 * k + 6 /\ 7 * (k + 1) + 6 = m + 7
        BY <3>1, <1>2
      <4>2. n = IF e < m + 7 THEN e ELSE m + 7
        BY <4>1 DEF AtMost
      <4>3. m \in Int /\ m < e
        BY <4>1, <3>1, <1>1, <1>2
      <4> HIDE DEF m, n
      <4> QED
        BY <4>2, <4>3, <1>1
    <3>4. AtMost(e, m) = m
      BY <1>1, <3>3 DEF AtMost
    <3>5. SumFromTo(h, a, k) = SumFromTo(f, s, m)
      BY <2>2, <3>4
    <3>6. h[k + 1] = SumFromTo(f, AtLeast(s, 7 * (k + 1)), n)
      BY <1>4, <3>1
    <3>7. SumFromTo(f, s, n) = SumFromTo(f, s, m) + SumFromTo(f, AtLeast(s, 7 * (k + 1)), n)
      <4>1. \A i \in s..n : f[i] \in Nat
        BY <1>1, <1>5, <3>3
      <4>2. m + 1 = 7 * (k + 1)
        BY <3>1
      <4> HIDE DEF m, n
      <4>3. CASE m + 1 >= s
        <5>1. AtLeast(s, 7 * (k + 1)) = m + 1
          BY <1>1, <3>3, <4>2, <4>3 DEF AtLeast
        <5>2. SumFromTo(f, s, n) = SumFromTo(f, s, m) + SumFromTo(f, m + 1, n)
          BY <1>1, <3>3, <4>1, <4>3, SumSplit
        <5> QED
          BY <5>1, <5>2
      <4>4. CASE m + 1 < s
        <5>1. AtLeast(s, 7 * (k + 1)) = s
          BY <1>1, <3>3, <4>2, <4>4 DEF AtLeast
        <5>2. SumFromTo(f, s, m) = 0
          BY <1>1, <3>3, <4>4, SumEmpty
        <5>3. SumFromTo(f, s, n) \in Nat
          BY <1>1, <3>3, <4>1, SumNat
        <5> QED
          BY <5>1, <5>2, <5>3
      <4> QED
        BY <1>1, <3>3, <4>3, <4>4
    <3>8. SumFromTo(h, a, k + 1) = SumFromTo(f, s, n)
      <4> HIDE DEF m, n, S
      <4> QED
        BY <3>2, <3>5, <3>6, <3>7
    <3>9. k + 1 \in (a - 1)..b
      BY <1>2, <3>1
    <3> QED
      BY <3>8, <3>9
  <2> HIDE DEF S
  <2>3. b \in S
    BY <1>2, <1>7, <2>1, <2>2, UpByInduction
  <2>4. AtMost(e, 7 * b + 6) = e
    BY <1>1, <1>2 DEF AtMost
  <2> QED
    BY <1>3, <2>3, <2>4 DEF S, a, b, s, e
<1> QED
  BY <1>2, <1>6, <1>7

\* What the three fields of Overtime add up, week by week.
RegularOf(w, p, j) == [k \in WeekOf(Recorded(p).start) .. WeekOf(Recorded(p).end) |->
                          CalculateOvertime(w, WeekPart(p, k), j).regular]
OvertimeOf(w, p, j) == [k \in WeekOf(Recorded(p).start) .. WeekOf(Recorded(p).end) |->
                          CalculateOvertime(w, WeekPart(p, k), j).overtime]
DoubleTimeOf(w, p, j) == [k \in WeekOf(Recorded(p).start) .. WeekOf(Recorded(p).end) |->
                          CalculateOvertime(w, WeekPart(p, k), j).double]

\* The overtime rules neither lose nor invent an hour, over any range.
LEMMA OvertimeTotal ==
    ASSUME PayrollTypeOK, NEW w \in Worker, NEW p, IsRange(p), NEW j
    PROVE  /\ Overtime(w, p, j).regular \in Nat
           /\ Overtime(w, p, j).overtime \in Nat
           /\ Overtime(w, p, j).double \in Nat
           /\ TotalOf(Overtime(w, p, j)) = HoursIn(w, p)
           /\ HoursIn(w, p) \in Nat
<1> DEFINE a == WeekOf(Recorded(p).start)
           b == WeekOf(Recorded(p).end)
           r == RegularOf(w, p, j)
           o == OvertimeOf(w, p, j)
           t == DoubleTimeOf(w, p, j)
           q == [k \in a..b |-> o[k] + t[k]]
           h == [k \in a..b |-> OverDays(hours[w], WeekPart(p, k))]
<1>1. a \in Int /\ b \in Int
  BY RecordedDays, WeekBounds
<1>2. ASSUME NEW k \in a..b
      PROVE  /\ r[k] \in Nat /\ o[k] \in Nat /\ t[k] \in Nat
             /\ q[k] = o[k] + t[k] /\ q[k] \in Nat
             /\ h[k] = r[k] + q[k]
             /\ h[k] = OverDays(hours[w], WeekPart(p, k))
  <2>1. k \in Int /\ IsRange(WeekPart(p, k))
    BY <1>1, WeekPartRange
  <2>2. /\ r[k] = CalculateOvertime(w, WeekPart(p, k), j).regular
        /\ o[k] = CalculateOvertime(w, WeekPart(p, k), j).overtime
        /\ t[k] = CalculateOvertime(w, WeekPart(p, k), j).double
        /\ q[k] = o[k] + t[k]
        /\ h[k] = OverDays(hours[w], WeekPart(p, k))
    BY DEF RegularOf, OvertimeOf, DoubleTimeOf
  <2> HIDE DEF r, o, t, q, h
  <2>3. /\ r[k] \in Nat /\ o[k] \in Nat /\ t[k] \in Nat
        /\ r[k] + (o[k] + t[k]) = h[k]
    BY <2>1, <2>2, WeekTotal DEF HoursIn
  <2> QED
    BY <2>2, <2>3
<1>3. /\ Overtime(w, p, j).regular = SumFromTo(r, a, b)
      /\ Overtime(w, p, j).overtime = SumFromTo(o, a, b)
      /\ Overtime(w, p, j).double = SumFromTo(t, a, b)
  BY DEF Overtime, RegularOf, OvertimeOf, DoubleTimeOf
<1>4. hours[w] \in [WorkDay -> Nat]
  BY DEF PayrollTypeOK
<1>5. \A k \in WeekOf(Recorded(p).start) .. WeekOf(Recorded(p).end) :
        h[k] = OverDays(hours[w], WeekPart(p, k))
  OBVIOUS
<1> HIDE DEF r, o, t, q, h
<1>6. SumFromTo(h, a, b) = HoursIn(w, p)
  BY <1>4, <1>5, WeeksAddUp DEF HoursIn
<1> HIDE DEF a, b
<1>7. SumFromTo(q, a, b) = SumFromTo(o, a, b) + SumFromTo(t, a, b)
  BY <1>1, <1>2, SumPlus
<1>8. SumFromTo(h, a, b) = SumFromTo(r, a, b) + SumFromTo(q, a, b)
  BY <1>1, <1>2, SumPlus
<1>9. SumFromTo(r, a, b) \in Nat /\ SumFromTo(o, a, b) \in Nat /\ SumFromTo(t, a, b) \in Nat
  BY <1>1, <1>2, SumNat
<1> QED
  BY <1>3, <1>6, <1>7, <1>8, <1>9 DEF TotalOf, Premium

-----------------------------------------------------------------------------
(***************************************************************************)
(* The three sums of the same entries.                                     *)
(***************************************************************************)
\* The period that contains today is a range.
LEMMA CurrentRange == ASSUME CalendarTypeOK PROVE IsRange(Current)
BY DatesArePlaced, PeriodOfDay DEF CalendarTypeOK, IsRange, Current, PayPeriodFor

\* A timesheet shows the hours of its worker, however it splits them.
LEMMA OwnTotal ==
    ASSUME PayrollTypeOK, NEW w \in Worker, NEW p, IsRange(p), NEW j
    PROVE  TotalOf(OwnTimesheet(w, p, j)) = HoursIn(w, p)
<1>1. TotalOf(Overtime(w, p, j)) = HoursIn(w, p) /\ HoursIn(w, p) \in Nat
  BY OvertimeTotal
<1>2. TotalOf(StraightTime(w, p)) = HoursIn(w, p)
  BY <1>1 DEF StraightTime, TotalOf, Premium
<1> QED
  BY <1>1, <1>2 DEF OwnTimesheet

\* A total of a set of workers that adds up their hours.
LEMMA TotalOfWorkers ==
    ASSUME PayrollTypeOK, NEW p, IsRange(p), NEW S \in SUBSET Worker, NEW f,
           \A w \in S : f[w] = HoursIn(w, p)
    PROVE  SumFunctionOnSet(f, S) = SumFunctionOnSet([w \in Worker |-> HoursIn(w, p)], S)
<1>1. IsFiniteSet(S)
  BY PayrollAssumption, FS_Subset
<1> DEFINE g == [w \in Worker |-> HoursIn(w, p)]
<1>2. \A w \in S : f[w] = g[w]
  OBVIOUS
<1> HIDE DEF g
<1>3. SumFunctionOnSet(f, S) = SumFunctionOnSet(g, S)
  BY <1>1, <1>2, SetSumSame
<1> QED
  BY <1>3 DEF g

\* The three totals differ by the hours of the workers left out.
LEMMA SumsOfState == ASSUME PayrollTypeOK PROVE SumsDifferByWorkersOnly
<1> DEFINE p == Current
           g == [w \in Worker |-> HoursIn(w, p)]
           free == {w \in active : Staff[w].rate = 0}
           of(ws) == SumFunctionOnSet([w \in ws |-> HoursIn(w, p)], ws)
<1>1. IsRange(p)
  BY CurrentRange DEF PayrollTypeOK
<1>2. active \subseteq Worker /\ IsFiniteSet(Worker)
  BY PayrollAssumption DEF PayrollTypeOK
<1>3. \A w \in Worker : g[w] = HoursIn(w, p) /\ g[w] \in Int
  BY <1>1, OvertimeTotal
<1> SUFFICES ASSUME NEW j \in Jurisdiction
             PROVE  /\ ListedHours(p) = SheetTotal(p, j) + of(Worker \ active)
                    /\ SheetTotal(p, j) = ReportTotals(p, j).downloaded + of(free)
  BY DEF SumsDifferByWorkersOnly, ReportTotals
<1>4. ASSUME NEW S \in SUBSET Worker
      PROVE  of(S) = SumFunctionOnSet(g, S) /\ IsFiniteSet(S)
  <2> DEFINE f == [w \in S |-> HoursIn(w, p)]
  <2>1. \A w \in S : f[w] = HoursIn(w, p)
    OBVIOUS
  <2> HIDE DEF f, p
  <2>2. SumFunctionOnSet(f, S) = SumFunctionOnSet(g, S)
    BY <1>1, <2>1, TotalOfWorkers
  <2> QED
    BY <1>2, <2>2, FS_Subset DEF f
<1>5. SheetTotal(p, j) = SumFunctionOnSet(g, active)
  <2> DEFINE f == [w \in active |-> TotalOf(Overtime(w, p, j))]
  <2>1. \A w \in active : f[w] = HoursIn(w, p)
    BY <1>1, <1>2, OvertimeTotal
  <2>2. SheetTotal(p, j) = SumFunctionOnSet(f, active)
    BY DEF SheetTotal, TimesheetRows, AdminTimesheet
  <2> HIDE DEF f, p
  <2> QED
    BY <1>1, <1>2, <2>1, <2>2, TotalOfWorkers
<1>6. ReportTotals(p, j).downloaded = SumFunctionOnSet(g, ExportedWorkers)
  <2> DEFINE f == [w \in ExportedWorkers |-> TotalOf(OwnTimesheet(w, p, j))]
  <2>1. ExportedWorkers \in SUBSET Worker
    BY <1>2 DEF ExportedWorkers
  <2>2. \A w \in ExportedWorkers : f[w] = HoursIn(w, p)
    BY <1>1, <2>1, OwnTotal
  <2>3. ReportTotals(p, j).downloaded = SumFunctionOnSet(f, ExportedWorkers)
    BY DEF ReportTotals, ExportLine
  <2> HIDE DEF f, p
  <2> QED
    BY <1>1, <2>1, <2>2, <2>3, TotalOfWorkers
<1>7. ListedHours(p) = SumFunctionOnSet(g, Worker)
  BY DEF ListedHours
<1>8. /\ Worker = active \cup (Worker \ active)
      /\ active \cap (Worker \ active) = {}
      /\ active \in SUBSET Worker /\ Worker \ active \in SUBSET Worker
  BY <1>2
<1>9. /\ active = ExportedWorkers \cup free
      /\ ExportedWorkers \cap free = {}
      /\ ExportedWorkers \in SUBSET Worker /\ free \in SUBSET Worker
  <2>1. \A w \in active : Staff[w].rate \in Nat
    BY <1>2, PayrollAssumption
  <2> QED
    BY <1>2, <2>1 DEF ExportedWorkers
<1> HIDE DEF g, free, p
<1>10. SumFunctionOnSet(g, Worker)
         = SumFunctionOnSet(g, active) + SumFunctionOnSet(g, Worker \ active)
  <2>1. IsFiniteSet(active) /\ IsFiniteSet(Worker \ active)
    BY <1>4, <1>8
  <2> QED
    BY <1>3, <1>8, <2>1, SetSumUnion
<1>11. SumFunctionOnSet(g, active)
         = SumFunctionOnSet(g, ExportedWorkers) + SumFunctionOnSet(g, free)
  <2>1. IsFiniteSet(ExportedWorkers) /\ IsFiniteSet(free)
    BY <1>4, <1>9
  <2> QED
    BY <1>3, <1>9, <2>1, SetSumUnion
<1> QED
  BY <1>4, <1>5, <1>6, <1>7, <1>8, <1>9, <1>10, <1>11

\* For every staff, calendar and history of hours: the hours an owner locks
\* against, those of the timesheets and those of the export differ by the
\* archived and the unrated workers and by nothing else.
THEOREM SumsAgree == PayrollSpec => []SumsDifferByWorkersOnly
BY PayrollTypeCorrect, SumsOfState, PTL

-----------------------------------------------------------------------------
(***************************************************************************)
(* Journal entries.                                                        *)
(***************************************************************************)
\* The gross pay is a whole number of cents.
LEMMA GrossPayInt ==
    ASSUME PayrollTypeOK, NEW w \in Worker, NEW j
    PROVE  GrossPay(w, Current, j) \in Int
<1> DEFINE line == ExportLine(w, Current, j)
           n == (2 * line.regular + 3 * line.overtime + 4 * line.double) * Staff[w].rate
<1>1. IsRange(Current)
  BY CurrentRange DEF PayrollTypeOK
<1>2. line.regular \in Nat /\ line.overtime \in Nat /\ line.double \in Nat
  BY <1>1, OvertimeTotal DEF ExportLine, OwnTimesheet, StraightTime
<1>3. Staff[w].rate \in Nat
  BY PayrollAssumption
<1>4. GrossPay(w, Current, j) = Round(n, 2)
  BY DEF GrossPay
<1> HIDE DEF line
<1>5. n \in Int
  BY <1>2, <1>3
<1> HIDE DEF n
<1> QED
  BY <1>4, <1>5 DEF Round

\* The parts of a W-2 pay are whole cents, and add up to the gross.
LEMMA BreakdownParts ==
    ASSUME NEW gross \in Int
    PROVE  LET b == W2Breakdown(gross) IN
           /\ b.federal \in Int /\ b.state \in Int /\ b.fica \in Int /\ b.net \in Int
           /\ b.net = gross - b.federal - b.state - b.fica
<1>1. /\ Round(gross * 10, 100) \in Int /\ Round(gross * 5, 100) \in Int
      /\ Round(gross * 765, 10000) \in Int
  BY DEF Round
<1> QED
  BY <1>1 DEF W2Breakdown

\* An entry balances whatever the gross pay.
LEMMA EntryBalances ==
    ASSUME NEW gross \in Int, NEW type, NEW entry, entry = JournalEntry(type, gross)
    PROVE  SumFunctionOnSet([l \in entry |-> l.amount], entry) = 0
<1> DEFINE f == [l \in entry |-> l.amount]
<1>0. SumFunctionOnSet(f, {}) = 0 /\ IsFiniteSet({})
  BY SetSumEmpty, FS_EmptySet
<1>1. CASE type = "W2"
  <2> DEFINE b == W2Breakdown(gross)
             l1 == Debit("laborExpense", gross)
             l2 == Debit("payrollTaxExpense", b.fica)
             l3 == Credit("wagesPayable", b.net)
             l4 == Credit("federalTaxPayable", b.federal)
             l5 == Credit("stateTaxPayable", b.state)
             l6 == Credit("ficaPayable", b.fica + b.fica)
  <2>1. /\ b.federal \in Int /\ b.state \in Int /\ b.fica \in Int /\ b.net \in Int
        /\ b.net = gross - b.federal - b.state - b.fica
    BY BreakdownParts
  <2>2. entry = {l1, l2, l3, l4, l5, l6}
    BY <1>1 DEF JournalEntry
  <2> HIDE DEF b
  <2>3. /\ l1.amount = gross /\ l2.amount = b.fica /\ l3.amount = -b.net
        /\ l4.amount = -b.federal /\ l5.amount = -b.state /\ l6.amount = -(b.fica + b.fica)
    BY DEF Debit, Credit
  <2>4. /\ l2 # l1
        /\ l3 \notin {l1, l2} /\ l4 \notin {l1, l2, l3}
        /\ l5 \notin {l1, l2, l3, l4} /\ l6 \notin {l1, l2, l3, l4, l5}
    BY DEF Debit, Credit
  <2> HIDE DEF l1, l2, l3, l4, l5, l6
  <2>5. /\ f[l1] = gross /\ f[l2] = b.fica /\ f[l3] = -b.net
        /\ f[l4] = -b.federal /\ f[l5] = -b.state /\ f[l6] = -(b.fica + b.fica)
    BY <2>2, <2>3
  <2> HIDE DEF f
  <2>6. \A l \in {l1, l2, l3, l4, l5, l6} : f[l] \in Int
    BY <2>1, <2>5
  <2>7. SumFunctionOnSet(f, {l1}) = gross /\ IsFiniteSet({l1})
    <3>1. SumFunctionOnSet(f, {} \cup {l1}) = f[l1] + SumFunctionOnSet(f, {})
          /\ IsFiniteSet({} \cup {l1})
      BY <1>0, <2>6, SetSumAdd
    <3>2. {} \cup {l1} = {l1}
      OBVIOUS
    <3> QED
      BY <1>0, <2>5, <3>1, <3>2
  <2>8. SumFunctionOnSet(f, {l1, l2}) = b.fica + gross /\ IsFiniteSet({l1, l2})
    <3>1. SumFunctionOnSet(f, {l1} \cup {l2}) = f[l2] + SumFunctionOnSet(f, {l1})
          /\ IsFiniteSet({l1} \cup {l2})
      BY <2>4, <2>6, <2>7, SetSumAdd
    <3>2. {l1} \cup {l2} = {l1, l2}
      OBVIOUS
    <3> QED
      BY <2>5, <2>7, <3>1, <3>2
  <2>9. SumFunctionOnSet(f, {l1, l2, l3}) = -b.net + (b.fica + gross)
        /\ IsFiniteSet({l1, l2, l3})
    <3>1. SumFunctionOnSet(f, {l1, l2} \cup {l3}) = f[l3] + SumFunctionOnSet(f, {l1, l2})
          /\ IsFiniteSet({l1, l2} \cup {l3})
      BY <2>4, <2>6, <2>8, SetSumAdd
    <3>2. {l1, l2} \cup {l3} = {l1, l2, l3}
      OBVIOUS
    <3> QED
      BY <2>5, <2>8, <3>1, <3>2
  <2>10. SumFunctionOnSet(f, {l1, l2, l3, l4}) = -b.federal + (-b.net + (b.fica + gross))
         /\ IsFiniteSet({l1, l2, l3, l4})
    <3>1. /\ SumFunctionOnSet(f, {l1, l2, l3} \cup {l4})
               = f[l4] + SumFunctionOnSet(f, {l1, l2, l3})
          /\ IsFiniteSet({l1, l2, l3} \cup {l4})
      BY <2>4, <2>6, <2>9, SetSumAdd
    <3>2. {l1, l2, l3} \cup {l4} = {l1, l2, l3, l4}
      OBVIOUS
    <3> QED
      BY <2>5, <2>9, <3>1, <3>2
  <2>11. SumFunctionOnSet(f, {l1, l2, l3, l4, l5})
           = -b.state + (-b.federal + (-b.net + (b.fica + gross)))
         /\ IsFiniteSet({l1, l2, l3, l4, l5})
    <3>1. /\ SumFunctionOnSet(f, {l1, l2, l3, l4} \cup {l5})
               = f[l5] + SumFunctionOnSet(f, {l1, l2, l3, l4})
          /\ IsFiniteSet({l1, l2, l3, l4} \cup {l5})
      BY <2>4, <2>6, <2>10, SetSumAdd
    <3>2. {l1, l2, l3, l4} \cup {l5} = {l1, l2, l3, l4, l5}
      OBVIOUS
    <3> QED
      BY <2>5, <2>10, <3>1, <3>2
  <2>12. SumFunctionOnSet(f, {l1, l2, l3, l4, l5, l6})
           = -(b.fica + b.fica) + (-b.state + (-b.federal + (-b.net + (b.fica + gross))))
    <3>1. SumFunctionOnSet(f, {l1, l2, l3, l4, l5} \cup {l6})
            = f[l6] + SumFunctionOnSet(f, {l1, l2, l3, l4, l5})
      BY <2>4, <2>6, <2>11, SetSumAdd
    <3>2. {l1, l2, l3, l4, l5} \cup {l6} = {l1, l2, l3, l4, l5, l6}
      OBVIOUS
    <3> QED
      BY <2>5, <2>11, <3>1, <3>2
  <2>13. SumFunctionOnSet(f, entry) = 0
    BY <2>1, <2>2, <2>12
  <2> QED
    BY <2>13 DEF f
<1>2. CASE type # "W2"
  <2> DEFINE l1 == Debit("contractorExpense", gross)
             l2 == Credit("accountsPayable", gross)
  <2>1. entry = {l1, l2}
    BY <1>2 DEF JournalEntry
  <2>2. l1.amount = gross /\ l2.amount = -gross /\ l2 # l1
    BY DEF Debit, Credit
  <2> HIDE DEF l1, l2
  <2>3. f[l1] = gross /\ f[l2] = -gross
    BY <2>1, <2>2
  <2> HIDE DEF f
  <2>4. SumFunctionOnSet(f, {l1}) = gross /\ IsFiniteSet({l1})
    <3>1. SumFunctionOnSet(f, {} \cup {l1}) = f[l1] + SumFunctionOnSet(f, {})
          /\ IsFiniteSet({} \cup {l1})
      BY <1>0, <2>3, SetSumAdd
    <3>2. {} \cup {l1} = {l1}
      OBVIOUS
    <3> QED
      BY <1>0, <2>3, <3>1, <3>2
  <2>5. SumFunctionOnSet(f, {l1} \cup {l2}) = f[l2] + SumFunctionOnSet(f, {l1})
    <3>1. l2 \notin {l1}
      BY <2>2
    <3>2. \A l \in {l1} \cup {l2} : f[l] \in Int
      BY <2>3
    <3> QED
      BY <2>4, <3>1, <3>2, SetSumAdd
  <2>6. {l1} \cup {l2} = entry
    BY <2>1
  <2>7. SumFunctionOnSet(f, entry) = 0
    BY <2>3, <2>4, <2>5, <2>6
  <2> QED
    BY <2>7 DEF f
<1> QED
  BY <1>1, <1>2

\* For every staff, rate and history of hours, the entry of every exported
\* worker balances to the cent.
THEOREM EntriesBalance == PayrollSpec => []JournalsBalance
<1>1. PayrollTypeOK => JournalsBalance
  <2> SUFFICES ASSUME PayrollTypeOK, NEW w \in ExportedWorkers, NEW j \in Jurisdiction
               PROVE  LET gross == GrossPay(w, Current, j)
                          entry == JournalEntry(Staff[w].type, gross)
                      IN  SumFunctionOnSet([l \in entry |-> l.amount], entry) = 0
    BY DEF JournalsBalance
  <2>1. w \in Worker
    BY DEF ExportedWorkers, PayrollTypeOK
  <2> QED
    BY <2>1, GrossPayInt, EntryBalances
<1> QED
  BY <1>1, PayrollTypeCorrect, PTL

-----------------------------------------------------------------------------
(***************************************************************************)
(* What the caps bound.                                                    *)
(***************************************************************************)
\* A finite set of naturals has a greatest member.
LEMMA GreatestExists ==
    ASSUME NEW S \in SUBSET Nat, IsFiniteSet(S), S # {}
    PROVE  \E h \in S : \A k \in S : k <= h
<1> DEFINE Top(s) == s # {} => \E h \in s : \A k \in s : k <= h
           T == {n \in Nat : \A s \in SUBSET S : Cardinality(s) = n => Top(s)}
<1>1. \A s \in SUBSET S : IsFiniteSet(s) /\ Cardinality(s) \in Nat
  BY FS_Subset, FS_CardinalityType
<1>2. 0 \in T
  <2>1. ASSUME NEW s \in SUBSET S, Cardinality(s) = 0
        PROVE  s = {}
    BY <1>1, <2>1, FS_EmptySet
  <2> QED
    BY <2>1
<1>3. ASSUME NEW n \in T
      PROVE  n + 1 \in T
  <2>1. n \in Nat /\ n + 1 \in Nat
    OBVIOUS
  <2>2. ASSUME NEW s \in SUBSET S, Cardinality(s) = n + 1, NEW x \in s
        PROVE  Top(s)
    <3>1. s \ {x} \in SUBSET S /\ Cardinality(s \ {x}) = n
      BY <1>1, <2>1, <2>2, SmallerSet
    <3>2. Top(s \ {x})
      BY <3>1
    <3>3. \A k \in s : k \in Nat
      OBVIOUS
    <3>4. CASE s \ {x} = {}
      BY <3>3, <3>4
    <3>5. CASE s \ {x} # {}
      <4>1. PICK h \in s \ {x} : \A k \in s \ {x} : k <= h
        BY <3>2, <3>5
      <4>2. CASE h <= x
        BY <3>3, <4>1, <4>2
      <4>3. CASE x <= h
        BY <3>3, <4>1, <4>3
      <4> QED
        BY <3>3, <4>2, <4>3
    <3> QED
      BY <3>4, <3>5
  <2> HIDE DEF Top
  <2>3. ASSUME NEW s \in SUBSET S, Cardinality(s) = n + 1
        PROVE  Top(s)
    <3>1. CASE s = {}
      BY <3>1 DEF Top
    <3>2. CASE s # {}
      BY <2>2, <2>3, <3>2
    <3> QED
      BY <3>1, <3>2
  <2> QED
    BY <2>1, <2>3
<1> HIDE DEF T
<1>4. T = Nat
  <2>1. T \subseteq Nat
    BY DEF T
  <2> QED
    BY <1>2, <1>3, <2>1, NatsByInduction
<1>5. Cardinality(S) \in T /\ S \in SUBSET S
  BY <1>1, <1>4
<1>6. Top(S)
  BY <1>5 DEF T
<1> QED
  BY <1>6

\* No shift is longer than the longest, which is some time.
LEMMA LongestShiftBounds ==
    LongestShift \in Nat /\ LongestShift > 0 /\ \A h \in Shift : h \in Nat /\ h <= LongestShift
<1>1. Shift \in SUBSET Nat /\ IsFiniteSet(Shift) /\ \E h \in Shift : h > 0
  BY PayrollAssumption
<1>2. \E h \in Shift : \A k \in Shift : k <= h
  BY <1>1, GreatestExists
<1>3. LongestShift \in Shift /\ \A k \in Shift : k <= LongestShift
  BY <1>2 DEF LongestShift
<1> QED
  BY <1>1, <1>3

\* The sum over a range of days looks at the days of the range.
LEMMA OverDaysSame ==
    ASSUME NEW f, NEW g, NEW p, IsRange(p),
           \A i \in WorkDay : p.start <= i /\ i <= p.end => f[i] = g[i]
    PROVE  OverDays(f, p) = OverDays(g, p)
<1>1. /\ Recorded(p).start \in Int /\ Recorded(p).end \in Int
      /\ Recorded(p).start .. Recorded(p).end \subseteq WorkDay
      /\ p.start <= Recorded(p).start /\ Recorded(p).end <= p.end
  <2>1. FirstWorkDay \in Int /\ LastWorkDay \in Int
    BY PayrollAssumption, PayPeriodsAssumption
  <2> QED
    BY <2>1, RecordedDays DEF IsRange, AtLeast, AtMost
<1>2. \A i \in Recorded(p).start .. Recorded(p).end : f[i] = g[i]
  BY <1>1 DEF IsRange
<1> QED
  BY <1>1, <1>2, SumSame DEF OverDays

\* A shift adds its hours to every range that holds its day.
LEMMA OverDaysGrows ==
    ASSUME NEW f \in [WorkDay -> Nat], NEW g, NEW p, IsRange(p), NEW n \in Nat,
           NEW d \in WorkDay, p.start <= d, d <= p.end,
           \A i \in WorkDay : g[i] = IF i = d THEN f[i] + n ELSE f[i]
    PROVE  OverDays(g, p) = OverDays(f, p) + n
<1>1. /\ Recorded(p).start \in Int /\ Recorded(p).end \in Int
      /\ Recorded(p).start .. Recorded(p).end \subseteq WorkDay
      /\ Recorded(p).start = AtLeast(p.start, FirstWorkDay)
      /\ Recorded(p).end = AtMost(p.end, LastWorkDay)
  BY RecordedDays
<1>2. d \in Recorded(p).start .. Recorded(p).end
  <2>1. FirstWorkDay \in Int /\ LastWorkDay \in Int
    BY PayrollAssumption, PayPeriodsAssumption
  <2> QED
    BY <1>1, <2>1 DEF IsRange, AtLeast, AtMost, WorkDay
<1>3. /\ \A i \in Recorded(p).start .. Recorded(p).end : f[i] \in Nat
      /\ \A i \in Recorded(p).start .. Recorded(p).end : g[i] = IF i = d THEN f[i] + n ELSE f[i]
  BY <1>1
<1> DEFINE a == Recorded(p).start
           b == Recorded(p).end
<1>4. SumFromTo(g, a, b) = SumFromTo(f, a, b) + n
  <2> HIDE DEF a, b
  <2>1. a \in Int /\ b \in Int /\ d \in a..b
    BY <1>1, <1>2 DEF a, b
  <2>2. /\ \A i \in a..b : f[i] \in Nat /\ g[i] \in Nat
        /\ \A i \in a..b : i # d => f[i] = g[i]
        /\ f[d] \in Nat /\ g[d] = f[d] + n
    BY <1>3, <2>1 DEF a, b
  <2>3. /\ SumFromTo(f, a, b) = SumFromTo(f, a, d) + SumFromTo(f, d + 1, b)
        /\ SumFromTo(g, a, b) = SumFromTo(g, a, d) + SumFromTo(g, d + 1, b)
    BY <2>1, <2>2, SumSplit
  <2>4. /\ SumFromTo(f, a, d) = SumFromTo(f, a, d - 1) + f[d]
        /\ SumFromTo(g, a, d) = SumFromTo(g, a, d - 1) + g[d]
    BY <2>1, SumStep
  <2>5. SumFromTo(f, a, d - 1) = SumFromTo(g, a, d - 1)
    BY <2>1, <2>2, SumSame
  <2>6. SumFromTo(f, d + 1, b) = SumFromTo(g, d + 1, b)
    BY <2>1, <2>2, SumSame
  <2>7. SumFromTo(f, a, d - 1) \in Nat /\ SumFromTo(f, d + 1, b) \in Nat
    BY <2>1, <2>2, SumNat
  <2> QED
    BY <2>2, <2>3, <2>4, <2>5, <2>6, <2>7
<1> QED
  BY <1>4 DEF OverDays

\* A longer range holds no fewer hours.
LEMMA OverDaysLonger ==
    ASSUME NEW f \in [WorkDay -> Nat], NEW p, NEW q, IsRange(p), IsRange(q),
           q.start <= p.start, p.end <= q.end \/ LastWorkDay <= q.end
    PROVE  OverDays(f, p) <= OverDays(f, q)
<1> DEFINE a == Recorded(q).start
           c == Recorded(p).start
           m == Recorded(p).end
           b == Recorded(q).end
<1>1. /\ a \in Int /\ c \in Int /\ m \in Int /\ b \in Int
      /\ a..b \subseteq WorkDay /\ a <= c /\ m <= b
  <2>1. FirstWorkDay \in Int /\ LastWorkDay \in Int
    BY PayrollAssumption, PayPeriodsAssumption
  <2>2. m <= b
    BY <2>1 DEF Recorded, AtMost, IsRange
  <2>3. a <= c
    BY <2>1 DEF Recorded, AtLeast, IsRange
  <2> QED
    BY <2>2, <2>3, RecordedDays
<1>2. \A i \in a..b : f[i] \in Nat
  BY <1>1
<1>3. OverDays(f, p) = SumFromTo(f, c, m) /\ OverDays(f, q) = SumFromTo(f, a, b)
  BY DEF OverDays
<1> HIDE DEF a, c, m, b
<1>4. SumFromTo(f, a, b) \in Nat
  BY <1>1, <1>2, SumNat
<1>5. CASE m < c
  BY <1>1, <1>3, <1>4, <1>5, SumEmpty
<1>6. CASE c <= m
  <2>1. SumFromTo(f, a, b) = SumFromTo(f, a, c - 1) + SumFromTo(f, c, b)
    <3>1. CASE a = c
      <4>1. SumFromTo(f, a, c - 1) = 0
        BY <1>1, <3>1, SumEmpty
      <4>2. SumFromTo(f, c, b) \in Nat
        BY <1>4, <3>1
      <4> QED
        BY <3>1, <4>1, <4>2
    <3>2. CASE a # c
      <4>1. c - 1 \in Int /\ a <= c - 1 /\ c - 1 <= b /\ (c - 1) + 1 = c
        BY <1>1, <1>6, <3>2
      <4>2. SumFromTo(f, a, b) = SumFromTo(f, a, c - 1) + SumFromTo(f, (c - 1) + 1, b)
        BY <1>1, <1>2, <4>1, SumSplit
      <4> QED
        BY <4>1, <4>2
    <3> QED
      BY <3>1, <3>2
  <2>2. SumFromTo(f, c, b) = SumFromTo(f, c, m) + SumFromTo(f, m + 1, b)
    BY <1>1, <1>2, <1>6, SumSplit
  <2>3. /\ SumFromTo(f, a, c - 1) \in Nat /\ SumFromTo(f, c, m) \in Nat
        /\ SumFromTo(f, m + 1, b) \in Nat
    BY <1>1, <1>2, <1>6, SumNat
  <2> QED
    BY <1>3, <2>1, <2>2, <2>3
<1> QED
  BY <1>1, <1>5, <1>6

\* The Monday-to-Sunday week of a day.
Week(d) == [start |-> d - (d % 7), end |-> d - (d % 7) + 6]

\* A day lies in its week, and has its week with every other day of it.
LEMMA WeekFacts ==
    ASSUME NEW d \in Int
    PROVE  /\ IsRange(Week(d))
           /\ Days(Week(d)) = (d - (d % 7)) .. (d - (d % 7) + 6)
           /\ d \in Days(Week(d))
           /\ \A e \in Days(Week(d)) : e \in Int /\ e - (e % 7) = d - (d % 7)
<1>1. /\ d - (d % 7) \in Int /\ d - (d % 7) <= d /\ d <= d - (d % 7) + 6
      /\ \A e \in (d - (d % 7)) .. (d - (d % 7) + 6) : e - (e % 7) = d - (d % 7)
  OBVIOUS
<1> QED
  BY <1>1 DEF IsRange, Week, Days

\* Days punched under the daily cap alone stay within a shift of it, and below
\* it while a shift is running; so do weeks punched under the weekly cap.
DayWithinCap(w, d) ==
    <<w, d, "daily">> \notin uncapped =>
        /\ HoursIn(w, Day(d)) < MaxDailyHours + LongestShift
        /\ onClock[w] = d => HoursIn(w, Day(d)) < MaxDailyHours

WeekWithinCap(w, d) ==
    (\A e \in Days(Week(d)) : <<w, e, "weekly">> \notin uncapped) =>
        /\ HoursIn(w, Week(d)) < MaxWeeklyHours + LongestShift
        /\ onClock[w] \in WorkDay \cap Days(Week(d)) => HoursIn(w, Week(d)) < MaxWeeklyHours

CapsInv ==
    /\ PayrollTypeOK
    /\ \A w \in Worker, d \in WorkDay :
        Capped(w) => DayWithinCap(w, d) /\ WeekWithinCap(w, d)

\* Before the first shift every range is empty.
LEMMA NoHoursYet ==
    ASSUME NEW p, IsRange(p)
    PROVE  OverDays([d \in WorkDay |-> 0], p) = 0
<1> DEFINE z == [d \in WorkDay |-> 0]
           a == Recorded(p).start
           b == Recorded(p).end
<1>1. a \in Int /\ b \in Int /\ \A i \in a..b : z[i] = 0
  BY RecordedDays
<1>2. OverDays(z, p) = SumFromTo(z, a, b)
  BY DEF OverDays
<1> HIDE DEF a, b, z
<1>3. SumFromTo(z, a, b) = SumFromTo(z, a, b) + SumFromTo(z, a, b)
  BY <1>1, SumPlus
<1>4. SumFromTo(z, a, b) \in Nat
  BY <1>1, SumNat
<1>5. OverDays(z, p) = 0
  <2> DEFINE x == SumFromTo(z, a, b)
  <2>1. x = x + x /\ x \in Nat
    BY <1>3, <1>4
  <2> HIDE DEF x
  <2>2. x = 0
    BY <2>1
  <2> QED
    BY <1>2, <2>2 DEF x
<1> QED
  BY <1>5 DEF z

\* At first there are no hours.
LEMMA CapsInit == PayrollInit => CapsInv
<1> SUFFICES ASSUME PayrollInit
             PROVE  CapsInv
  OBVIOUS
<1>1. PayrollTypeOK
  BY PayrollAssumption, CalendarTypeInit DEF PayrollInit, PayrollTypeOK
<1>2. ASSUME NEW w \in Worker, NEW d \in WorkDay
      PROVE  DayWithinCap(w, d) /\ WeekWithinCap(w, d)
  <2>1. d \in Int /\ IsRange(Day(d)) /\ IsRange(Week(d))
    BY WeekFacts, PayrollAssumption, PayPeriodsAssumption DEF WorkDay, IsRange, Day
  <2>2. HoursIn(w, Day(d)) = 0 /\ HoursIn(w, Week(d)) = 0
    BY <2>1, NoHoursYet DEF PayrollInit, HoursIn
  <2>3. onClock[w] \notin WorkDay
    BY PayrollAssumption DEF PayrollInit, WorkDay
  <2> QED
    BY <2>2, <2>3, LongestShiftBounds, PayrollAssumption DEF DayWithinCap, WeekWithinCap
<1> QED
  BY <1>1, <1>2 DEF CapsInv

\* A step that moves neither hours nor clocks keeps the bounds.
LEMMA CapsStand ==
    ASSUME CapsInv, PayrollTypeOK', UNCHANGED <<hours, onClock, uncapped>>
    PROVE  CapsInv'
BY DEF CapsInv, DayWithinCap, WeekWithinCap, HoursIn

\* A punch-in is let through below the caps, or marks its day.
LEMMA CapsPunchIn ==
    ASSUME CapsInv, PayrollTypeOK', NEW v \in Worker, NEW e \in WorkDay, PunchIn(v, e)
    PROVE  CapsInv'
<1> SUFFICES ASSUME NEW w \in Worker, NEW d \in WorkDay, Capped(w)
             PROVE  DayWithinCap(w, d)' /\ WeekWithinCap(w, d)'
  BY DEF CapsInv, Capped
<1>1. /\ PayrollTypeOK /\ DayWithinCap(w, d) /\ WeekWithinCap(w, d)
  BY DEF CapsInv
<1>2. /\ HoursIn(w, Day(d))' = HoursIn(w, Day(d))
      /\ HoursIn(w, Week(d))' = HoursIn(w, Week(d))
      /\ uncapped \subseteq uncapped'
  BY DEF PunchIn, HoursIn
<1>3. CASE w # v
  <2>1. onClock'[w] = onClock[w]
    BY <1>1, <1>3 DEF PunchIn, PayrollTypeOK
  <2> QED
    BY <1>1, <1>2, <2>1 DEF DayWithinCap, WeekWithinCap
<1>4. CASE w = v
  <2>1. /\ onClock'[w] = e
        /\ \A scope \in Unchecked(e) : <<w, e, scope>> \in uncapped'
    BY <1>1, <1>4 DEF PunchIn, PayrollTypeOK, Marks
  <2>2. d \in Int /\ e \in Int /\ today \in Int
    BY <1>1, PayrollAssumption, PayPeriodsAssumption
       DEF WorkDay, PayrollTypeOK, CalendarTypeOK
  <2>3. ASSUME e = d, "daily" \notin Unchecked(e)
        PROVE  HoursIn(w, Day(d)) < MaxDailyHours
    <3>1. enforcement = "block" /\ today = d
      BY <2>3 DEF Unchecked, Scope
    <3> QED
      BY <1>4, <3>1 DEF PunchIn, EvaluateCaps
  <2>4. DayWithinCap(w, d)'
    BY <1>1, <1>2, <2>1, <2>3 DEF DayWithinCap
  <2>5. ASSUME e \in Days(Week(d)), "weekly" \notin Unchecked(e)
        PROVE  HoursIn(w, Week(d)) < MaxWeeklyHours
    <3>1. enforcement = "block" /\ ~(WeekOf(e) < WeekOf(today))
      BY <2>5 DEF Unchecked, Scope
    <3>2. WeekHours(w) < MaxWeeklyHours
      BY <1>4, <3>1 DEF PunchIn, EvaluateCaps
    <3>3. e - (e % 7) = d - (d % 7)
      BY <2>2, <2>5, WeekFacts
    <3>4. today - (today % 7) <= d - (d % 7)
      <4>1. /\ WeekOf(e) \in Int /\ e - (e % 7) = 7 * WeekOf(e)
            /\ WeekOf(today) \in Int /\ today - (today % 7) = 7 * WeekOf(today)
        BY <2>2 DEF WeekOf
      <4> QED
        BY <3>1, <3>3, <4>1
    <3> DEFINE q == [start |-> today - (today % 7), end |-> LastWorkDay]
    <3>5. /\ IsRange(Week(d)) /\ IsRange(q)
          /\ q.start <= Week(d).start /\ LastWorkDay <= q.end
      <4>1. LastWorkDay \in Int
        BY PayrollAssumption, PayPeriodsAssumption
      <4> QED
        BY <2>2, <3>4, <4>1, WeekFacts DEF IsRange, Week
    <3>6. hours[w] \in [WorkDay -> Nat]
      BY <1>1 DEF PayrollTypeOK
    <3>7. WeekHours(w) = OverDays(hours[w], q)
      BY DEF WeekHours, HoursIn
    <3> HIDE DEF q
    <3>8. OverDays(hours[w], Week(d)) <= OverDays(hours[w], q)
      BY <3>5, <3>6, OverDaysLonger
    <3>9. OverDays(hours[w], Week(d)) \in Nat /\ OverDays(hours[w], q) \in Nat
      BY <3>5, <3>6, OverDaysNat
    <3>10. MaxWeeklyHours \in Nat
      BY PayrollAssumption
    <3> QED
      BY <3>2, <3>7, <3>8, <3>9, <3>10 DEF HoursIn
  <2>6. WeekWithinCap(w, d)'
    BY <1>1, <1>2, <2>1, <2>5 DEF WeekWithinCap
  <2> QED
    BY <2>4, <2>6
<1> QED
  BY <1>3, <1>4

\* A punch-out adds one shift to a day and a week that were below their caps.
LEMMA CapsPunchOut ==
    ASSUME CapsInv, PayrollTypeOK', NEW v \in Worker, NEW h \in Shift, PunchOut(v, h)
    PROVE  CapsInv'
<1> SUFFICES ASSUME NEW w \in Worker, NEW d \in WorkDay, Capped(w)
             PROVE  DayWithinCap(w, d)' /\ WeekWithinCap(w, d)'
  BY DEF CapsInv, Capped
<1> DEFINE c == onClock[v]
<1>1. /\ PayrollTypeOK /\ DayWithinCap(w, d) /\ WeekWithinCap(w, d)
  BY DEF CapsInv
<1>2. c \in WorkDay /\ h \in Nat /\ h <= LongestShift /\ LongestShift \in Nat
  BY <1>1, LongestShiftBounds DEF PunchOut, PayrollTypeOK
<1>3. /\ MaxDailyHours \in Nat /\ MaxWeeklyHours \in Nat
      /\ hours[w] \in [WorkDay -> Nat]
  BY <1>1, PayrollAssumption DEF PayrollTypeOK
<1>4. d \in Int /\ IsRange(Day(d)) /\ IsRange(Week(d))
  BY WeekFacts, PayrollAssumption, PayPeriodsAssumption DEF WorkDay, IsRange, Day
<1>5. uncapped' = uncapped
  BY DEF PunchOut
<1>6. CASE w # v
  <2>1. hours'[w] = hours[w] /\ onClock'[w] = onClock[w]
    BY <1>1, <1>6 DEF PunchOut, PayrollTypeOK
  <2> QED
    BY <1>1, <1>5, <2>1 DEF DayWithinCap, WeekWithinCap, HoursIn
<1>7. CASE w = v
  <2>1. onClock[w] = c /\ onClock'[w] \notin WorkDay
    BY <1>1, <1>7, PayrollAssumption DEF PunchOut, PayrollTypeOK, WorkDay
  <2>2. \A i \in WorkDay : hours'[w][i] = IF i = c THEN hours[w][i] + h ELSE hours[w][i]
    BY <1>1, <1>2, <1>7 DEF PunchOut, PayrollTypeOK
  <2> HIDE DEF c
  <2>3. ASSUME NEW p, IsRange(p), p \in {Day(d), Week(d)}
        PROVE  /\ OverDays(hours[w], p) \in Nat
               /\ OverDays(hours'[w], p) = IF c \in Days(p) THEN OverDays(hours[w], p) + h
                                           ELSE OverDays(hours[w], p)
    <3>0. c \in Int
      BY <1>2, PayrollAssumption, PayPeriodsAssumption DEF WorkDay
    <3>1. CASE c \in Days(p)
      <4>1. p.start <= c /\ c <= p.end
        BY <2>3, <3>1 DEF Days, IsRange
      <4> QED
        BY <1>2, <1>3, <2>2, <2>3, <3>1, <4>1, OverDaysGrows, OverDaysNat
    <3>2. CASE c \notin Days(p)
      <4>1. \A i \in WorkDay : p.start <= i /\ i <= p.end => hours'[w][i] = hours[w][i]
        BY <2>2, <2>3, <3>0, <3>2 DEF Days, IsRange, WorkDay
      <4> QED
        BY <1>3, <2>3, <3>2, <4>1, OverDaysSame, OverDaysNat
    <3> QED
      BY <3>1, <3>2
  <2>4. /\ OverDays(hours[w], Day(d)) \in Nat
        /\ OverDays(hours'[w], Day(d)) = IF c = d THEN OverDays(hours[w], Day(d)) + h
                                         ELSE OverDays(hours[w], Day(d))
    <3>1. c \in Days(Day(d)) <=> c = d
      BY <1>2, <1>4, PayrollAssumption, PayPeriodsAssumption DEF Days, Day, WorkDay
    <3> QED
      BY <1>4, <2>3, <3>1
  <2>5. /\ OverDays(hours[w], Week(d)) \in Nat
        /\ OverDays(hours'[w], Week(d)) = IF c \in Days(Week(d)) THEN OverDays(hours[w], Week(d)) + h
                                          ELSE OverDays(hours[w], Week(d))
    BY <1>4, <2>3
  <2>6. DayWithinCap(w, d)'
    <3>1. onClock'[w] # d
      BY <2>1
    <3>2. ASSUME <<w, d, "daily">> \notin uncapped
          PROVE  OverDays(hours'[w], Day(d)) < MaxDailyHours + LongestShift
      <4>1. /\ OverDays(hours[w], Day(d)) < MaxDailyHours + LongestShift
            /\ c = d => OverDays(hours[w], Day(d)) < MaxDailyHours
        BY <1>1, <2>1, <3>2 DEF DayWithinCap, HoursIn
      <4> QED
        BY <1>2, <1>3, <2>4, <4>1
    <3> QED
      BY <1>5, <3>1, <3>2 DEF DayWithinCap, HoursIn
  <2>7. WeekWithinCap(w, d)'
    <3>1. onClock'[w] \notin WorkDay
      BY <2>1
    <3>2. ASSUME \A e \in Days(Week(d)) : <<w, e, "weekly">> \notin uncapped
          PROVE  OverDays(hours'[w], Week(d)) < MaxWeeklyHours + LongestShift
      <4>1. /\ OverDays(hours[w], Week(d)) < MaxWeeklyHours + LongestShift
            /\ c \in Days(Week(d)) => OverDays(hours[w], Week(d)) < MaxWeeklyHours
        BY <1>1, <1>2, <2>1, <3>2 DEF WeekWithinCap, HoursIn
      <4> QED
        BY <1>2, <1>3, <2>5, <4>1
    <3> QED
      BY <1>5, <3>1, <3>2 DEF WeekWithinCap, HoursIn
  <2> QED
    BY <2>6, <2>7
<1> QED
  BY <1>6, <1>7

\* A correction marks the day it changes.
LEMMA CapsCorrect ==
    ASSUME CapsInv, PayrollTypeOK', NEW v \in Worker, NEW c \in WorkDay, NEW h, Correct(v, c, h)
    PROVE  CapsInv'
<1> SUFFICES ASSUME NEW w \in Worker, NEW d \in WorkDay, Capped(w)
             PROVE  DayWithinCap(w, d)' /\ WeekWithinCap(w, d)'
  BY DEF CapsInv, Capped
<1>1. /\ PayrollTypeOK /\ DayWithinCap(w, d) /\ WeekWithinCap(w, d)
  BY DEF CapsInv
<1>2. onClock' = onClock /\ uncapped \subseteq uncapped'
  BY DEF Correct
<1>3. CASE w # v
  <2>1. hours'[w] = hours[w]
    BY <1>1, <1>3 DEF Correct, PayrollTypeOK
  <2> QED
    BY <1>1, <1>2, <2>1 DEF DayWithinCap, WeekWithinCap, HoursIn
<1>4. CASE w = v
  <2>1. <<w, c, "daily">> \in uncapped' /\ <<w, c, "weekly">> \in uncapped'
    BY <1>4 DEF Correct, Marks, Scope
  <2>2. \A i \in WorkDay : i # c => hours'[w][i] = hours[w][i]
    BY <1>1, <1>4 DEF Correct, PayrollTypeOK
  <2>3. d \in Int /\ c \in Int /\ IsRange(Day(d)) /\ IsRange(Week(d))
    BY WeekFacts, PayrollAssumption, PayPeriodsAssumption DEF WorkDay, IsRange, Day
  <2>4. ASSUME NEW p, IsRange(p), c \notin Days(p)
        PROVE  OverDays(hours'[w], p) = OverDays(hours[w], p)
    <3>1. \A i \in WorkDay : p.start <= i /\ i <= p.end => hours'[w][i] = hours[w][i]
      BY <2>2, <2>3, <2>4 DEF Days, IsRange, WorkDay
    <3> QED
      BY <2>4, <3>1, OverDaysSame
  <2>5. DayWithinCap(w, d)'
    <3>1. CASE c = d
      BY <2>1, <3>1 DEF DayWithinCap
    <3>2. CASE c # d
      <4>1. c \notin Days(Day(d))
        BY <2>3, <3>2 DEF Days, Day
      <4> QED
        BY <1>1, <1>2, <2>3, <2>4, <4>1 DEF DayWithinCap, HoursIn
    <3> QED
      BY <3>1, <3>2
  <2>6. WeekWithinCap(w, d)'
    <3>1. CASE c \in Days(Week(d))
      BY <2>1, <3>1 DEF WeekWithinCap
    <3>2. CASE c \notin Days(Week(d))
      BY <1>1, <1>2, <2>3, <2>4, <3>2 DEF WeekWithinCap, HoursIn
    <3> QED
      BY <3>1, <3>2
  <2> QED
    BY <2>5, <2>6
<1> QED
  BY <1>3, <1>4

\* For every staff, caps, shifts and dates of punches: the hours of a day whose
\* punches arrived on it, and those of a week whose punches arrived no later
\* than in it, pass a cap by the last shift at most.
THEOREM CapsHold == PayrollSpec => []CapsBoundDayAndWeek
<1>1. CapsInv /\ PayrollTypeOK' /\ [PayrollNext]_payrollVars => CapsInv'
  <2> SUFFICES ASSUME CapsInv, PayrollTypeOK', [PayrollNext]_payrollVars
               PROVE  CapsInv'
    OBVIOUS
  <2>1. CASE CalendarNext /\ UNCHANGED workVars
    BY <2>1, CapsStand DEF workVars
  <2>2. ASSUME NEW w \in Worker, NEW d \in WorkDay, PunchIn(w, d)
        PROVE  CapsInv'
    BY <2>2, CapsPunchIn
  <2>3. ASSUME NEW w \in Worker, NEW h \in Shift, PunchOut(w, h)
        PROVE  CapsInv'
    BY <2>3, CapsPunchOut
  <2>4. ASSUME NEW w \in Worker, NEW d \in WorkDay, NEW h \in Shift \cup {0}, Correct(w, d, h)
        PROVE  CapsInv'
    BY <2>4, CapsCorrect
  <2>5. ASSUME NEW w \in Worker, Archive(w)
        PROVE  CapsInv'
    BY <2>5, CapsStand DEF Archive
  <2>6. ASSUME NEW e \in Enforcement, SetEnforcement(e)
        PROVE  CapsInv'
    BY <2>6, CapsStand DEF SetEnforcement
  <2>7. CASE UNCHANGED payrollVars
    BY <2>7, CapsStand DEF payrollVars, workVars
  <2> QED
    BY <2>1, <2>2, <2>3, <2>4, <2>5, <2>6, <2>7 DEF PayrollNext
<1>2. CapsInv => CapsBoundDayAndWeek
  BY DEF CapsInv, CapsBoundDayAndWeek, DayWithinCap, WeekWithinCap, Week
<1> QED
  BY <1>1, <1>2, CapsInit, PayrollTypeCorrect, PTL DEF PayrollSpec

-----------------------------------------------------------------------------
(***************************************************************************)
(* Two periods after one another.                                          *)
(***************************************************************************)
\* What is due above straight time when range p is taken as one week.
WeekPremium(w, p, j) ==
    CalculateOvertime(w, p, j).overtime + CalculateOvertime(w, p, j).double

\* What is due above straight time in the weeks of range p, by week.
PremiumsOf(w, p, j) == [k \in Int |-> WeekPremium(w, WeekPart(p, k), j)]

\* The overtime rules look at nothing but the recorded days.
LEMMA SameDaysSamePremium ==
    ASSUME NEW w, NEW p, NEW q, NEW j, Recorded(p) = Recorded(q)
    PROVE  WeekPremium(w, p, j) = WeekPremium(w, q, j)
BY DEF WeekPremium, CalculateOvertime, California, Federal, HoursIn, OverDays

\* The premium of a week is a number of hours; of no day it is 0.
LEMMA PremiumNat ==
    ASSUME PayrollTypeOK, NEW w \in Worker, NEW p, IsRange(p), NEW j
    PROVE  /\ WeekPremium(w, p, j) \in Nat
           /\ Recorded(p).end < Recorded(p).start => WeekPremium(w, p, j) = 0
<1>1. /\ CalculateOvertime(w, p, j).regular \in Nat
      /\ CalculateOvertime(w, p, j).overtime \in Nat
      /\ CalculateOvertime(w, p, j).double \in Nat
      /\ CalculateOvertime(w, p, j).regular
           + (CalculateOvertime(w, p, j).overtime + CalculateOvertime(w, p, j).double)
           = HoursIn(w, p)
  BY WeekTotal
<1>2. ASSUME Recorded(p).end < Recorded(p).start
      PROVE  HoursIn(w, p) = 0
  BY <1>2, RecordedDays, SumEmpty DEF HoursIn, OverDays
<1> QED
  BY <1>1, <1>2 DEF WeekPremium

\* Ranges p and q, one after the other, make up range x.
Joined(p, q, x) ==
    /\ IsRange(p) /\ IsRange(q) /\ IsRange(x)
    /\ Recorded(p).start = Recorded(x).start /\ Recorded(q).end = Recorded(x).end
    /\ Recorded(q).start = Recorded(p).end + 1
    /\ Recorded(p).start - 1 <= Recorded(p).end /\ Recorded(p).end <= Recorded(x).end

\* The days of x are those of p and those of q.
LEMMA JoinedDays ==
    ASSUME NEW f \in [WorkDay -> Nat], NEW p, NEW q, NEW x, Joined(p, q, x)
    PROVE  OverDays(f, x) = OverDays(f, p) + OverDays(f, q)
<1> DEFINE a == Recorded(x).start
           m == Recorded(p).end
           b == Recorded(x).end
<1>1. /\ a \in Int /\ m \in Int /\ b \in Int /\ a..b \subseteq WorkDay
      /\ a - 1 <= m /\ m <= b
  BY RecordedDays DEF Joined
<1>2. \A i \in a..b : f[i] \in Nat
  BY <1>1
<1>3. /\ OverDays(f, x) = SumFromTo(f, a, b)
      /\ OverDays(f, p) = SumFromTo(f, a, m)
      /\ OverDays(f, q) = SumFromTo(f, m + 1, b)
  BY DEF OverDays, Joined
<1> HIDE DEF a, m, b
<1> QED
  BY <1>1, <1>2, <1>3, SumSplit

\* A week cut in two owes no more premium than the whole week.
LEMMA CutWeek ==
    ASSUME PayrollTypeOK, NEW w \in Worker, NEW p, NEW q, NEW x, NEW j, Joined(p, q, x)
    PROVE  WeekPremium(w, p, j) + WeekPremium(w, q, j) <= WeekPremium(w, x, j)
<1>1. /\ IsRange(p) /\ IsRange(q) /\ IsRange(x)
      /\ hours[w] \in [WorkDay -> Nat] /\ StraightOf(w) \in [WorkDay -> Nat]
      /\ DailyOf(w) \in [WorkDay -> Nat] /\ DoubleOf(w) \in [WorkDay -> Nat]
  BY DayParts DEF Joined
<1>2. ASSUME NEW f \in [WorkDay -> Nat]
      PROVE  /\ OverDays(f, p) \in Nat /\ OverDays(f, q) \in Nat
             /\ OverDays(f, x) = OverDays(f, p) + OverDays(f, q)
  BY <1>1, JoinedDays, OverDaysNat
<1>3. CASE j = "california"
  <2>1. ASSUME NEW r
        PROVE  WeekPremium(w, r, j)
                 = (OverDays(DailyOf(w), r) + Over(OverDays(StraightOf(w), r), 40))
                   + OverDays(DoubleOf(w), r)
    BY <1>3 DEF WeekPremium, CalculateOvertime, California, StraightOf, DailyOf, DoubleOf
  <2>2. /\ OverDays(StraightOf(w), p) \in Nat /\ OverDays(StraightOf(w), q) \in Nat
        /\ OverDays(StraightOf(w), x) = OverDays(StraightOf(w), p) + OverDays(StraightOf(w), q)
        /\ OverDays(DailyOf(w), p) \in Nat /\ OverDays(DailyOf(w), q) \in Nat
        /\ OverDays(DailyOf(w), x) = OverDays(DailyOf(w), p) + OverDays(DailyOf(w), q)
        /\ OverDays(DoubleOf(w), p) \in Nat /\ OverDays(DoubleOf(w), q) \in Nat
        /\ OverDays(DoubleOf(w), x) = OverDays(DoubleOf(w), p) + OverDays(DoubleOf(w), q)
    BY <1>1, <1>2
  <2> QED
    BY <2>1, <2>2 DEF Over
<1>4. CASE j # "california"
  <2>1. ASSUME NEW r
        PROVE  WeekPremium(w, r, j) = Over(OverDays(hours[w], r), 40) + 0
    BY <1>4 DEF WeekPremium, CalculateOvertime, Federal, HoursIn
  <2>2. /\ OverDays(hours[w], p) \in Nat /\ OverDays(hours[w], q) \in Nat
        /\ OverDays(hours[w], x) = OverDays(hours[w], p) + OverDays(hours[w], q)
    BY <1>1, <1>2
  <2> QED
    BY <2>1, <2>2 DEF Over
<1> QED
  BY <1>3, <1>4

\* The premium of a range is that of its weeks.
LEMMA PremiumByWeeks ==
    ASSUME PayrollTypeOK, NEW w \in Worker, NEW p, IsRange(p), NEW j
    PROVE  /\ \A k \in Int : /\ PremiumsOf(w, p, j)[k] = WeekPremium(w, WeekPart(p, k), j)
                             /\ PremiumsOf(w, p, j)[k] \in Nat
           /\ Premium(Overtime(w, p, j))
                = SumFromTo(PremiumsOf(w, p, j), WeekOf(Recorded(p).start), WeekOf(Recorded(p).end))
<1> DEFINE a == WeekOf(Recorded(p).start)
           b == WeekOf(Recorded(p).end)
           o == OvertimeOf(w, p, j)
           t == DoubleTimeOf(w, p, j)
           q == PremiumsOf(w, p, j)
<1>1. a \in Int /\ b \in Int
  BY RecordedDays, WeekBounds
<1>2. ASSUME NEW k \in Int
      PROVE  q[k] = WeekPremium(w, WeekPart(p, k), j) /\ q[k] \in Nat
  BY WeekPartRange, PremiumNat DEF PremiumsOf
<1>3. ASSUME NEW k \in a..b
      PROVE  o[k] \in Nat /\ t[k] \in Nat /\ q[k] = o[k] + t[k]
  <2>1. k \in Int /\ IsRange(WeekPart(p, k))
    BY <1>1, WeekPartRange
  <2>2. /\ o[k] = CalculateOvertime(w, WeekPart(p, k), j).overtime
        /\ t[k] = CalculateOvertime(w, WeekPart(p, k), j).double
    BY DEF OvertimeOf, DoubleTimeOf
  <2>3. /\ CalculateOvertime(w, WeekPart(p, k), j).overtime \in Nat
        /\ CalculateOvertime(w, WeekPart(p, k), j).double \in Nat
    BY <2>1, WeekTotal
  <2> QED
    BY <1>2, <2>1, <2>2, <2>3 DEF WeekPremium
<1>4. /\ Overtime(w, p, j).overtime = SumFromTo(o, a, b)
      /\ Overtime(w, p, j).double = SumFromTo(t, a, b)
  BY DEF Overtime, OvertimeOf, DoubleTimeOf
<1> HIDE DEF a, b, o, t, q
<1>5. SumFromTo(q, a, b) = SumFromTo(o, a, b) + SumFromTo(t, a, b)
  BY <1>1, <1>3, SumPlus
<1> QED
  BY <1>2, <1>4, <1>5 DEF Premium, a, b, q

\* Two ranges one after the other never owe more premium than both in one, and
\* as much when the second begins on a Monday.
LEMMA JoinedPremiums ==
    ASSUME PayrollTypeOK, NEW w \in Worker, NEW j, NEW p, NEW q, NEW x, Joined(p, q, x),
           NEW d \in Int, Recorded(q).start = d, Recorded(x).start <= d, d <= Recorded(x).end
    PROVE  LET apart == Premium(Overtime(w, p, j)) + Premium(Overtime(w, q, j))
               once  == Premium(Overtime(w, x, j))
           IN  apart <= once /\ (d % 7 = 0 => apart = once)
<1> DEFINE s == Recorded(x).start
           e == Recorded(x).end
           a == WeekOf(s)
           K == WeekOf(d)
           c == WeekOf(e)
           P == PremiumsOf(w, p, j)
           Q == PremiumsOf(w, q, j)
           X == PremiumsOf(w, x, j)
<1>1. /\ IsRange(p) /\ IsRange(q) /\ IsRange(x)
      /\ s \in Int /\ e \in Int /\ s <= d /\ d <= e
      /\ Recorded(p).start = s /\ Recorded(p).end = d - 1
      /\ Recorded(q).start = d /\ Recorded(q).end = e
  BY RecordedDays DEF Joined
<1>2. /\ a \in Int /\ 7 * a <= s /\ s <= 7 * a + 6
      /\ K \in Int /\ 7 * K <= d /\ d <= 7 * K + 6
      /\ c \in Int /\ 7 * c <= e /\ e <= 7 * c + 6
  BY <1>1, WeekBounds
<1>3. WeekOf(d - 1) \in Int /\ 7 * WeekOf(d - 1) <= d - 1 /\ d - 1 <= 7 * WeekOf(d - 1) + 6
  BY DEF WeekOf
<1>4. ASSUME NEW k \in Int
      PROVE  /\ P[k] = WeekPremium(w, WeekPart(p, k), j) /\ P[k] \in Nat
             /\ Q[k] = WeekPremium(w, WeekPart(q, k), j) /\ Q[k] \in Nat
             /\ X[k] = WeekPremium(w, WeekPart(x, k), j) /\ X[k] \in Nat
  BY <1>1, PremiumByWeeks
<1>days. ASSUME NEW k \in Int
       PROVE  /\ IsRange(WeekPart(p, k)) /\ IsRange(WeekPart(q, k)) /\ IsRange(WeekPart(x, k))
              /\ Recorded(WeekPart(p, k))
                   = [start |-> AtLeast(s, 7 * k), end |-> AtMost(d - 1, 7 * k + 6)]
              /\ Recorded(WeekPart(q, k))
                   = [start |-> AtLeast(d, 7 * k), end |-> AtMost(e, 7 * k + 6)]
              /\ Recorded(WeekPart(x, k))
                   = [start |-> AtLeast(s, 7 * k), end |-> AtMost(e, 7 * k + 6)]
  <2>1. \A r : Recorded(r) = [start |-> Recorded(r).start, end |-> Recorded(r).end]
    BY DEF Recorded
  <2>2. /\ IsRange(WeekPart(p, k)) /\ IsRange(WeekPart(q, k)) /\ IsRange(WeekPart(x, k))
        /\ Recorded(WeekPart(p, k)).start = AtLeast(s, 7 * k)
        /\ Recorded(WeekPart(p, k)).end = AtMost(d - 1, 7 * k + 6)
        /\ Recorded(WeekPart(q, k)).start = AtLeast(d, 7 * k)
        /\ Recorded(WeekPart(q, k)).end = AtMost(e, 7 * k + 6)
        /\ Recorded(WeekPart(x, k)).start = AtLeast(s, 7 * k)
        /\ Recorded(WeekPart(x, k)).end = AtMost(e, 7 * k + 6)
    <3>1. /\ IsRange(p) /\ IsRange(q) /\ IsRange(x)
          /\ Recorded(p).start = s /\ Recorded(p).end = d - 1
          /\ Recorded(q).start = d /\ Recorded(q).end = e
          /\ Recorded(x).start = s /\ Recorded(x).end = e
      BY <1>1
    <3>2. \A r : IsRange(r) =>
            /\ IsRange(WeekPart(r, k))
            /\ Recorded(WeekPart(r, k)).start = AtLeast(Recorded(r).start, 7 * k)
            /\ Recorded(WeekPart(r, k)).end = AtMost(Recorded(r).end, 7 * k + 6)
      BY WeekPartRange
    <3> HIDE DEF s, e
    <3> QED
      BY <3>1, <3>2
  <2> HIDE DEF s, e
  <2> QED
    BY <2>1, <2>2
<1>5. /\ Premium(Overtime(w, p, j)) = SumFromTo(P, a, WeekOf(d - 1))
      /\ Premium(Overtime(w, q, j)) = SumFromTo(Q, K, c)
      /\ Premium(Overtime(w, x, j)) = SumFromTo(X, a, c)
  BY <1>1, PremiumByWeeks
<1> HIDE DEF s, e, a, K, c, P, Q, X
<1>6. a <= K /\ K <= c /\ (WeekOf(d - 1) = K \/ (WeekOf(d - 1) = K - 1 /\ d = 7 * K))
  BY <1>1, <1>2, <1>3
<1>7. d = 7 * K => P[K] = 0 /\ Q[K] = X[K]
  <2> SUFFICES ASSUME d = 7 * K
               PROVE  P[K] = 0 /\ Q[K] = X[K]
    OBVIOUS
  <2>1. /\ AtLeast(s, 7 * K) = d /\ AtLeast(d, 7 * K) = d /\ AtMost(d - 1, 7 * K + 6) = d - 1
    BY <1>1, <1>2 DEF AtLeast, AtMost
  <2>2. Recorded(WeekPart(p, K)).end < Recorded(WeekPart(p, K)).start
    BY <1>2, <1>days, <2>1
  <2>3. P[K] = 0
    <3>1. IsRange(WeekPart(p, K)) /\ P[K] = WeekPremium(w, WeekPart(p, K), j)
      BY <1>2, <1>4, <1>days
    <3> QED
      BY <2>2, <3>1, PremiumNat
  <2>4. Recorded(WeekPart(q, K)) = Recorded(WeekPart(x, K))
    BY <1>2, <1>days, <2>1
  <2>5. Q[K] = X[K]
    <3>1. WeekPremium(w, WeekPart(q, K), j) = WeekPremium(w, WeekPart(x, K), j)
      BY <2>4, SameDaysSamePremium
    <3> QED
      BY <1>2, <1>4, <3>1
  <2> QED
    BY <2>3, <2>5
<1>8. P[K] + Q[K] <= X[K]
  <2>1. /\ AtMost(d - 1, 7 * K + 6) = d - 1 /\ AtLeast(d, 7 * K) = d
        /\ AtLeast(s, 7 * K) \in Int /\ AtLeast(s, 7 * K) <= d
        /\ AtMost(e, 7 * K + 6) \in Int /\ d <= AtMost(e, 7 * K + 6)
    BY <1>1, <1>2 DEF AtLeast, AtMost
  <2>2. Joined(WeekPart(p, K), WeekPart(q, K), WeekPart(x, K))
    <3>1. /\ IsRange(WeekPart(p, K)) /\ IsRange(WeekPart(q, K)) /\ IsRange(WeekPart(x, K))
          /\ Recorded(WeekPart(p, K)).start = AtLeast(s, 7 * K)
          /\ Recorded(WeekPart(p, K)).end = d - 1
          /\ Recorded(WeekPart(q, K)).start = d
          /\ Recorded(WeekPart(q, K)).end = AtMost(e, 7 * K + 6)
          /\ Recorded(WeekPart(x, K)).start = AtLeast(s, 7 * K)
          /\ Recorded(WeekPart(x, K)).end = AtMost(e, 7 * K + 6)
      <4>1. Recorded(WeekPart(p, K)) = [start |-> AtLeast(s, 7 * K), end |-> d - 1]
        BY <1>2, <1>days, <2>1
      <4>2. Recorded(WeekPart(q, K)) = [start |-> d, end |-> AtMost(e, 7 * K + 6)]
        BY <1>2, <1>days, <2>1
      <4>3. Recorded(WeekPart(x, K)) = [start |-> AtLeast(s, 7 * K), end |-> AtMost(e, 7 * K + 6)]
        BY <1>2, <1>days
      <4>4. IsRange(WeekPart(p, K)) /\ IsRange(WeekPart(q, K)) /\ IsRange(WeekPart(x, K))
        BY <1>2, <1>days
      <4> QED
        BY <4>1, <4>2, <4>3, <4>4
    <3> QED
      BY <2>1, <3>1 DEF Joined
  <2>3. WeekPremium(w, WeekPart(p, K), j) + WeekPremium(w, WeekPart(q, K), j)
          <= WeekPremium(w, WeekPart(x, K), j)
    BY <2>2, CutWeek
  <2> QED
    BY <1>2, <1>4, <2>3
<1>9. SumFromTo(P, a, WeekOf(d - 1)) = SumFromTo(P, a, K - 1) + P[K]
  <2>1. CASE WeekOf(d - 1) = K
    BY <1>2, <1>6, <2>1, SumStep
  <2>2. CASE WeekOf(d - 1) = K - 1 /\ d = 7 * K
    <3>1. SumFromTo(P, a, K - 1) \in Nat
      <4>1. \A i \in a..(K - 1) : P[i] \in Nat
        BY <1>2, <1>4
      <4> QED
        BY <1>2, <4>1, SumNat
    <3> QED
      BY <1>7, <2>2, <3>1
  <2> QED
    BY <1>6, <2>1, <2>2
<1>10. ASSUME NEW f, f \in {Q, X}
       PROVE  /\ SumFromTo(f, K, c) = f[K] + SumFromTo(f, K + 1, c)
              /\ SumFromTo(f, K + 1, c) \in Nat
  <2>1. \A i \in Int : f[i] \in Nat
    BY <1>4, <1>10
  <2>2. SumFromTo(f, K, c) = SumFromTo(f, K, K) + SumFromTo(f, K + 1, c)
    BY <1>2, <1>6, <2>1, SumSplit
  <2>3. SumFromTo(f, K, K) = SumFromTo(f, K, K - 1) + f[K]
    BY <1>2, SumStep
  <2>4. SumFromTo(f, K, K - 1) = 0
    BY <1>2, SumEmpty
  <2>5. SumFromTo(f, K + 1, c) \in Nat /\ f[K] \in Nat
    BY <1>2, <2>1, SumNat
  <2> QED
    BY <2>2, <2>3, <2>4, <2>5
<1>11. SumFromTo(X, a, c) = SumFromTo(X, a, K - 1) + SumFromTo(X, K, c)
  <2>1. \A i \in Int : X[i] \in Nat
    BY <1>4
  <2>2. K - 1 \in Int /\ (K - 1) + 1 = K /\ a - 1 <= K - 1 /\ K - 1 <= c
    BY <1>2, <1>6
  <2>3. SumFromTo(X, a, c) = SumFromTo(X, a, K - 1) + SumFromTo(X, (K - 1) + 1, c)
    BY <1>2, <2>1, <2>2, SumSplit
  <2> QED
    BY <2>2, <2>3
<1>12. SumFromTo(P, a, K - 1) = SumFromTo(X, a, K - 1) /\ SumFromTo(P, a, K - 1) \in Nat
  <2>1. ASSUME NEW k \in a..(K - 1)
        PROVE  P[k] = X[k]
    <3>1. k \in Int /\ k <= K - 1
      BY <1>2
    <3>2. AtMost(d - 1, 7 * k + 6) = AtMost(e, 7 * k + 6)
      BY <1>1, <1>2, <3>1 DEF AtMost
    <3>3. Recorded(WeekPart(p, k)) = Recorded(WeekPart(x, k))
      BY <1>days, <3>1, <3>2
    <3>4. WeekPremium(w, WeekPart(p, k), j) = WeekPremium(w, WeekPart(x, k), j)
      BY <3>3, SameDaysSamePremium
    <3> QED
      BY <1>4, <3>1, <3>4
  <2>2. SumFromTo(P, a, K - 1) = SumFromTo(X, a, K - 1)
    BY <1>2, <2>1, SumSame
  <2>3. \A i \in a..(K - 1) : P[i] \in Nat
    BY <1>2, <1>4
  <2>4. SumFromTo(P, a, K - 1) \in Nat
    BY <1>2, <2>3, SumNat
  <2> QED
    BY <2>2, <2>4
<1>13. SumFromTo(Q, K + 1, c) = SumFromTo(X, K + 1, c)
  <2>1. ASSUME NEW k \in (K + 1)..c
        PROVE  Q[k] = X[k]
    <3>1. k \in Int /\ K + 1 <= k
      BY <1>2
    <3>2. AtLeast(d, 7 * k) = AtLeast(s, 7 * k)
      BY <1>1, <1>2, <3>1 DEF AtLeast
    <3>3. Recorded(WeekPart(q, k)) = Recorded(WeekPart(x, k))
      BY <1>days, <3>1, <3>2
    <3>4. WeekPremium(w, WeekPart(q, k), j) = WeekPremium(w, WeekPart(x, k), j)
      BY <3>3, SameDaysSamePremium
    <3> QED
      BY <1>4, <3>1, <3>4
  <2> QED
    BY <1>2, <2>1, SumSame
<1>14. P[K] \in Nat /\ Q[K] \in Nat /\ X[K] \in Nat
  BY <1>2, <1>4
<1>15. d % 7 = 0 => d = 7 * K
  BY <1>2
<1> QED
  BY <1>5, <1>7, <1>8, <1>9, <1>10, <1>11, <1>12, <1>13, <1>14, <1>15

\* The period that begins on a work day, and the one before it.
LEMMA NeighboursJoin ==
    ASSUME schedule \in Schedule, NEW d \in WorkDay, PeriodStart(d, schedule) = d,
           NEW p, p = PayPeriodFor(d - 1, schedule), NEW q, q = PayPeriodFor(d, schedule),
           NEW x, x = [start |-> p.start, end |-> q.end]
    PROVE  /\ d \in Int /\ Joined(p, q, x)
           /\ Recorded(q).start = d /\ Recorded(x).start <= d /\ d <= Recorded(x).end
<1>1. /\ FirstWorkDay \in Int /\ LastWorkDay \in Int /\ FirstWorkDay <= d /\ d <= LastWorkDay
      /\ d \in Date /\ d \in Int
  BY PayrollAssumption, PayPeriodsAssumption DEF WorkDay
<1>2. Placed(d, schedule) /\ Placed(d - 1, schedule)
  BY <1>1, DatesArePlaced, DayBefore
<1>3. /\ p.start \in Int /\ p.end \in Int /\ p.start <= d - 1 /\ d - 1 <= p.end
      /\ p.end < d
  <2>1. /\ PeriodStart(d - 1, schedule) \in Int /\ PeriodEnd(d - 1, schedule) \in Int
        /\ PeriodStart(d - 1, schedule) <= d - 1 /\ d - 1 <= PeriodEnd(d - 1, schedule)
        /\ d <= PeriodEnd(d - 1, schedule) =>
              PeriodStart(d, schedule) = PeriodStart(d - 1, schedule)
    BY <1>1, <1>2, PeriodOfDay
  <2>2. PeriodEnd(d - 1, schedule) < d
    BY <1>1, <2>1
  <2> QED
    BY <2>1, <2>2 DEF PayPeriodFor
<1>4. q.start = d /\ q.end \in Int /\ d <= q.end
  BY <1>1, <1>2, PeriodOfDay DEF PayPeriodFor
<1>5. x.start = p.start /\ x.end = q.end /\ p.end = d - 1
  BY <1>1, <1>3
<1> QED
  BY <1>1, <1>3, <1>4, <1>5 DEF Joined, IsRange, Recorded, AtLeast, AtMost

\* For every calendar, staff and history of hours: exporting period after
\* period pays every hour once, and cutting a week in two never adds premium.
THEOREM PeriodsPayOnce == PayrollSpec => []PeriodsAddUp
<1>1. PayrollTypeOK => PeriodsAddUp
  <2> SUFFICES ASSUME PayrollTypeOK, NEW d \in WorkDay, PeriodStart(d, schedule) = d,
                      NEW w \in Worker, NEW j \in Jurisdiction
               PROVE  LET before == PayPeriodFor(d - 1, schedule)
                          after  == PayPeriodFor(d, schedule)
                          both   == [start |-> before.start, end |-> after.end]
                          first  == Overtime(w, before, j)
                          second == Overtime(w, after, j)
                          apart  == Premium(first) + Premium(second)
                          once   == Premium(Overtime(w, both, j))
                      IN  /\ TotalOf(first) + TotalOf(second) = HoursIn(w, both)
                          /\ apart <= once
                          /\ d % 7 = 0 => apart = once
    BY DEF PeriodsAddUp
  <2> DEFINE p == PayPeriodFor(d - 1, schedule)
             q == PayPeriodFor(d, schedule)
             x == [start |-> p.start, end |-> q.end]
  <2>1. schedule \in Schedule /\ hours[w] \in [WorkDay -> Nat]
    BY DEF PayrollTypeOK, CalendarTypeOK
  <2>2. /\ d \in Int /\ Joined(p, q, x)
        /\ Recorded(q).start = d /\ Recorded(x).start <= d /\ d <= Recorded(x).end
    BY <2>1, NeighboursJoin
  <2> HIDE DEF p, q, x
  <2>3. TotalOf(Overtime(w, p, j)) + TotalOf(Overtime(w, q, j)) = HoursIn(w, x)
    <3>1. TotalOf(Overtime(w, p, j)) = HoursIn(w, p) /\ TotalOf(Overtime(w, q, j)) = HoursIn(w, q)
      BY <2>2, OvertimeTotal DEF Joined
    <3>2. HoursIn(w, x) = HoursIn(w, p) + HoursIn(w, q)
      BY <2>1, <2>2, JoinedDays DEF HoursIn
    <3> QED
      BY <3>1, <3>2
  <2>4. LET apart == Premium(Overtime(w, p, j)) + Premium(Overtime(w, q, j))
            once  == Premium(Overtime(w, x, j))
        IN  apart <= once /\ (d % 7 = 0 => apart = once)
    BY <2>2, JoinedPremiums
  <2> QED
    BY <2>3, <2>4 DEF p, q, x
<1> QED
  BY <1>1, PayrollTypeCorrect, PTL

-----------------------------------------------------------------------------
(***************************************************************************)
(* The two laws.                                                           *)
(***************************************************************************)
\* A sum of smaller naturals is no greater.
LEMMA SumAtMost ==
    ASSUME NEW f, NEW g, NEW a \in Int, NEW b \in Int,
           \A i \in a..b : f[i] \in Nat /\ g[i] \in Nat /\ f[i] <= g[i]
    PROVE  SumFromTo(f, a, b) <= SumFromTo(g, a, b)
<1> DEFINE h == [i \in a..b |-> g[i] - f[i]]
<1>1. \A i \in a..b : h[i] \in Nat /\ g[i] = f[i] + h[i]
  OBVIOUS
<1> HIDE DEF h
<1>2. SumFromTo(g, a, b) = SumFromTo(f, a, b) + SumFromTo(h, a, b)
  BY <1>1, SumPlus
<1>3. SumFromTo(f, a, b) \in Nat /\ SumFromTo(h, a, b) \in Nat
  BY <1>1, SumNat
<1> QED
  BY <1>2, <1>3

\* Zeros add up to nothing.
LEMMA SumOfZeros ==
    ASSUME NEW f, NEW a \in Int, NEW b \in Int, \A i \in a..b : f[i] = 0
    PROVE  SumFromTo(f, a, b) = 0
<1> DEFINE s == SumFromTo(f, a, b)
<1>1. s = s + s
  BY SumPlus
<1>2. s \in Nat
  BY SumNat
<1> HIDE DEF s
<1>3. s = 0
  BY <1>1, <1>2
<1> QED
  BY <1>3 DEF s

\* In one week California leaves no more hours straight time than federal law,
\* which knows no double time.
LEMMA WeekOfTwoLaws ==
    ASSUME PayrollTypeOK, NEW w \in Worker, NEW p, IsRange(p)
    PROVE  /\ CalculateOvertime(w, p, "california").regular
                <= CalculateOvertime(w, p, "federal").regular
           /\ CalculateOvertime(w, p, "federal").double = 0
<1>1. CalculateOvertime(w, p, "california").regular = AtMost(OverDays(StraightOf(w), p), 40)
  BY DEF CalculateOvertime, California, StraightOf
<1>2. /\ CalculateOvertime(w, p, "federal").regular = AtMost(HoursIn(w, p), 40)
      /\ CalculateOvertime(w, p, "federal").double = 0
  BY DEF CalculateOvertime, Federal
<1>3. /\ OverDays(StraightOf(w), p) \in Nat /\ HoursIn(w, p) \in Nat
      /\ OverDays(StraightOf(w), p) <= HoursIn(w, p)
  BY RangeParts
<1> QED
  BY <1>1, <1>2, <1>3 DEF AtMost

\* So in the weeks of a range.
LEMMA RangeOfTwoLaws ==
    ASSUME PayrollTypeOK, NEW w \in Worker, NEW p, IsRange(p)
    PROVE  /\ Overtime(w, p, "california").regular <= Overtime(w, p, "federal").regular
           /\ Overtime(w, p, "federal").double = 0
<1> DEFINE a == WeekOf(Recorded(p).start)
           b == WeekOf(Recorded(p).end)
           c == RegularOf(w, p, "california")
           f == RegularOf(w, p, "federal")
           t == DoubleTimeOf(w, p, "federal")
<1>1. a \in Int /\ b \in Int
  BY RecordedDays, WeekBounds
<1>2. ASSUME NEW k \in a..b
      PROVE  c[k] \in Nat /\ f[k] \in Nat /\ c[k] <= f[k] /\ t[k] = 0
  <2>1. IsRange(WeekPart(p, k))
    BY <1>1, WeekPartRange
  <2>2. /\ c[k] = CalculateOvertime(w, WeekPart(p, k), "california").regular
        /\ f[k] = CalculateOvertime(w, WeekPart(p, k), "federal").regular
        /\ t[k] = CalculateOvertime(w, WeekPart(p, k), "federal").double
    BY DEF RegularOf, DoubleTimeOf
  <2>3. /\ CalculateOvertime(w, WeekPart(p, k), "california").regular \in Nat
        /\ CalculateOvertime(w, WeekPart(p, k), "federal").regular \in Nat
    BY <2>1, WeekTotal
  <2> QED
    BY <2>1, <2>2, <2>3, WeekOfTwoLaws
<1>3. /\ Overtime(w, p, "california").regular = SumFromTo(c, a, b)
      /\ Overtime(w, p, "federal").regular = SumFromTo(f, a, b)
      /\ Overtime(w, p, "federal").double = SumFromTo(t, a, b)
  BY DEF Overtime, RegularOf, DoubleTimeOf
<1> HIDE DEF a, b, c, f, t
<1>4. SumFromTo(c, a, b) <= SumFromTo(f, a, b)
  BY <1>1, <1>2, SumAtMost
<1>5. SumFromTo(t, a, b) = 0
  BY <1>1, <1>2, SumOfZeros
<1> QED
  BY <1>3, <1>4, <1>5

\* More time at the same rate is worth no less, also when it is rounded.
LEMMA PayGrows ==
    ASSUME NEW m \in Nat, NEW n \in Nat, m <= n, NEW rate \in Nat
    PROVE  Round(m * rate, 2) <= Round(n * rate, 2)
<1> DEFINE d == n - m
<1>1. d \in Nat /\ n = m + d
  OBVIOUS
<1> HIDE DEF d
<1>2. m * rate \in Nat /\ d * rate \in Nat /\ n * rate = m * rate + d * rate
  BY <1>1
<1> DEFINE x == m * rate
           y == d * rate
<1>3. x \in Nat /\ y \in Nat /\ n * rate = x + y /\ m * rate = x
  BY <1>2
<1> HIDE DEF x, y
<1> QED
  BY <1>3 DEF Round

\* A worker's split under the two laws, and what the export pays for it.
LEMMA PayOfTwoLaws ==
    ASSUME PayrollTypeOK, NEW w \in Worker
    PROVE  LET california == Overtime(w, Current, "california")
               federal    == Overtime(w, Current, "federal")
           IN  /\ TotalOf(california) = TotalOf(federal)
               /\ Premium(california) >= Premium(federal)
               /\ GrossPay(w, Current, "california") >= GrossPay(w, Current, "federal")
<1> DEFINE c == Overtime(w, Current, "california")
           f == Overtime(w, Current, "federal")
           worth(line) == 2 * line.regular + 3 * line.overtime + 4 * line.double
<1>1. IsRange(Current)
  BY CurrentRange DEF PayrollTypeOK
<1>2. /\ c.regular \in Nat /\ c.overtime \in Nat /\ c.double \in Nat
      /\ f.regular \in Nat /\ f.overtime \in Nat
      /\ c.regular + (c.overtime + c.double) = f.regular + (f.overtime + f.double)
  BY <1>1, OvertimeTotal DEF TotalOf, Premium
<1>3. c.regular <= f.regular /\ f.double = 0
  BY <1>1, RangeOfTwoLaws
<1>4. /\ GrossPay(w, Current, "california") = Round(worth(OwnTimesheet(w, Current, "california"))
                                                     * Staff[w].rate, 2)
      /\ GrossPay(w, Current, "federal") = Round(worth(OwnTimesheet(w, Current, "federal"))
                                                  * Staff[w].rate, 2)
  BY DEF GrossPay, ExportLine
<1>5. Staff[w].rate \in Nat
  BY PayrollAssumption
<1>6. GrossPay(w, Current, "california") >= GrossPay(w, Current, "federal")
  <2>1. CASE Staff[w].type = "contractor_1099"
    <3> DEFINE s == StraightTime(w, Current)
    <3>1. /\ OwnTimesheet(w, Current, "california") = s
          /\ OwnTimesheet(w, Current, "federal") = s
      BY <2>1 DEF OwnTimesheet
    <3>2. GrossPay(w, Current, "california") = GrossPay(w, Current, "federal")
      BY <1>4, <3>1
    <3> QED
      BY <3>2, GrossPayInt
  <2>2. CASE Staff[w].type # "contractor_1099"
    <3>1. /\ OwnTimesheet(w, Current, "california") = c
          /\ OwnTimesheet(w, Current, "federal") = f
      BY <2>2 DEF OwnTimesheet
    <3> HIDE DEF c, f
    <3>2. worth(c) \in Nat /\ worth(f) \in Nat /\ worth(f) <= worth(c)
      BY <1>2, <1>3
    <3> HIDE DEF worth
    <3>3. Round(worth(f) * Staff[w].rate, 2) <= Round(worth(c) * Staff[w].rate, 2)
      BY <1>5, <3>2, PayGrows
    <3>4. /\ GrossPay(w, Current, "california") = Round(worth(c) * Staff[w].rate, 2)
          /\ GrossPay(w, Current, "federal") = Round(worth(f) * Staff[w].rate, 2)
      BY <1>4, <3>1
    <3>5. /\ GrossPay(w, Current, "california") \in Int
          /\ GrossPay(w, Current, "federal") \in Int
      BY GrossPayInt
    <3> QED
      BY <3>3, <3>4, <3>5
  <2> QED
    BY <2>1, <2>2
<1> HIDE DEF c, f
<1>7. TotalOf(c) = TotalOf(f) /\ Premium(c) >= Premium(f)
  BY <1>2, <1>3 DEF TotalOf, Premium
<1> QED
  BY <1>6, <1>7 DEF c, f

\* For every calendar, staff and history of hours: the export pays nobody less
\* under California law than under federal law.
THEOREM CaliforniaNeverPaysLess == PayrollSpec => []CaliforniaPaysNoLess
<1>1. PayrollTypeOK => CaliforniaPaysNoLess
  BY PayOfTwoLaws DEF CaliforniaPaysNoLess, ExportedWorkers, PayrollTypeOK
<1> QED
  BY <1>1, PayrollTypeCorrect, PTL
=============================================================================
