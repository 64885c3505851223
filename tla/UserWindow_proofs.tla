--------------------------- MODULE UserWindow_proofs ---------------------------
(***************************************************************************)
(* Proofs about the trade windows of user rules.                           *)
(*                                                                         *)
(* The argument: Touched(k) is when the key was last written.  Whatever    *)
(* the list holds came by then.  When the key has expired, used + Slack    *)
(* have passed since, and a trade the window of the next one still reaches *)
(* must have come early, or the next one late, by what is missing.         *)
(*                                                                         *)
(* What the key holds sums to no more than the last update computed (less, *)
(* after a replay), and pruning or expiry can only lower it: a sum below   *)
(* the threshold is below it when the next trade comes.                    *)
(***************************************************************************)
EXTENDS UserWindow, FiniteSetTheorems, WellFoundedInduction, TLAPS

-----------------------------------------------------------------------------
(***************************************************************************)
(* Sums of trades                                                          *)
(***************************************************************************)

(* Induction over the natural numbers.                                     *)
LEMMA AllNat ==
  ASSUME NEW T \in SUBSET Nat, 0 \in T, \A n \in T : n + 1 \in T
  PROVE  T = Nat
<1> SUFFICES ASSUME T # Nat
             PROVE  FALSE
  OBVIOUS
<1> DEFINE R == OpToRel(<, Nat)
<1>1. PICK x \in Nat \ T : \A y \in Nat \ T : ~(<<y, x>> \in R)
  <2>1. IsWellFoundedOn(R, Nat)
    BY NatLessThanWellFounded
  <2> HIDE DEF R
  <2> QED
    BY <2>1, WFMin
<1>2. x - 1 \in Nat \ T
  OBVIOUS
<1>3. <<x - 1, x>> \in R
  BY <1>2 DEF OpToRel
<1> QED
  BY <1>1, <1>2, <1>3

(* Some is the trade Sum takes next out of s; Adds(f, A, n) says that f    *)
(* adds up every part of A of at most n trades the way Sum does.           *)
Some(s) == CHOOSE x \in s : TRUE
Adds(f, A, n) ==
  /\ f \in [SUBSET A -> Nat]
  /\ \A s \in SUBSET A : Cardinality(s) <= n =>
       f[s] = IF s = {} THEN 0 ELSE Some(s).notional + f[s \ {Some(s)}]

LEMMA SmallerParts ==
  ASSUME NEW A \in SUBSET Trade, IsFiniteSet(A), NEW s \in SUBSET A, s # {}
  PROVE  /\ Some(s) \in s /\ Some(s).notional \in Nat /\ s \ {Some(s)} \in SUBSET A
         /\ IsFiniteSet(s) /\ Cardinality(s) \in Nat \ {0}
         /\ \A x \in s : Cardinality(s \ {x}) = Cardinality(s) - 1
<1>1. Some(s) \in s
  BY DEF Some
<1>2. Some(s).notional \in Nat
  BY <1>1, WindowAssumption DEF Trade
<1>3. IsFiniteSet(s)
  BY FS_Subset
<1>4. Cardinality(s) \in Nat /\ Cardinality(s) # 0
  BY <1>3, FS_CardinalityType, FS_EmptySet
<1>5. \A x \in s : Cardinality(s \ {x}) = Cardinality(s) - 1
  BY <1>3, FS_RemoveElement
<1> QED
  BY <1>1, <1>2, <1>3, <1>4, <1>5

LEMMA AddsExists ==
  ASSUME NEW A \in SUBSET Trade, IsFiniteSet(A), NEW n \in Nat
  PROVE  \E f : Adds(f, A, n)
<1> DEFINE T == {m \in Nat : \E f : Adds(f, A, m)}
<1>1. 0 \in T
  <2> DEFINE f == [s \in SUBSET A |-> 0]
  <2>1. f \in [SUBSET A -> Nat]
    OBVIOUS
  <2>2. ASSUME NEW s \in SUBSET A, Cardinality(s) <= 0
        PROVE  s = {}
    <3>1. ASSUME s # {}
          PROVE  FALSE
      BY <2>2, <3>1, SmallerParts
    <3> QED
      BY <3>1
  <2>3. Adds(f, A, 0)
    BY <2>1, <2>2 DEF Adds
  <2> QED
    BY <2>3
<1>2. ASSUME NEW m \in Nat, NEW f, Adds(f, A, m)
      PROVE  \E g : Adds(g, A, m + 1)
  <2> DEFINE g == [s \in SUBSET A |-> IF s = {} THEN 0 ELSE Some(s).notional + f[s \ {Some(s)}]]
  <2>1. f \in [SUBSET A -> Nat] /\ \A s \in SUBSET A : Cardinality(s) <= m => f[s] = g[s]
    BY <1>2 DEF Adds
  <2>2. g \in [SUBSET A -> Nat]
    <3>1. ASSUME NEW s \in SUBSET A, s # {}
          PROVE  Some(s).notional + f[s \ {Some(s)}] \in Nat
      BY <3>1, <2>1, SmallerParts
    <3> QED
      BY <3>1
  <2>3. ASSUME NEW s \in SUBSET A, Cardinality(s) <= m + 1, s # {}
        PROVE  g[s] = Some(s).notional + g[s \ {Some(s)}]
    <3>1. s \ {Some(s)} \in SUBSET A /\ Cardinality(s \ {Some(s)}) <= m
      BY <2>3, SmallerParts
    <3>2. f[s \ {Some(s)}] = g[s \ {Some(s)}]
      <4> HIDE DEF g
      <4> QED
        BY <2>1, <3>1
    <3>3. g[s] = Some(s).notional + f[s \ {Some(s)}]
      BY <2>3
    <3> HIDE DEF g
    <3> QED
      BY <3>2, <3>3
  <2>4. ASSUME NEW s \in SUBSET A, s = {}
        PROVE  g[s] = 0
    BY <2>4
  <2> HIDE DEF g
  <2>5. Adds(g, A, m + 1)
    BY <2>2, <2>3, <2>4 DEF Adds
  <2> QED
    BY <2>5
<1>3. T = Nat
  <2>1. T \in SUBSET Nat
    OBVIOUS
  <2>2. \A m \in T : m + 1 \in T
    BY <1>2
  <2> HIDE DEF T
  <2> QED
    BY <1>1, <2>1, <2>2, AllNat
<1> QED
  BY <1>3

(* Totals(f, A): f adds up every part of A.                                *)
Totals(f, A) ==
  /\ f \in [SUBSET A -> Nat] /\ f[{}] = 0
  /\ \A s \in SUBSET A : s # {} => f[s] = Some(s).notional + f[s \ {Some(s)}]

(* Two ways to add up the parts of A agree.                                *)
AddsUp(f, A) ==
  \A s \in SUBSET A : f[s] = IF s = {} THEN 0 ELSE Some(s).notional + f[s \ {Some(s)}]

LEMMA OneTotal ==
  ASSUME NEW A \in SUBSET Trade, IsFiniteSet(A), NEW f, NEW g, AddsUp(f, A), AddsUp(g, A)
  PROVE  \A s \in SUBSET A : f[s] = g[s]
<1> USE DEF AddsUp
<1> DEFINE T == {n \in Nat : \A s \in SUBSET A : Cardinality(s) = n => f[s] = g[s]}
<1>1. 0 \in T
  <2>1. ASSUME NEW s \in SUBSET A, Cardinality(s) = 0
        PROVE  s = {}
    BY <2>1, SmallerParts
  <2> QED
    BY <2>1
<1>2. ASSUME NEW n \in T
      PROVE  n + 1 \in T
  <2>1. ASSUME NEW s \in SUBSET A, Cardinality(s) = n + 1
        PROVE  f[s] = g[s]
    <3>1. CASE s = {}
      BY <3>1
    <3>2. CASE s # {}
      <4>1. s \ {Some(s)} \in SUBSET A /\ Cardinality(s \ {Some(s)}) = n
        BY <2>1, <3>2, SmallerParts
      <4> QED
        BY <3>2, <4>1
    <3> QED
      BY <3>1, <3>2
  <2> QED
    BY <2>1
<1>3. T = Nat
  <2>1. T \in SUBSET Nat
    OBVIOUS
  <2> HIDE DEF T
  <2> QED
    BY <1>1, <1>2, <2>1, AllNat
<1>4. ASSUME NEW s \in SUBSET A
      PROVE  Cardinality(s) \in Nat
  BY FS_Subset, FS_CardinalityType
<1> QED
  BY <1>3, <1>4

(* What Sum is.                                                            *)
LEMMA SumTotals ==
  ASSUME NEW A \in SUBSET Trade, IsFiniteSet(A)
  PROVE  \E f : Totals(f, A) /\ Sum(A) = f[A]
<1> DEFINE Loop(f) == [s \in SUBSET A |->
                         IF s = {} THEN 0 ELSE LET x == CHOOSE x \in s : TRUE
                                               IN  x.notional + f[s \ {x}]]
           sum == CHOOSE f : f = Loop(f)
<1>1. PICK f : Adds(f, A, Cardinality(A))
  BY AddsExists, FS_CardinalityType
<1>2. f = Loop(f)
  <2>1. \A s \in SUBSET A : Cardinality(s) <= Cardinality(A)
    BY FS_Subset
  <2>2. f \in [SUBSET A -> Nat]
    BY <1>1 DEF Adds
  <2>3. \A s \in SUBSET A : f[s] = IF s = {} THEN 0 ELSE Some(s).notional + f[s \ {Some(s)}]
    BY <1>1, <2>1 DEF Adds
  <2>4. \A s \in SUBSET A : f[s] = Loop(f)[s]
    BY <2>3 DEF Some
  <2> QED
    BY <2>2, <2>4
<1>3. sum = Loop(sum)
  <2> HIDE DEF Loop
  <2> QED
    BY <1>2
<1>4. Sum(A) = sum[A]
  BY DEF Sum, MapThenSumSet, MapThenFoldSet
<1> HIDE DEF sum
<1>5. AddsUp(sum, A)
  <2>1. \A s \in SUBSET A : sum[s] = Loop(sum)[s]
    BY <1>3
  <2> QED
    BY <2>1 DEF Some, AddsUp
<1>6. AddsUp(f, A)
  <2>1. \A s \in SUBSET A : Cardinality(s) <= Cardinality(A)
    BY FS_Subset
  <2> QED
    BY <1>1, <2>1 DEF Adds, AddsUp
<1>7. \A s \in SUBSET A : f[s] = sum[s]
  <2> HIDE DEF Loop
  <2> QED
    BY <1>5, <1>6, OneTotal
<1>8. Totals(f, A)
  <2>1. {} \in SUBSET A
    OBVIOUS
  <2>2. f \in [SUBSET A -> Nat]
    BY <1>1 DEF Adds
  <2> QED
    BY <1>6, <2>1, <2>2 DEF Totals, AddsUp
<1>9. A \in SUBSET A
  OBVIOUS
<1> QED
  BY <1>4, <1>7, <1>8, <1>9

(* The order in which the trades are taken does not matter.                *)
LEMMA AnyOrder ==
  ASSUME NEW A \in SUBSET Trade, IsFiniteSet(A), NEW f, Totals(f, A)
  PROVE  \A s \in SUBSET A : \A x \in s : f[s] = x.notional + f[s \ {x}]
<1> DEFINE Ordered(s) == \A x \in s : f[s] = x.notional + f[s \ {x}]
           T == {n \in Nat : \A s \in SUBSET A : Cardinality(s) = n => Ordered(s)}
<1>1. 0 \in T
  <2>1. ASSUME NEW s \in SUBSET A, Cardinality(s) = 0
        PROVE  s = {}
    BY <2>1, SmallerParts
  <2> QED
    BY <2>1
<1>2. ASSUME NEW n \in T
      PROVE  n + 1 \in T
  <2>1. ASSUME NEW s \in SUBSET A, Cardinality(s) = n + 1, NEW x \in s
        PROVE  f[s] = x.notional + f[s \ {x}]
    <3> DEFINE y == Some(s)
    <3>1. /\ y \in s /\ s \ {y} \in SUBSET A /\ s \ {x} \in SUBSET A
          /\ Cardinality(s \ {y}) = n /\ Cardinality(s \ {x}) = n
      BY <2>1, SmallerParts
    <3>2. f[s] = y.notional + f[s \ {y}]
      BY DEF Totals
    <3> HIDE DEF y
    <3>3. CASE x = y
      BY <3>2, <3>3
    <3>4. CASE x # y
      <4>1. f[s \ {y}] = x.notional + f[(s \ {y}) \ {x}]
        BY <3>1, <3>4
      <4>2. f[s \ {x}] = y.notional + f[(s \ {x}) \ {y}]
        BY <3>1, <3>4
      <4> HIDE DEF T
      <4>3. PICK rest \in SUBSET A : rest = (s \ {y}) \ {x}
        OBVIOUS
      <4>4. f[rest] \in Nat /\ (s \ {x}) \ {y} = rest
        BY <4>3 DEF Totals
      <4>5. x.notional \in Nat /\ y.notional \in Nat
        BY <3>1, WindowAssumption DEF Trade
      <4>6. f[s] = y.notional + (x.notional + f[rest])
        BY <3>2, <4>1, <4>3
      <4>7. f[s \ {x}] = y.notional + f[rest]
        BY <4>2, <4>4
      <4> QED
        BY <4>4, <4>5, <4>6, <4>7
    <3> QED
      BY <3>3, <3>4
  <2> QED
    BY <2>1
<1>3. T = Nat
  <2>1. T \in SUBSET Nat
    OBVIOUS
  <2> HIDE DEF T
  <2> QED
    BY <1>1, <1>2, <2>1, AllNat
<1>4. ASSUME NEW s \in SUBSET A
      PROVE  Ordered(s)
  <2>1. Cardinality(s) \in Nat
    BY FS_Subset, FS_CardinalityType
  <2> QED
    BY <1>3, <2>1
<1> QED
  BY <1>4

(* Two enumerations agree on what they both add up.                        *)
LEMMA SumPart ==
  ASSUME NEW A \in SUBSET Trade, IsFiniteSet(A), NEW f, Totals(f, A), NEW B \in SUBSET A
  PROVE  Sum(B) = f[B]
<1>1. IsFiniteSet(B) /\ B \in SUBSET Trade
  BY FS_Subset
<1>2. PICK g : Totals(g, B) /\ Sum(B) = g[B]
  BY <1>1, SumTotals
<1>3. AddsUp(f, B)
  BY DEF Totals, AddsUp
<1>4. AddsUp(g, B)
  BY <1>2 DEF Totals, AddsUp
<1>5. \A s \in SUBSET B : f[s] = g[s]
  BY <1>1, <1>3, <1>4, OneTotal
<1>6. B \in SUBSET B
  OBVIOUS
<1> QED
  BY <1>2, <1>5, <1>6

(* A part of the trades does not add up to more.                           *)
LEMMA SumLess ==
  ASSUME NEW A \in SUBSET Trade, IsFiniteSet(A), NEW B \in SUBSET A
  PROVE  Sum(B) \in Nat /\ Sum(A) \in Nat /\ Sum(B) <= Sum(A)
<1>1. PICK f : Totals(f, A) /\ Sum(A) = f[A]
  BY SumTotals
<1>2. Sum(B) = f[B] /\ f[B] \in Nat /\ f[A] \in Nat
  BY <1>1, SumPart DEF Totals
<1> DEFINE T == {n \in Nat : \A s \in SUBSET A :
                   B \subseteq s /\ Cardinality(s) = n => f[B] <= f[s]}
<1>3. 0 \in T
  <2>1. ASSUME NEW s \in SUBSET A, B \subseteq s, Cardinality(s) = 0
        PROVE  s = B
    BY <2>1, SmallerParts
  <2> QED
    BY <1>2, <2>1
<1>4. ASSUME NEW n \in T
      PROVE  n + 1 \in T
  <2>1. ASSUME NEW s \in SUBSET A, B \subseteq s, Cardinality(s) = n + 1
        PROVE  f[B] <= f[s]
    <3>1. CASE s = B
      BY <1>2, <3>1
    <3>2. CASE s # B
      <4>1. PICK x \in s : x \notin B
        BY <2>1, <3>2
      <4>2. s \ {x} \in SUBSET A /\ B \subseteq s \ {x} /\ Cardinality(s \ {x}) = n
        BY <2>1, <4>1, SmallerParts
      <4>3. f[s] = x.notional + f[s \ {x}]
        <5> HIDE DEF T
        <5> QED
          BY <1>1, AnyOrder
      <4>4. x.notional \in Nat /\ f[s \ {x}] \in Nat
        BY <1>1, <4>2, WindowAssumption DEF Trade, Totals
      <4>5. f[B] <= f[s \ {x}]
        BY <4>2
      <4> HIDE DEF T
      <4> QED
        BY <1>2, <4>3, <4>4, <4>5
    <3> QED
      BY <3>1, <3>2
  <2> QED
    BY <2>1
<1>5. T = Nat
  <2>1. T \in SUBSET Nat
    OBVIOUS
  <2> HIDE DEF T
  <2> QED
    BY <1>3, <1>4, <2>1, AllNat
<1>6. Cardinality(A) \in Nat /\ A \in SUBSET A
  BY FS_CardinalityType
<1>7. f[B] <= f[A]
  BY <1>5, <1>6
<1> QED
  BY <1>1, <1>2, <1>7

(* One more trade adds at most its notional: nothing when it is there.     *)
LEMMA SumAdd ==
  ASSUME NEW A \in SUBSET Trade, IsFiniteSet(A), NEW e \in Trade
  PROVE  Sum(A \cup {e}) <= Sum(A) + e.notional
<1> DEFINE C == A \cup {e}
<1>1. C \in SUBSET Trade /\ IsFiniteSet(C) /\ A \in SUBSET C
  BY FS_AddElement
<1>2. Sum(A) \in Nat /\ Sum(C) \in Nat /\ e.notional \in Nat
  BY <1>1, SumLess, WindowAssumption DEF Trade
<1>3. CASE e \in A
  <2>1. C = A
    BY <1>3
  <2>2. Sum(C) = Sum(A)
    BY <2>1
  <2> HIDE DEF C
  <2>3. Sum(C) <= Sum(A) + e.notional
    BY <1>2, <2>2
  <2> QED
    BY <2>3 DEF C
<1>4. CASE e \notin A
  <2>1. PICK f : Totals(f, C) /\ Sum(C) = f[C]
    BY <1>1, SumTotals
  <2>2. C \in SUBSET C /\ e \in C /\ C \ {e} = A
    BY <1>4
  <2> HIDE DEF C
  <2>3. f[C] = e.notional + f[A]
    BY <1>1, <2>1, <2>2, AnyOrder
  <2>4. Sum(A) = f[A]
    BY <1>1, <2>1, SumPart
  <2> QED
    BY <1>2, <2>1, <2>3, <2>4 DEF C
<1> QED
  BY <1>3, <1>4

-----------------------------------------------------------------------------
(***************************************************************************)
(* The invariant                                                           *)
(***************************************************************************)

Touched(k) == expires[k] - used[k] - Slack

(* The inductive invariant.                                                *)
Recent(k) == \A x \in memory[k] : x.came <= Touched(k)
Numbered(k) == \A x \in memory[k] : x.n < arrivals
Counted(k) == IsFiniteSet(zset[k]) /\ Sum(zset[k]) <= total[k].sum

IInv ==
  /\ TypeOK
  /\ NeverMore
  /\ \A k \in Windows : Touched(k) <= now /\ Recent(k) /\ Numbered(k) /\ Counted(k)

(* What an expired key costs.                                              *)
LEMMA ExpiredEarly ==
  ASSUME IInv, NEW k \in Windows, NEW x \in memory[k], x.trade \in zset[k], x.trade \notin Live(k),
         NEW at \in Int, x.trade.at > at - rule[k].sec
  PROVE  (x.trade.at - x.came) + (now - at) + (rule[k].sec - used[k]) > Slack
<1>1. /\ rule[k].sec \in Nat /\ used[k] \in Nat /\ expires[k] \in Nat /\ now \in Nat
      /\ x.trade.at \in Int /\ x.came \in Nat /\ Slack \in Nat
  <2>1. /\ rule[k].sec \in Lengths /\ used[k] \in Nat /\ expires[k] \in Nat /\ now \in Nat
        /\ x.trade.at \in Times /\ x.came \in Nat
    BY DEF IInv, TypeOK, Trade
  <2> QED
    BY <2>1, WindowAssumption
<1>2. ~(now < expires[k])
  BY DEF Live
<1>3. x.came <= expires[k] - used[k] - Slack
  BY DEF IInv, Recent, Touched
<1> QED
  BY <1>1, <1>2, <1>3

(* What an update computes; the answer is lost or says whether the trade   *)
(* lifted the sum over the threshold.                                      *)
LEMMA UpdateSums ==
  ASSUME TypeOK, NEW k \in Windows, Counted(k), NEW e \in Trade, Update(k, e)
  PROVE  \E previous \in Nat :
           /\ previous <= total[k].sum
           /\ total' = [total EXCEPT ![k] = [threshold |-> rule[k].threshold,
                                             sum |-> previous + e.notional]]
           /\ fired'[k] \/ lost'[k]
              \/ ~Crosses(previous, previous + e.notional, rule[k].threshold)
           /\ fired' \in [Windows -> BOOLEAN] /\ lost' \in [Windows -> BOOLEAN]
           /\ Counted(k)'
<1> DEFINE left == After(Live(k), e.at - rule[k].sec)
           others == {x \in left : ~SameMember(x, e)}
           previous == Sum(left)
<1>1. zset[k] \in SUBSET Trade /\ IsFiniteSet(zset[k]) /\ left \in SUBSET zset[k]
  BY DEF TypeOK, Counted, Live, After
<1>2. zset' = [zset EXCEPT ![k] = others \cup {e}] /\ others \cup {e} \in SUBSET (left \cup {e})
  BY DEF Update, Script
<1>3. total' = [total EXCEPT ![k] = [threshold |-> rule[k].threshold,
                                    sum |-> previous + e.notional]]
  BY DEF Update
<1>4. PICK answered \in BOOLEAN :
        /\ fired' = [fired EXCEPT ![k] =
                      answered /\ Crosses(previous, previous + e.notional, rule[k].threshold)]
        /\ lost' = [lost EXCEPT ![k] = ~answered]
  BY DEF Update
<1> HIDE DEF left, others
<1>5. previous \in Nat /\ previous <= Sum(zset[k]) /\ Sum(zset[k]) \in Nat
  BY <1>1, SumLess
<1>6. IsFiniteSet(left) /\ left \in SUBSET Trade
  BY <1>1, FS_Subset
<1>7. previous <= total[k].sum
  <2>1. total[k].sum \in Nat /\ Sum(zset[k]) <= total[k].sum
    BY DEF TypeOK, Counted
  <2> HIDE DEF previous
  <2> QED
    BY <1>5, <2>1
<1>8. zset'[k] = others \cup {e} /\ total'[k].sum = previous + e.notional
  BY <1>2, <1>3 DEF TypeOK
<1>9. left \cup {e} \in SUBSET Trade /\ IsFiniteSet(left \cup {e})
  BY <1>6, FS_AddElement
<1>10. /\ IsFiniteSet(others \cup {e}) /\ Sum(others \cup {e}) <= Sum(left \cup {e})
       /\ Sum(others \cup {e}) \in Nat /\ Sum(left \cup {e}) \in Nat
       /\ Sum(left \cup {e}) <= previous + e.notional
  BY <1>2, <1>6, <1>9, FS_Subset, SumLess, SumAdd
<1>11. Counted(k)'
  <2>1. previous + e.notional \in Nat
    <3>1. e.notional \in Nat
      BY WindowAssumption DEF Trade
    <3> HIDE DEF previous
    <3> QED
      BY <1>5, <3>1
  <2> HIDE DEF previous
  <2> QED
    BY <1>8, <1>10, <2>1 DEF Counted
<1> DEFINE crossed == Crosses(previous, previous + e.notional, rule[k].threshold)
<1>12. crossed \in BOOLEAN
  BY DEF Crosses
<1>13. /\ fired' \in [Windows -> BOOLEAN] /\ lost' \in [Windows -> BOOLEAN]
       /\ fired'[k] \/ lost'[k] \/ ~crossed
  <2> HIDE DEF crossed
  <2>1. fired' \in [Windows -> BOOLEAN] /\ fired'[k] = (answered /\ crossed)
    <3> DEFINE b == answered /\ crossed
    <3>1. b \in BOOLEAN
      BY <1>12
    <3>2. fired' = [fired EXCEPT ![k] = b]
      BY <1>4 DEF crossed
    <3> HIDE DEF b
    <3>3. fired' \in [Windows -> BOOLEAN] /\ fired'[k] = b
      BY <3>1, <3>2 DEF TypeOK
    <3> QED
      BY <3>3 DEF b
  <2>2. lost' \in [Windows -> BOOLEAN] /\ lost'[k] = ~answered
    <3> DEFINE b == ~answered
    <3>1. b \in BOOLEAN
      OBVIOUS
    <3>2. lost' = [lost EXCEPT ![k] = b]
      BY <1>4
    <3> HIDE DEF b
    <3>3. lost' \in [Windows -> BOOLEAN] /\ lost'[k] = b
      BY <3>1, <3>2 DEF TypeOK
    <3> QED
      BY <3>3 DEF b
  <2> QED
    BY <2>1, <2>2
<1> HIDE DEF previous
<1> QED
  BY <1>3, <1>5, <1>7, <1>11, <1>13

LEMMA InitOK == Init => IInv
<1> SUFFICES ASSUME Init PROVE IInv
  OBVIOUS
<1> USE WindowAssumption DEF Init
<1>1. TypeOK
  BY DEF TypeOK
<1>2. NeverMore
  BY DEF NeverMore
<1>3. \A k \in Windows : Touched(k) <= now /\ Recent(k) /\ Numbered(k)
  BY DEF Touched, Recent, Numbered
<1>4. ASSUME NEW k \in Windows
      PROVE  Counted(k)
  <2>1. Sum({}) = 0
    <3>1. PICK f : Totals(f, {}) /\ Sum({}) = f[{}]
      BY FS_EmptySet, SumTotals
    <3> QED
      BY <3>1 DEF Totals
  <2>2. zset[k] = {} /\ total[k].sum = 0
    OBVIOUS
  <2> QED
    BY <2>1, <2>2, FS_EmptySet DEF Counted
<1> QED
  BY <1>1, <1>2, <1>3, <1>4 DEF IInv

(* What the script, and the list, keep when e arrives.                     *)
Others(k, e) == {x \in After(Live(k), e.at - rule[k].sec) : ~SameMember(x, e)}
Kept(k, e) == {x \in memory[k] : x.trade.at > e.at - rule[k].sec}

(* What an arrival does to the state of window k, and to no other.         *)
LEMMA UpdateEffect ==
  ASSUME IInv, NEW k \in Windows, NEW e \in Trade, Update(k, e)
  PROVE  \E others \in SUBSET Live(k), kept \in SUBSET memory[k],
            new \in [trade : Trade, n : Nat, came : Nat] :
           /\ new = [trade |-> e, n |-> arrivals, came |-> now]
           /\ others = Others(k, e)
           /\ kept = Kept(k, e)
           /\ now' = now /\ rule' = rule /\ arrivals' = arrivals + 1
           /\ zset' = [zset EXCEPT ![k] = others \cup {e}]
           /\ expires' = [expires EXCEPT ![k] = now + rule[k].sec + Slack]
           /\ memory' = [memory EXCEPT ![k] = kept \cup {new}]
           /\ used' = [used EXCEPT ![k] = rule[k].sec]
<1>1. now + Lifetime(rule[k].sec) = now + rule[k].sec + Slack
  <2>1. rule[k].sec \in Lengths /\ now \in Int
    BY DEF IInv, TypeOK
  <2>2. rule[k].sec \in Int /\ Slack \in Int
    BY <2>1, WindowAssumption
  <2>3. \A i, j, s \in Int : i + (j + s) = i + j + s
    BY SMT
  <2> QED
    BY <2>1, <2>2, <2>3 DEF Lifetime
<1>2. [trade |-> e, n |-> arrivals, came |-> now] \in [trade : Trade, n : Nat, came : Nat]
  BY DEF IInv, TypeOK
<1> QED
  BY <1>1, <1>2 DEF Update, Script, Remember, After, Others, Kept

LEMMA UpdateOK ==
  ASSUME IInv, NEW k \in Windows, NEW e \in Trade, Update(k, e)
  PROVE  IInv'
<1> USE WindowAssumption
<1>1. /\ rule[k].sec \in Nat \ {0} /\ used[k] \in Nat /\ expires[k] \in Nat
      /\ now \in Nat /\ e.at \in Int /\ arrivals \in Nat
  BY DEF IInv, TypeOK, Trade
<1>2. PICK others \in SUBSET Live(k), kept \in SUBSET memory[k],
          new \in [trade : Trade, n : Nat, came : Nat] :
        /\ new = [trade |-> e, n |-> arrivals, came |-> now]
        /\ others = Others(k, e)
        /\ kept = Kept(k, e)
        /\ now' = now /\ rule' = rule /\ arrivals' = arrivals + 1
        /\ zset' = [zset EXCEPT ![k] = others \cup {e}]
        /\ expires' = [expires EXCEPT ![k] = now + rule[k].sec + Slack]
        /\ memory' = [memory EXCEPT ![k] = kept \cup {new}]
        /\ used' = [used EXCEPT ![k] = rule[k].sec]
  BY UpdateEffect
<1>3. Live(k) \subseteq zset[k] /\ zset[k] \subseteq Held(k) /\ zset[k] \subseteq Trade
  BY DEF Live, IInv, NeverMore, TypeOK
<1>4. TypeOK'
  <2>1. others \cup {e} \subseteq Trade
    BY <1>3
  <2>2. kept \cup {new} \subseteq [trade : Trade, n : Nat, came : Nat]
    BY <1>1, <1>2 DEF IInv, TypeOK
  <2>3. now + rule[k].sec + Slack \in Nat
    BY <1>1
  <2>4. /\ zset' \in [Windows -> SUBSET Trade]
        /\ memory' \in [Windows -> SUBSET [trade : Trade, n : Nat, came : Nat]]
    BY <1>2, <2>1, <2>2 DEF IInv, TypeOK
  <2>5. expires' \in [Windows -> Nat] /\ used' \in [Windows -> Nat] /\ arrivals' \in Nat
    BY <1>1, <1>2, <2>3 DEF IInv, TypeOK
  <2>6. now' \in Nat /\ rule' \in [Windows -> [sec : Lengths, threshold : Thresholds]]
    BY <1>2 DEF IInv, TypeOK
  <2>8. /\ fired' \in [Windows -> BOOLEAN] /\ lost' \in [Windows -> BOOLEAN]
        /\ total' \in [Windows -> [threshold : Nat, sum : Nat]]
    <3>1. PICK previous \in Nat :
            /\ total' = [total EXCEPT ![k] = [threshold |-> rule[k].threshold,
                                              sum |-> previous + e.notional]]
            /\ fired' \in [Windows -> BOOLEAN] /\ lost' \in [Windows -> BOOLEAN]
      BY UpdateSums DEF IInv
    <3>2. [threshold |-> rule[k].threshold, sum |-> previous + e.notional]
            \in [threshold : Nat, sum : Nat]
      <4>1. rule[k].threshold \in Thresholds /\ e.notional \in Notionals
        BY DEF IInv, TypeOK, Trade
      <4>2. rule[k].threshold \in Nat /\ e.notional \in Nat
        BY <4>1
      <4>3. previous + e.notional \in Nat
        <5> HIDE WindowAssumption
        <5> QED
          BY <4>2
      <4> QED
        BY <4>2, <4>3
    <3>3. total' \in [Windows -> [threshold : Nat, sum : Nat]]
      BY <3>1, <3>2 DEF IInv, TypeOK
    <3> QED
      BY <3>1, <3>3
  <2> QED
    BY <2>4, <2>5, <2>6, <2>8 DEF TypeOK
<1>5. ASSUME NEW j \in Windows, j # k
      PROVE  /\ zset'[j] = zset[j] /\ memory'[j] = memory[j] /\ expires'[j] = expires[j]
             /\ used'[j] = used[j] /\ Held(j)' = Held(j)
  BY <1>2, <1>5 DEF IInv, TypeOK, Held
<1>6. /\ zset'[k] = others \cup {e} /\ memory'[k] = kept \cup {new}
      /\ expires'[k] = now + rule[k].sec + Slack /\ used'[k] = rule[k].sec
  BY <1>2 DEF IInv, TypeOK
<1>7. NeverMore'
  <2>1. ASSUME NEW t \in others
        PROVE  t \in Held(k)'
    <3>1. PICK x \in memory[k] : x.trade = t
      BY <1>3 DEF Held
    <3>2. x \in kept
      BY <1>2, <3>1 DEF After, Others, Kept
    <3> QED
      BY <1>6, <3>1, <3>2 DEF Held
  <2>2. e \in Held(k)'
    <3>1. new.trade = e /\ new \in memory'[k]
      BY <1>2, <1>6
    <3> QED
      BY <3>1 DEF Held
  <2>3. zset'[k] \subseteq Held(k)'
    BY <1>6, <2>1, <2>2
  <2>4. ASSUME NEW j \in Windows
        PROVE  zset'[j] \subseteq Held(j)'
    BY <2>3, <1>5 DEF NeverMore, IInv
  <2> QED
    BY <2>4 DEF NeverMore
<1>8. ASSUME NEW j \in Windows
      PROVE  (Touched(j) <= now /\ Recent(j) /\ Numbered(j))'
  <2>1. CASE j # k
    <3>1. (Touched(j) <= now /\ Recent(j))'
      BY <2>1, <1>2, <1>5 DEF IInv, Touched, Recent
    <3>2. Numbered(j)'
      BY <2>1, <1>1, <1>2, <1>5 DEF IInv, TypeOK, Numbered
    <3> QED
      BY <3>1, <3>2
  <2>2. CASE j = k
    <3>1. Touched(k)' = now /\ now' = now
      BY <1>1, <1>2, <1>6 DEF Touched
    <3>2. ASSUME NEW x \in kept
          PROVE  x.came <= now
      <4>1. x.came \in Nat /\ x.came <= Touched(k) /\ Touched(k) <= now
        BY DEF IInv, Recent, TypeOK
      <4> QED
        BY <4>1, <1>1 DEF Touched
    <3>3. new.came <= now
      BY <1>1, <1>2
    <3>4. \A x \in kept \cup {new} : x.came <= now
      BY <3>2, <3>3
    <3>5. Recent(k)'
      BY <1>6, <3>1, <3>4 DEF Recent
    <3>6. Numbered(k)'
      <4>1. ASSUME NEW x \in kept
            PROVE  x.n < arrivals + 1
        <5>1. x.n \in Nat /\ x.n < arrivals
          BY DEF IInv, Numbered, TypeOK
        <5> QED
          BY <5>1, <1>1
      <4>2. new.n < arrivals + 1
        BY <1>1, <1>2
      <4>3. \A x \in kept \cup {new} : x.n < arrivals + 1
        BY <4>1, <4>2
      <4> QED
        BY <1>2, <1>6, <4>3 DEF Numbered
    <3> QED
      BY <2>2, <3>1, <3>5, <3>6, <1>1
  <2> QED
    BY <2>1, <2>2
<1>9. ASSUME NEW j \in Windows
      PROVE  Counted(j)'
  <2>1. CASE j = k
    BY <2>1, UpdateSums DEF IInv
  <2>2. CASE j # k
    <3>1. \E record : total' = [total EXCEPT ![k] = record]
      BY DEF Update
    <3>2. total'[j] = total[j] /\ zset'[j] = zset[j]
      BY <1>5, <2>2, <3>1 DEF IInv, TypeOK
    <3> QED
      BY <3>2 DEF Counted, IInv
  <2> QED
    BY <2>1, <2>2
<1> QED
  BY <1>4, <1>7, <1>8, <1>9 DEF IInv

LEMMA NextOK == IInv /\ [Next]_vars => IInv'
<1> SUFFICES ASSUME IInv, [Next]_vars PROVE IInv'
  OBVIOUS
<1> USE WindowAssumption
<1>0. now \in Nat
  BY DEF IInv, TypeOK
<1>1. ASSUME NEW k \in Windows, HandleTrade(k)
      PROVE  IInv'
  BY <1>1, UpdateOK DEF HandleTrade
<1>3. ASSUME NEW k \in Windows, ChangeRule(k)
      PROVE  IInv'
  <2>1. UNCHANGED <<now, zset, expires, memory, arrivals, fired, used, lost, total>>
    BY <1>3 DEF ChangeRule, stateVars, historyVars
  <2>2. rule' \in [Windows -> [sec : Lengths, threshold : Thresholds]]
    BY <1>3 DEF ChangeRule, IInv, TypeOK
  <2>3. TypeOK'
    BY <2>1, <2>2 DEF IInv, TypeOK
  <2> QED
    BY <2>1, <2>3 DEF IInv, NeverMore, Touched, Recent, Numbered, Held, Counted
<1>4. ASSUME Tick
      PROVE  IInv'
  <2>1. /\ now' = now + 1
        /\ UNCHANGED <<rule, zset, expires, memory, arrivals, fired, used, lost, total>>
    BY <1>4 DEF Tick, stateVars, historyVars
  <2>2. TypeOK'
    BY <1>0, <2>1 DEF IInv, TypeOK
  <2>4. NeverMore' /\ \A k \in Windows : (Recent(k) /\ Numbered(k) /\ Counted(k))'
    BY <2>1 DEF IInv, NeverMore, Recent, Numbered, Held, Touched, Counted
  <2>5. \A k \in Windows : (Touched(k) <= now)'
    BY <1>0, <2>1 DEF IInv, Touched, TypeOK
  <2> QED
    BY <2>2, <2>4, <2>5 DEF IInv
<1>5. CASE UNCHANGED vars
  <2>1. UNCHANGED <<now, rule, zset, expires, memory, arrivals, fired, used, lost, total>>
    BY <1>5 DEF vars, stateVars, historyVars
  <2> QED
    BY <2>1 DEF IInv, TypeOK, NeverMore, Touched, Recent, Numbered, Held, Counted
<1> QED
  BY <1>1, <1>3, <1>4, <1>5 DEF Next

LEMMA Invariance == Spec => []IInv
BY InitOK, NextOK, PTL DEF Spec

(* Type correctness for every number of windows, trades and rules.         *)
THEOREM TypeCorrect == Spec => []TypeOK
<1>1. IInv => TypeOK
  BY DEF IInv
<1> QED
  BY <1>1, Invariance, PTL

(* Redis counts only what the list in memory would count, whatever         *)
(* expires, is replayed or edited (updateRedisUserWindow).                 *)
THEOREM NeverMoreHolds == Spec => []NeverMore
<1>1. IInv => NeverMore
  BY DEF IInv
<1> QED
  BY <1>1, Invariance, PTL

(* Without a sequence of early trades, late ones and longer windows that   *)
(* adds up to more than the 60 seconds the script adds to the lifetime of  *)
(* the key, no trade leaves Redis that the window still reaches, whatever  *)
(* event times the trades carry (updateRedisUserWindow).                   *)
THEOREM ExpiryCostsHolds == Spec => ExpiryCosts
<1> DEFINE Explained(k) ==
             \A x \in memory[k] \cap memory'[k] :
               x.trade \in zset[k] \ zset'[k] =>
                 \E y \in memory'[k] \ memory[k] :
                   \/ SameMember(x.trade, y.trade)
                   \/ (x.trade.at - x.came) + (now - y.trade.at) + (rule[k].sec - used[k]) > Slack
<1>1. ASSUME IInv, [Next]_vars, NEW k \in Windows
      PROVE  Explained(k)
  <2> SUFFICES ASSUME NEW x \in memory[k], x \in memory'[k],
                      x.trade \in zset[k], x.trade \notin zset'[k]
               PROVE  \E y \in memory'[k] \ memory[k] :
                        \/ SameMember(x.trade, y.trade)
                        \/ (x.trade.at - x.came) + (now - y.trade.at)
                             + (rule[k].sec - used[k]) > Slack
    OBVIOUS
  <2>1. PICK e \in Trade : Update(k, e)
    <3>1. zset' # zset
      OBVIOUS
    <3>2. PICK j \in Windows, e \in Trade : Update(j, e)
      BY <1>1, <3>1 DEF Next, HandleTrade, ChangeRule, Tick, vars, stateVars
    <3>3. j = k
      BY <1>1, <3>2 DEF Update, Script, IInv, TypeOK
    <3> QED
      BY <3>2, <3>3
  <2>2. PICK others \in SUBSET Live(k), kept \in SUBSET memory[k],
          new \in [trade : Trade, n : Nat, came : Nat] :
          /\ new = [trade |-> e, n |-> arrivals, came |-> now]
          /\ others = Others(k, e)
          /\ kept = Kept(k, e)
          /\ zset' = [zset EXCEPT ![k] = others \cup {e}]
          /\ memory' = [memory EXCEPT ![k] = kept \cup {new}]
    BY <1>1, <2>1, UpdateEffect
  <2>3. zset'[k] = others \cup {e} /\ memory'[k] = kept \cup {new} /\ new.trade = e
    BY <1>1, <2>2 DEF IInv, TypeOK
  <2>4. new \in memory'[k] /\ new \notin memory[k]
    <3>1. \A y \in memory[k] : y.n \in Nat /\ y.n < arrivals
      BY <1>1 DEF IInv, Numbered, TypeOK
    <3>2. new.n = arrivals /\ arrivals \in Nat
      BY <1>1, <2>2 DEF IInv, TypeOK
    <3> QED
      BY <2>3, <3>1, <3>2
  <2>5. x \in kept
    BY <2>3, <2>4
  <2>6. CASE SameMember(x.trade, e)
    BY <2>3, <2>4, <2>6
  <2>7. CASE ~SameMember(x.trade, e)
    <3>1. e.at \in Int
      BY WindowAssumption DEF Trade
    <3>2. x.trade.at > e.at - rule[k].sec
      BY <2>2, <2>5 DEF Kept
    <3>3. x.trade \notin others
      BY <2>3
    <3>4. x.trade \notin Live(k)
      BY <2>2, <2>7, <3>2, <3>3 DEF After, Others
    <3>5. (x.trade.at - x.came) + (now - e.at) + (rule[k].sec - used[k]) > Slack
      BY <1>1, <3>1, <3>2, <3>4, ExpiredEarly
    <3> QED
      BY <2>3, <2>4, <3>5
  <2> QED
    BY <2>6, <2>7
<1>2. IInv /\ [Next]_vars => [\A k \in Windows : Explained(k)]_vars
  BY <1>1
<1> QED
  BY <1>2, Invariance, PTL DEF Spec, ExpiryCosts

(* A trade that lifts the sum of a window over an unchanged threshold      *)
(* raises an alert unless its answer is lost, whatever expired, was pruned *)
(* or replayed since the last one (evaluateUserWindowRule).                *)
THEOREM RisesNoticedHolds == Spec => RisesNoticed
<1> DEFINE Noticed(k) ==
             /\ total'[k] # total[k]
             /\ total[k].threshold = total'[k].threshold
             /\ total[k].sum < total[k].threshold
             /\ total'[k].sum >= total'[k].threshold
             => fired'[k] \/ lost'[k]
<1>1. ASSUME IInv, [Next]_vars, NEW k \in Windows
      PROVE  Noticed(k)
  <2> SUFFICES ASSUME total'[k] # total[k],
                      total[k].threshold = total'[k].threshold,
                      total[k].sum < total[k].threshold,
                      total'[k].sum >= total'[k].threshold
               PROVE  fired'[k] \/ lost'[k]
    OBVIOUS
  <2>1. PICK j \in Windows, e \in Trade : Update(j, e)
    <3>1. CASE Tick \/ (\E j \in Windows : ChangeRule(j)) \/ UNCHANGED vars
      BY <3>1 DEF Tick, ChangeRule, vars, historyVars
    <3>2. ASSUME NEW j \in Windows, HandleTrade(j)
          PROVE  \E e \in Trade : Update(j, e)
      BY <3>2 DEF HandleTrade
    <3> QED
      BY <1>1, <3>1, <3>2 DEF Next
  <2>2. j = k
    BY <1>1, <2>1 DEF Update, IInv, TypeOK
  <2>3. PICK previous \in Nat :
          /\ previous <= total[k].sum
          /\ total' = [total EXCEPT ![k] = [threshold |-> rule[k].threshold,
                                            sum |-> previous + e.notional]]
          /\ fired'[k] \/ lost'[k]
             \/ ~Crosses(previous, previous + e.notional, rule[k].threshold)
    BY <1>1, <2>1, <2>2, UpdateSums DEF IInv
  <2>4. total'[k].threshold = rule[k].threshold /\ total'[k].sum = previous + e.notional
    BY <1>1, <2>3 DEF IInv, TypeOK
  <2>5. rule[k].threshold \in Nat /\ total[k].sum \in Nat /\ e.notional \in Nat
    BY <1>1, WindowAssumption DEF IInv, TypeOK, Trade
  <2>6. Crosses(previous, previous + e.notional, rule[k].threshold)
    BY <2>3, <2>4, <2>5 DEF Crosses
  <2> QED
    BY <2>3, <2>6
<1>2. IInv /\ [Next]_vars => [\A k \in Windows : Noticed(k)]_vars
  BY <1>1
<1> QED
  BY <1>2, Invariance, PTL DEF Spec, RisesNoticed
=============================================================================
