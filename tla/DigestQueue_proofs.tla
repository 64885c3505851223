-------------------------- MODULE DigestQueue_proofs --------------------------
(***************************************************************************)
(* Proofs about the digest lists: their types, and, for a user whose list   *)
(* no two actors used at the same time, the fate of every queued alert,    *)
(* the index and the cap.                                                  *)
(*                                                                         *)
(* The argument: an alert of such a user is always in exactly one place.   *)
(* Which place counts as "in the list" moves with the actor at work: what  *)
(* a handler has read and will write back stands for the list between its  *)
(* LRANGE and its RPUSH, and nothing does between the send of a digest and *)
(* its DEL.                                                                *)
(***************************************************************************)
EXTENDS DigestQueue, FiniteSetTheorems, SequenceTheorems, TLAPS

(* Who is at work on the list of u; Using(u) as a predicate.               *)
On(h, u) == hpc[h] # "idle" /\ user[h] = u
JobOn(u) == fpc \in {"send", "del", "unlist"} /\ current = u

(* No alert is twice in s.                                                 *)
Distinct(s) == \A i, j \in DOMAIN s : s[i].alert = s[j].alert => i = j

(* Alert n waits in s, was sent once, or was cut off, and only one of these. *)
OnePlace(n, s) ==
  /\ acked[n] \in {0, 1}
  /\ n \in AlertsOf(s) => acked[n] = 0 /\ n \notin dropped
  /\ n \in dropped => acked[n] = 0
  /\ n \in AlertsOf(s) \/ acked[n] = 1 \/ n \in dropped
Fates(u, s) == Distinct(s) /\ \A n \in Alerts : owner[n] = u => OnePlace(n, s)

(* The inductive invariant: whose alerts a sequence holds,                 *)
OwnedBy(s, u) == \A n \in AlertsOf(s) : owner[n] = u
OwnedInv ==
  /\ \A u \in Users : OwnedBy(list[u], u)
  /\ \A h \in Handlers : OwnedBy(kept[h], user[h]) /\ (hpc[h] = "idle" => kept[h] = <<>>)
  /\ OwnedBy(batch, current)
  /\ fpc \in {"idle", "next"} => current = None /\ batch = <<>>
  /\ \A n \in Alerts : owner[n] = None => acked[n] = 0 /\ n \notin dropped

(* and what holds of a user whose list no two actors used at once.         *)
Alone(u) ==
  \A h \in Handlers : On(h, u) => ~JobOn(u) /\ \A g \in Handlers : On(g, u) => g = h
Handled(u) ==
  \A h \in Handlers : On(h, u) =>
    /\ hpc[h] \in {"del", "write"} => Fates(u, kept[h]) /\ Len(kept[h]) <= MaxItems
    /\ hpc[h] = "write" => list[u] = <<>>
    /\ hpc[h] = "index" /\ list[u] # <<>> => expiry[u] # Never
Flushed(u) ==
  JobOn(u) =>
    /\ fpc = "send" => batch = list[u]
    /\ fpc = "del" => Fates(u, <<>>)
    /\ fpc = "unlist" => list[u] = <<>>
Listed(u) ==
  /\ (\A h \in Handlers : On(h, u) => hpc[h] \notin {"del", "write"})
       /\ ~(JobOn(u) /\ fpc = "del") => Fates(u, list[u])
  /\ (\A h \in Handlers : On(h, u) => hpc[h] # "trim") => Len(list[u]) <= MaxItems
  /\ (\A h \in Handlers : ~On(h, u)) /\ list[u] # <<>> => u \in index /\ expiry[u] # Never
Calm(u) == Alone(u) /\ Handled(u) /\ Flushed(u) /\ Listed(u)
CalmInv == \A u \in Users : u \notin disturbed => Calm(u)

IInv == TypeOK /\ OwnedInv /\ CalmInv

-----------------------------------------------------------------------------
(***************************************************************************)
(* Loops                                                                   *)
(***************************************************************************)

(* Induction on the natural numbers, for a set instead of a predicate.     *)
LEMMA AllNat ==
  ASSUME NEW T \in SUBSET Nat, 0 \in T, \A n \in T : n + 1 \in T
  PROVE  T = Nat
<1> SUFFICES ASSUME T # Nat
             PROVE  FALSE
  OBVIOUS
<1> DEFINE R == OpToRel(<, Nat)
<1>1. PICK x \in Nat \ T : \A y \in Nat \ T : ~(<<y, x>> \in R)
  <2>1. IsWellFoundedOn(R, Nat)
    BY NatLessThanWellFounded
  <2> HIDE DEF R
  <2> QED
    BY <2>1, WFMin
<1>2. x - 1 \in Nat \ T
  OBVIOUS
<1>3. <<x - 1, x>> \in R
  BY <1>2 DEF OpToRel
<1> QED
  BY <1>1, <1>2, <1>3

(* A loop over n elements that starts with the value base and takes the    *)
(* value v to step[i, v]; g says its value after each element.             *)
Steps(n, V) == [(1..n) \X V -> V]
IsLoop(g, n, V, base, step) ==
  g \in [0..n -> V] /\ g[0] = base /\ \A i \in 1..n : g[i] = step[i, g[i - 1]]

LEMMA LoopExists ==
  ASSUME NEW n \in Nat, NEW V, NEW base \in V, NEW step \in Steps(n, V)
  PROVE  \E g : IsLoop(g, n, V, base, step)
<1> USE DEF Steps
<1> DEFINE Upto(m) == \E g \in [0..m -> V] :
                        g[0] = base /\ \A i \in 1..m : g[i] = step[i, g[i - 1]]
           T == {m \in Nat : m <= n => Upto(m)}
<1>1. Upto(0)
  <2> DEFINE g == [i \in 0..0 |-> base]
  <2>1. g \in [0..0 -> V] /\ g[0] = base /\ 1..0 = {}
    OBVIOUS
  <2> QED
    BY <2>1
<1>2. ASSUME NEW m \in Nat, m + 1 <= n, Upto(m)
      PROVE  Upto(m + 1)
  <2>1. PICK g \in [0..m -> V] : g[0] = base /\ \A i \in 1..m : g[i] = step[i, g[i - 1]]
    BY <1>2
  <2>2. g[m] \in V /\ m + 1 \in 1..n
    <3>1. m \in 0..m
      BY SMT
    <3>2. m + 1 \in 1..n
      <4> HIDE DEF Upto
      <4> QED
        BY <1>2
    <3> QED
      BY <3>1, <3>2
  <2> DEFINE v == step[m + 1, g[m]]
             f == [i \in 0..(m + 1) |-> IF i = m + 1 THEN v ELSE g[i]]
  <2>3. v \in V
    <3>1. <<m + 1, g[m]>> \in (1..n) \X V
      BY <2>2
    <3> QED
      BY <3>1
  <2>4. f \in [0..(m + 1) -> V]
    <3> HIDE DEF v
    <3> QED
      BY <2>3
  <2>5. f[0] = base
    <3>1. f[0] = g[0]
      <4> HIDE DEF v
      <4> QED
        OBVIOUS
    <3> QED
      BY <3>1, <2>1
  <2>6. ASSUME NEW i \in 1..(m + 1)
        PROVE  f[i] = step[i, f[i - 1]]
    <3>1. f[i - 1] = g[i - 1]
      <4>1. i - 1 \in 0..(m + 1) /\ i - 1 # m + 1
        OBVIOUS
      <4> HIDE DEF v
      <4> QED
        BY <4>1
    <3>2. CASE i = m + 1
      <4>1. i \in 0..(m + 1) /\ i - 1 = m
        BY <3>2
      <4>2. f[i] = v
        <5> HIDE DEF v
        <5> QED
          BY <4>1, <3>2
      <4> QED
        BY <4>1, <4>2, <3>1, <3>2
    <3>3. CASE i # m + 1
      <4>1. i \in 1..m /\ i \in 0..(m + 1)
        BY <3>3
      <4>2. f[i] = g[i]
        BY <3>3, <4>1
      <4> QED
        BY <4>1, <4>2, <3>1, <2>1
    <3> QED
      BY <3>2, <3>3
  <2> HIDE DEF f
  <2> QED
    BY <2>4, <2>5, <2>6
<1> HIDE DEF Upto
<1>3. 0 \in T
  BY <1>1
<1>4. ASSUME NEW m \in T
      PROVE  m + 1 \in T
  BY <1>2
<1>5. T \in SUBSET Nat
  OBVIOUS
<1>6. n \in T
  <2> HIDE DEF T
  <2> QED
    BY <1>3, <1>4, <1>5, AllNat
<1>7. Upto(n)
  BY <1>6
<1> QED
  BY <1>7 DEF Upto, IsLoop

-----------------------------------------------------------------------------
(***************************************************************************)
(* What trimming and pruning keep                                          *)
(***************************************************************************)

(* r is what is left of s when some of its elements are taken out.         *)
Left(r, s) ==
  \E m \in [1..Len(r) -> 1..Len(s)] :
    /\ \A j \in 1..Len(r) : r[j] = s[m[j]]
    /\ \A i, j \in 1..Len(r) : m[i] = m[j] => i = j

(* What is left holds no other alerts, and none more often.                *)
LEMMA LeftAlerts ==
  ASSUME NEW s \in Seq(Item), NEW r \in Seq(Item), Left(r, s)
  PROVE  AlertsOf(r) \subseteq AlertsOf(s) /\ (Distinct(s) => Distinct(r))
<1>1. PICK m \in [1..Len(r) -> 1..Len(s)] :
        /\ \A j \in 1..Len(r) : r[j] = s[m[j]]
        /\ \A i, j \in 1..Len(r) : m[i] = m[j] => i = j
  BY DEF Left
<1>2. DOMAIN r = 1..Len(r) /\ DOMAIN s = 1..Len(s)
  OBVIOUS
<1>3. AlertsOf(r) \subseteq AlertsOf(s)
  BY <1>1, <1>2 DEF AlertsOf
<1>4. ASSUME Distinct(s), NEW i \in DOMAIN r, NEW j \in DOMAIN r, r[i].alert = r[j].alert
      PROVE  i = j
  <2>1. m[i] = m[j]
    BY <1>1, <1>2, <1>4 DEF Distinct
  <2> QED
    BY <2>1, <1>1, <1>2
<1> QED
  BY <1>3, <1>4 DEF Distinct

(* trimDigestItems keeps at most MaxItems of the items.                    *)
LEMMA TrimmedLeft ==
  ASSUME NEW s \in Seq(Item)
  PROVE  /\ Trimmed(s) \in Seq(Item)
         /\ Len(Trimmed(s)) <= MaxItems
         /\ Left(Trimmed(s), s)
<1> DEFINE k == IF Len(s) > MaxItems THEN Len(s) - MaxItems ELSE 0
           r == SubSeq(s, 1 + k, Len(s))
<1>1. MaxItems \in Nat \ {0} /\ Len(s) \in Nat
  BY DigestAssumption
<1>2. k \in Nat /\ k <= Len(s) /\ Len(s) - k <= MaxItems
  BY <1>1
<1> HIDE DEF k
<1>3. r \in Seq(Item) /\ Len(r) = Len(s) - k /\ \A j \in 1..Len(r) : r[j] = s[j + k]
  BY <1>1, <1>2, SubSeqProperties
<1> DEFINE m == [j \in 1..Len(r) |-> j + k]
<1> HIDE DEF r
<1>4. m \in [1..Len(r) -> 1..Len(s)]
  BY <1>1, <1>2, <1>3
<1>5. \A j \in 1..Len(r) : r[j] = s[m[j]]
  BY <1>3
<1>6. \A i, j \in 1..Len(r) : m[i] = m[j] => i = j
  BY <1>1, <1>2, <1>3
<1> HIDE DEF m
<1>7. Left(r, s)
  BY <1>4, <1>5, <1>6 DEF Left
<1> QED
  BY <1>2, <1>3, <1>7 DEF r, k, Trimmed

(* pruneDigestItems keeps some of the items.                               *)
LEMMA PrunedLeft ==
  ASSUME NEW s \in Seq(Item), NEW time \in Nat
  PROVE  Pruned(s, time) \in Seq(Item) /\ Left(Pruned(s, time), s)
<1> DEFINE n == Len(s)
           cutoff == time - s[n].every
           V == Seq(Item)
           step == [p \in (1..n) \X V |->
                      IF s[p[1]].at < cutoff THEN p[2] ELSE Append(p[2], s[p[1]])]
<1>1. n \in Nat /\ <<>> \in V
  OBVIOUS
<1>2. step \in [(1..n) \X V -> V]
  <2>1. ASSUME NEW p \in (1..n) \X V
        PROVE  (IF s[p[1]].at < cutoff THEN p[2] ELSE Append(p[2], s[p[1]])) \in V
    <3>1. s[p[1]] \in Item /\ p[2] \in Seq(Item)
      OBVIOUS
    <3> HIDE DEF cutoff
    <3> QED
      BY <3>1
  <2> QED
    BY <2>1
<1>3. PICK g : IsLoop(g, n, V, <<>>, step)
  <2>1. step \in Steps(n, V)
    BY <1>2 DEF Steps
  <2> HIDE DEF step, V, n
  <2> QED
    BY <1>1, <2>1, LoopExists
<1>4. ASSUME NEW i \in 1..n
      PROVE  g[i] = IF s[i].at < cutoff THEN g[i - 1] ELSE Append(g[i - 1], s[i])
  <2>1. i - 1 \in 0..n
    OBVIOUS
  <2>2. <<i, g[i - 1]>> \in (1..n) \X V
    <3> HIDE DEF V, n
    <3> QED
      BY <1>3, <2>1 DEF IsLoop
  <2>3. g[i] = step[i, g[i - 1]]
    BY <1>3 DEF IsLoop
  <2> HIDE DEF cutoff, V, n
  <2> QED
    BY <2>2, <2>3
<1> DEFINE Loop(f) == [i \in 0..n |-> IF i = 0 THEN <<>>
                        ELSE IF s[i].at < cutoff THEN f[i - 1] ELSE Append(f[i - 1], s[i])]
           rest == CHOOSE f : f = Loop(f)
<1>5. g = Loop(g)
  <2>1. ASSUME NEW i \in 0..n
        PROVE  g[i] = Loop(g)[i]
    <3> HIDE DEF cutoff
    <3>1. CASE i = 0
      BY <3>1, <1>3 DEF IsLoop
    <3>2. CASE i # 0
      <4>1. i \in 1..n
        BY <3>2
      <4> HIDE DEF V, n
      <4> QED
        BY <3>2, <4>1, <1>4
    <3> QED
      BY <3>1, <3>2
  <2> HIDE DEF cutoff, V
  <2>2. g \in [0..n -> V]
    BY <1>3 DEF IsLoop
  <2> QED
    BY <2>1, <2>2
<1>6. rest = Loop(rest)
  <2> HIDE DEF Loop
  <2> QED
    BY <1>5
<1>7. Pruned(s, time) = rest[n]
  BY DEF Pruned
<1> HIDE DEF rest
<1>8. rest[0] = <<>> /\ \A i \in 1..n :
        rest[i] = IF s[i].at < cutoff THEN rest[i - 1] ELSE Append(rest[i - 1], s[i])
  <2> HIDE DEF cutoff
  <2>1. \A i \in 0..n : rest[i] = Loop(rest)[i]
    BY <1>6
  <2>2. 0 \in 0..n /\ \A i \in 1..n : i \in 0..n /\ i # 0
    OBVIOUS
  <2> HIDE DEF n
  <2> QED
    BY <2>1, <2>2
<1> DEFINE From(i) == \E m \in [1..Len(rest[i]) -> 1..i] :
              /\ \A j \in 1..Len(rest[i]) : rest[i][j] = s[m[j]]
              /\ \A j, k \in 1..Len(rest[i]) : m[j] = m[k] => j = k
           Good(i) == rest[i] \in V /\ From(i)
           T == {i \in Nat : i <= n => Good(i)}
<1>9. Good(0)
  <2>1. rest[0] \in V /\ Len(rest[0]) = 0 /\ 1..0 = {}
    BY <1>8
  <2>2. [j \in 1..0 |-> 1] \in [1..Len(rest[0]) -> 1..0]
    BY <2>1
  <2> QED
    BY <2>1, <2>2
<1>10. ASSUME NEW i \in Nat, i + 1 <= n, Good(i)
       PROVE  Good(i + 1)
  <2> DEFINE r == rest[i]
             x == s[i + 1]
  <2>1. i + 1 \in 1..n /\ x \in Item /\ (i + 1) - 1 = i
    <3> HIDE DEF Good
    <3> QED
      BY <1>10
  <2>2. rest[i + 1] = IF x.at < cutoff THEN r ELSE Append(r, x)
    BY <2>1, <1>8
  <2>3. r \in Seq(Item) /\ Len(r) \in Nat
    BY <1>10
  <2>4. PICK m \in [1..Len(r) -> 1..i] :
          /\ \A j \in 1..Len(r) : r[j] = s[m[j]]
          /\ \A j, k \in 1..Len(r) : m[j] = m[k] => j = k
    BY <1>10
  <2> HIDE DEF r, cutoff
  <2>5. CASE rest[i + 1] = r
    <3>1. m \in [1..Len(r) -> 1..(i + 1)]
      OBVIOUS
    <3> QED
      BY <2>3, <2>4, <2>5, <3>1
  <2>6. CASE rest[i + 1] = Append(r, x)
    <3> DEFINE q == Append(r, x)
               l == [j \in 1..Len(q) |-> IF j = Len(q) THEN i + 1 ELSE m[j]]
    <3> HIDE DEF x
    <3>1. /\ q \in Seq(Item) /\ Len(q) = Len(r) + 1 /\ q[Len(q)] = x
          /\ \A j \in 1..Len(r) : q[j] = r[j]
      BY <2>1, <2>3
    <3> HIDE DEF q
    <3>2. \A j \in 1..Len(q) : j # Len(q) => j \in 1..Len(r)
      BY <2>3, <3>1
    <3>3. l \in [1..Len(q) -> 1..(i + 1)]
      BY <3>1, <3>2
    <3>4. \A j \in 1..Len(q) : q[j] = s[l[j]]
      BY <3>1, <3>2, <2>4 DEF x
    <3>5. \A j, k \in 1..Len(q) : l[j] = l[k] => j = k
      <4>1. \A j \in 1..Len(r) : m[j] # i + 1
        OBVIOUS
      <4> QED
        BY <4>1, <3>2, <2>4
    <3> HIDE DEF l
    <3>6. rest[i + 1] = q
      BY <2>6 DEF q
    <3> QED
      BY <3>1, <3>3, <3>4, <3>5, <3>6
  <2> QED
    BY <2>2, <2>5, <2>6
<1> HIDE DEF Good, V
<1>11. n \in T
  <2>1. 0 \in T
    BY <1>9
  <2>2. ASSUME NEW i \in T
        PROVE  i + 1 \in T
    BY <1>10
  <2>3. T \in SUBSET Nat
    OBVIOUS
  <2>4. T = Nat
    <3> HIDE DEF T
    <3> QED
      BY <2>1, <2>2, <2>3, AllNat
  <2> QED
    BY <2>4, <1>1
<1>12. Good(n)
  BY <1>11, <1>1
<1>13. rest[n] \in Seq(Item) /\ Left(rest[n], s)
  BY <1>12 DEF Good, V, Left
<1> QED
  BY <1>7, <1>13

-----------------------------------------------------------------------------
(***************************************************************************)
(* Fates                                                                   *)
(***************************************************************************)

LEMMA OccurrencesOnce ==
  ASSUME NEW s \in Seq(Item), Distinct(s), NEW n
  PROVE  Occurrences(n, s) = IF n \in AlertsOf(s) THEN 1 ELSE 0
<1> DEFINE D == {i \in DOMAIN s : s[i].alert = n}
<1>1. CASE n \in AlertsOf(s)
  <2>1. PICK i \in DOMAIN s : s[i].alert = n
    BY <1>1 DEF AlertsOf
  <2>2. D = {i}
    BY <2>1 DEF Distinct
  <2>3. Cardinality({i}) = 1
    BY FS_Singleton
  <2> QED
    BY <1>1, <2>2, <2>3 DEF Occurrences
<1>2. CASE n \notin AlertsOf(s)
  <2>1. D = {}
    BY <1>2 DEF AlertsOf
  <2> QED
    BY <1>2, <2>1, FS_EmptySet DEF Occurrences
<1> QED
  BY <1>1, <1>2

(* What a step of others leaves alone.                                     *)
SameFates(u) ==
  \A n \in Alerts :
    /\ owner'[n] = u => owner[n] = u
    /\ owner[n] = u => acked'[n] = acked[n] /\ (n \in dropped' <=> n \in dropped)
SameHandlers(u) ==
  \A h \in Handlers :
    /\ On(h, u)' <=> On(h, u)
    /\ On(h, u) => hpc'[h] = hpc[h] /\ kept'[h] = kept[h]
SameJob(u) ==
  /\ JobOn(u)' <=> JobOn(u)
  /\ JobOn(u) => fpc' = fpc /\ batch' = batch
SameList(u) ==
  /\ list'[u] = list[u] /\ expiry'[u] = expiry[u]
  /\ u \in index => u \in index'

LEMMA FatesKept ==
  ASSUME NEW u \in Users, SameFates(u), NEW s, Fates(u, s)
  PROVE  Fates(u, s)'
BY DEF SameFates, Fates, OnePlace

LEMMA Elsewhere ==
  ASSUME NEW u \in Users, SameFates(u), SameHandlers(u), SameJob(u), SameList(u), Calm(u)
  PROVE  Calm(u)'
<1>1. Alone(u)'
  BY DEF SameHandlers, SameJob, Calm, Alone
<1>2. \A s : Fates(u, s) => Fates(u, s)'
  BY FatesKept
<1>3. Fates(u, list[u]) => Fates(u, list[u])'
  BY DEF SameList, SameFates, Fates, OnePlace
<1>4. Handled(u)'
  <2> SUFFICES ASSUME NEW h \in Handlers, On(h, u)'
               PROVE  /\ (hpc[h] \in {"del", "write"} =>
                            Fates(u, kept[h]) /\ Len(kept[h]) <= MaxItems)'
                      /\ (hpc[h] = "write" => list[u] = <<>>)'
                      /\ (hpc[h] = "index" /\ list[u] # <<>> => expiry[u] # Never)'
    BY DEF Handled
  <2>1. On(h, u) /\ hpc'[h] = hpc[h] /\ kept'[h] = kept[h]
    BY DEF SameHandlers
  <2>2. Fates(u, kept[h]) => Fates(u, kept[h])'
    BY <2>1 DEF SameFates, Fates, OnePlace
  <2> QED
    BY <2>1, <2>2 DEF Calm, Handled, SameList, Never
<1>5. Flushed(u)'
  BY <1>2 DEF SameJob, SameList, Calm, Flushed
<1>6. Listed(u)'
  BY <1>3 DEF SameHandlers, SameJob, SameList, Calm, Listed, Never
<1> QED
  BY <1>1, <1>4, <1>5, <1>6 DEF Calm

-----------------------------------------------------------------------------
(***************************************************************************)
(* Types                                                                   *)
(***************************************************************************)

LEMMA ItemTyped ==
  ASSUME NEW x \in Item
  PROVE  x.alert \in Alerts /\ x.at \in Nat /\ x.every \in 1..LongestInterval
<1>1. x.alert \in Alerts /\ x.at \in 0..MaxTime /\ x.every \in Intervals
  BY DEF Item
<1>2. MaxTime \in Nat
  BY DigestAssumption
<1>3. x.every \in 1..LongestInterval
  BY <1>1, DigestAssumption, Zenon
<1> QED
  BY <1>1, <1>2, <1>3

LEMMA AlertsTyped ==
  ASSUME NEW s \in Seq(Item)
  PROVE  AlertsOf(s) \subseteq Alerts
<1>1. \A i \in DOMAIN s : s[i] \in Item
  OBVIOUS
<1> QED
  BY <1>1, ItemTyped DEF AlertsOf

LEMMA InitOK == Init => IInv
<1> SUFFICES ASSUME Init
             PROVE  IInv
  OBVIOUS
<1>1. <<>> \in Seq(Item) /\ AlertsOf(<<>>) = {} /\ Distinct(<<>>) /\ Len(<<>>) = 0
  BY DEF AlertsOf, Distinct
<1>2. MaxTime \in Nat /\ Never \in Nat /\ MaxItems \in Nat
  BY DigestAssumption DEF Never, LongestInterval
<1>3. TypeOK
  <2> HIDE DEF Never
  <2> QED
    BY <1>1, <1>2 DEF Init, TypeOK, Alerts
<1>4. OwnedInv
  BY <1>1 DEF Init, OwnedInv, OwnedBy
<1>5. ASSUME NEW u \in Users
      PROVE  Calm(u)
  <2>1. \A h \in Handlers : ~On(h, u)
    BY DEF Init, On
  <2>2. ~JobOn(u)
    BY DEF Init, JobOn
  <2>3. Fates(u, list[u])
    BY <1>1, DigestAssumption DEF Init, Fates
  <2> QED
    BY <2>1, <2>2, <2>3, <1>1, <1>2 DEF Init, Calm, Alone, Handled, Flushed, Listed
<1> QED
  BY <1>3, <1>4, <1>5 DEF IInv, CalmInv

LEMMA OccurrencesType ==
  ASSUME NEW s \in Seq(Item), NEW n
  PROVE  Occurrences(n, s) \in Nat
<1> DEFINE D == {i \in DOMAIN s : s[i].alert = n}
<1>1. DOMAIN s = 1..Len(s) /\ Len(s) \in Nat
  OBVIOUS
<1>2. IsFiniteSet(1..Len(s))
  BY <1>1, FS_Interval
<1>3. D \in SUBSET (1..Len(s))
  BY <1>1
<1>4. IsFiniteSet(D)
  BY <1>2, <1>3, FS_Subset
<1> QED
  BY <1>4, FS_CardinalityType DEF Occurrences

LEMMA CountedType ==
  ASSUME TypeOK, NEW counts \in [Alerts -> 0..2], NEW messages \in Nat
  PROVE  Counted(counts, messages) \in [Alerts -> 0..2]
<1>1. ASSUME NEW n \in Alerts
      PROVE  Saturated(counts[n] + messages * Occurrences(n, batch)) \in 0..2
  <2>1. Occurrences(n, batch) \in Nat
    BY OccurrencesType DEF TypeOK
  <2>2. messages * Occurrences(n, batch) \in Nat
    BY <2>1
  <2>3. counts[n] + messages * Occurrences(n, batch) \in Nat
    BY <2>2
  <2> QED
    BY <2>3 DEF Saturated
<1> QED
  BY <1>1 DEF Counted

LEMMA TypeStep == TypeOK /\ [Next]_vars => TypeOK'
<1> SUFFICES ASSUME TypeOK, [Next]_vars
             PROVE  TypeOK'
  OBVIOUS
<1> USE DigestAssumption DEF clockVars, redisVars, handlerVars, jobVars, sentVars, historyVars, Goto,
        HandlerDone, JobDone, Enter, Break
<1>1. <<>> \in Seq(Item) /\ Never \in Nat
  BY DEF Never, LongestInterval
<1>3. \A s \in Seq(Item) : AlertsOf(s) \subseteq Alerts
  BY AlertsTyped
<1>4. ASSUME NEW h \in Handlers, NEW u \in Users, Queue(h, u)
      PROVE  TypeOK'
  <2>1. PICK n \in Alerts, at \in 0..now, every \in Intervals : QueueItem(h, u, n, at, every)
    BY <1>4 DEF Queue
  <2> DEFINE new == [alert |-> n, chat |-> chat[u], at |-> at, every |-> every]
  <2>2. new \in Item
    BY <2>1 DEF Item, TypeOK, QueueItem
  <2>3. item' = [item EXCEPT ![h] = new] /\ list' = [list EXCEPT ![u] = Append(@, new)]
    BY <2>1 DEF QueueItem
  <2> HIDE DEF new
  <2>4. Append(list[u], new) \in Seq(Item)
    BY <2>2 DEF TypeOK
  <2> QED
    BY <2>1, <2>2, <2>3, <2>4 DEF QueueItem, TypeOK
<1>5. ASSUME NEW h \in Handlers, Trim(h)
      PROVE  TypeOK'
  <2>1. Trimmed(list[user[h]]) \in Seq(Item)
    BY <1>5, TrimmedLeft DEF Trim, TypeOK
  <2> QED
    BY <1>5, <2>1, <1>3 DEF Trim, TypeOK
<1>6. ASSUME NEW h \in Handlers, ReadBack(h)
      PROVE  TypeOK'
  <2> DEFINE rest == Trimmed(Pruned(list[user[h]], item[h].at))
  <2>1. rest \in Seq(Item)
    <3>1. item[h] \in Item /\ list[user[h]] \in Seq(Item)
      BY <1>6 DEF ReadBack, TypeOK
    <3>2. item[h].at \in Nat
      BY <3>1, ItemTyped
    <3> DEFINE s == list[user[h]]
               t == item[h].at
    <3> HIDE DEF s, t
    <3>3. s \in Seq(Item) /\ t \in Nat
      BY <3>1, <3>2 DEF s, t
    <3>4. Pruned(s, t) \in Seq(Item)
      BY <3>3, PrunedLeft
    <3>5. Trimmed(Pruned(s, t)) \in Seq(Item)
      BY <3>4, TrimmedLeft
    <3> QED
      BY <3>5 DEF s, t
  <2>2. AlertsOf(list[user[h]]) \subseteq Alerts
    BY <1>6, <1>3 DEF ReadBack, TypeOK
  <2>3. /\ kept' = [kept EXCEPT ![h] = rest]
        /\ dropped' = dropped \cup (AlertsOf(list[user[h]]) \ AlertsOf(rest))
    BY <1>6 DEF ReadBack
  <2> HIDE DEF rest
  <2> QED
    BY <1>6, <2>1, <2>2, <2>3 DEF ReadBack, TypeOK
<1>7. ASSUME NEW h \in Handlers, Delete(h)
      PROVE  TypeOK'
  BY <1>7, <1>1 DEF Delete, TypeOK
<1>8. ASSUME NEW h \in Handlers, WriteBack(h)
      PROVE  TypeOK'
  <2>1. list[user[h]] \o kept[h] \in Seq(Item)
    BY <1>8 DEF WriteBack, TypeOK
  <2> QED
    BY <1>8, <1>1, <2>1 DEF WriteBack, TypeOK
<1>9. ASSUME NEW h \in Handlers, SetTTL(h)
      PROVE  TypeOK'
  <2>1. item[h] \in Item /\ now \in Nat /\ Grace \in Nat
    BY <1>9 DEF SetTTL, TypeOK
  <2>2. now + item[h].every + Grace \in Nat
    <3>1. item[h].every \in 1..LongestInterval
      BY <2>1, ItemTyped
    <3> QED
      BY <2>1, <3>1
  <2> QED
    BY <1>9, <2>2 DEF SetTTL, TypeOK
<1>10. ASSUME NEW h \in Handlers, Register(h)
       PROVE  TypeOK'
  BY <1>10, <1>1 DEF Register, TypeOK
<1>11. ASSUME NEW h \in Handlers, QueueError(h)
       PROVE  TypeOK'
  BY <1>11, <1>1 DEF QueueError, TypeOK
<1>12. CASE StartFlush
  BY <1>12 DEF StartFlush, TypeOK
<1>13. ASSUME NEW u \in Users, ReadDigest(u)
       PROVE  TypeOK'
  BY <1>13 DEF ReadDigest, TypeOK, Due
<1>14. CASE SendDigest
  <2>1. acked' \in [Alerts -> 0..2] /\ unseen' \in [Alerts -> 0..2]
    <3>1. PICK lost \in 0..(Attempts - 1) : unseen' = Counted(unseen, lost)
      BY <1>14 DEF SendDigest
    <3>2. lost \in Nat
      BY <3>1
    <3>3. acked' = Counted(acked, 1) /\ 1 \in Nat
      BY <1>14 DEF SendDigest
    <3>4. acked \in [Alerts -> 0..2] /\ unseen \in [Alerts -> 0..2]
      BY DEF TypeOK
    <3> QED
      BY <3>1, <3>2, <3>3, <3>4, CountedType
  <2> QED
    BY <1>14, <2>1 DEF SendDigest, TypeOK
<1>15. CASE DeleteDigest
  BY <1>15, <1>1 DEF DeleteDigest, TypeOK
<1>16. CASE Unregister
  BY <1>16, <1>1 DEF Unregister, TypeOK
<1>17. CASE EndFlush
  BY <1>17, <1>1 DEF EndFlush, TypeOK
<1>18. CASE SendFails
  <2>1. unseen' \in [Alerts -> 0..2]
    <3>1. PICK lost \in 0..(IF current \in Blocked THEN 0 ELSE Attempts) :
            unseen' = Counted(unseen, lost)
      BY <1>18 DEF SendFails
    <3>2. lost \in Nat
      BY <3>1
    <3>3. unseen \in [Alerts -> 0..2]
      BY DEF TypeOK
    <3> QED
      BY <3>1, <3>2, <3>3, CountedType
  <2> QED
    BY <1>18, <1>1, <2>1 DEF SendFails, TypeOK
<1>19. CASE FlushError
  BY <1>19, <1>1 DEF FlushError, TypeOK
<1>20. ASSUME NEW u \in Users, ChangeChat(u)
       PROVE  TypeOK'
  BY <1>20 DEF ChangeChat, TypeOK
<1>21. CASE Tick
  BY <1>21, <1>1, <1>3 DEF Tick, TypeOK
<1>22. CASE UNCHANGED vars
  BY <1>22 DEF vars, TypeOK
<1> QED
  BY <1>4, <1>5, <1>6, <1>7, <1>8, <1>9, <1>10, <1>11, <1>12, <1>13, <1>14, <1>15, <1>16,
     <1>17, <1>18, <1>19, <1>20, <1>21, <1>22 DEF Next, QueueStep, FlushStep

-----------------------------------------------------------------------------
(***************************************************************************)
(* Whose alerts a sequence holds                                           *)
(***************************************************************************)

LEMMA AlertsOfEmpty == AlertsOf(<<>>) = {} /\ Distinct(<<>>)
BY DEF AlertsOf, Distinct

LEMMA AlertsOfAppend ==
  ASSUME NEW s \in Seq(Item), NEW x \in Item
  PROVE  /\ AlertsOf(Append(s, x)) = AlertsOf(s) \cup {x.alert}
         /\ Distinct(s) /\ x.alert \notin AlertsOf(s) => Distinct(Append(s, x))
<1> DEFINE q == Append(s, x)
<1>1. /\ q \in Seq(Item) /\ Len(q) = Len(s) + 1 /\ q[Len(s) + 1] = x
      /\ \A i \in 1..Len(s) : q[i] = s[i]
  OBVIOUS
<1>2. DOMAIN s = 1..Len(s) /\ DOMAIN q = 1..(Len(s) + 1) /\ Len(s) \in Nat
  BY <1>1
<1> HIDE DEF q
<1>3. AlertsOf(q) = AlertsOf(s) \cup {x.alert}
  <2>1. \A i \in DOMAIN q : i \in DOMAIN s \/ i = Len(s) + 1
    BY <1>2
  <2>2. DOMAIN s \subseteq DOMAIN q /\ Len(s) + 1 \in DOMAIN q
    BY <1>2
  <2> QED
    BY <1>1, <1>2, <2>1, <2>2 DEF AlertsOf
<1>4. ASSUME Distinct(s), x.alert \notin AlertsOf(s), NEW i \in DOMAIN q, NEW j \in DOMAIN q,
             q[i].alert = q[j].alert
      PROVE  i = j
  <2>1. \A k \in DOMAIN s : s[k].alert # x.alert
    BY <1>4 DEF AlertsOf
  <2> QED
    BY <2>1, <1>1, <1>2, <1>4 DEF Distinct
<1> QED
  BY <1>3, <1>4 DEF q, Distinct

LEMMA AlertsOfConcat ==
  ASSUME NEW s \in Seq(Item), NEW t \in Seq(Item)
  PROVE  AlertsOf(s \o t) \subseteq AlertsOf(s) \cup AlertsOf(t)
<1>1. ASSUME NEW i \in DOMAIN (s \o t)
      PROVE  (s \o t)[i].alert \in AlertsOf(s) \cup AlertsOf(t)
  <2>1. i \in 1..(Len(s) + Len(t)) /\ Len(s) \in Nat /\ Len(t) \in Nat
    OBVIOUS
  <2>2. CASE i <= Len(s)
    <3>1. i \in DOMAIN s /\ (s \o t)[i] = s[i]
      BY <2>1, <2>2
    <3> QED
      BY <3>1 DEF AlertsOf
  <2>3. CASE ~(i <= Len(s))
    <3>1. i - Len(s) \in DOMAIN t /\ (s \o t)[i] = t[i - Len(s)]
      BY <2>1, <2>3
    <3> QED
      BY <3>1 DEF AlertsOf
  <2> QED
    BY <2>2, <2>3
<1> QED
  BY <1>1 DEF AlertsOf

LEMMA OccurrencesNone ==
  ASSUME NEW s, NEW n, n \notin AlertsOf(s)
  PROVE  Occurrences(n, s) = 0
<1>1. {i \in DOMAIN s : s[i].alert = n} = {}
  BY DEF AlertsOf
<1> QED
  BY <1>1, FS_EmptySet DEF Occurrences

(* What ReadBack keeps.                                                    *)
LEMMA ReadBackLeft ==
  ASSUME TypeOK, NEW h \in Handlers, ReadBack(h)
  PROVE  LET s == list[user[h]]
             r == Trimmed(Pruned(s, item[h].at))
         IN  /\ user[h] \in Users /\ s \in Seq(Item) /\ r \in Seq(Item)
             /\ Len(r) <= MaxItems
             /\ AlertsOf(r) \subseteq AlertsOf(s)
             /\ Distinct(s) => Distinct(r)
<1> DEFINE s == list[user[h]]
           t == item[h].at
           p == Pruned(s, t)
<1>1. user[h] \in Users /\ item[h] \in Item /\ s \in Seq(Item)
  BY DEF ReadBack, TypeOK
<1>2. t \in Nat
  BY <1>1, ItemTyped
<1> HIDE DEF s, t
<1>3. p \in Seq(Item) /\ Left(p, s)
  BY <1>1, <1>2, PrunedLeft
<1>4. AlertsOf(p) \subseteq AlertsOf(s) /\ (Distinct(s) => Distinct(p))
  BY <1>1, <1>3, LeftAlerts
<1> HIDE DEF p
<1>5. Trimmed(p) \in Seq(Item) /\ Len(Trimmed(p)) <= MaxItems /\ Left(Trimmed(p), p)
  BY <1>3, TrimmedLeft
<1>6. AlertsOf(Trimmed(p)) \subseteq AlertsOf(p) /\ (Distinct(p) => Distinct(Trimmed(p)))
  BY <1>3, <1>5, LeftAlerts
<1>7. AlertsOf(Trimmed(p)) \subseteq AlertsOf(s) /\ (Distinct(s) => Distinct(Trimmed(p)))
  BY <1>4, <1>6
<1> QED
  BY <1>1, <1>5, <1>7 DEF p, s, t

LEMMA TrimLeft ==
  ASSUME TypeOK, NEW h \in Handlers, Trim(h)
  PROVE  LET s == list[user[h]]
             r == Trimmed(s)
         IN  /\ user[h] \in Users /\ s \in Seq(Item) /\ r \in Seq(Item)
             /\ Len(r) <= MaxItems
             /\ AlertsOf(r) \subseteq AlertsOf(s)
             /\ Distinct(s) => Distinct(r)
<1> DEFINE s == list[user[h]]
<1>1. user[h] \in Users /\ s \in Seq(Item)
  BY DEF Trim, TypeOK
<1> HIDE DEF s
<1>2. Trimmed(s) \in Seq(Item) /\ Len(Trimmed(s)) <= MaxItems /\ Left(Trimmed(s), s)
  BY <1>1, TrimmedLeft
<1>3. AlertsOf(Trimmed(s)) \subseteq AlertsOf(s) /\ (Distinct(s) => Distinct(Trimmed(s)))
  BY <1>1, <1>2, LeftAlerts
<1> QED
  BY <1>1, <1>2, <1>3 DEF s

LEMMA OwnedStep == TypeOK /\ OwnedInv /\ [Next]_vars => OwnedInv'
<1> SUFFICES ASSUME TypeOK, OwnedInv, [Next]_vars
             PROVE  OwnedInv'
  OBVIOUS
<1> USE DEF clockVars, redisVars, handlerVars, jobVars, sentVars, historyVars, Goto, HandlerDone, JobDone,
        Enter, Break
<1>1. AlertsOf(<<>>) = {}
  BY AlertsOfEmpty
<1>2. None \notin Users
  BY DigestAssumption
<1>3. \A s \in Seq(Item) : AlertsOf(s) \subseteq Alerts
  BY AlertsTyped
<1>4. ASSUME NEW h \in Handlers, NEW u \in Users, Queue(h, u)
      PROVE  OwnedInv'
  <2>1. PICK n \in Alerts, at \in 0..now, every \in Intervals : QueueItem(h, u, n, at, every)
    BY <1>4 DEF Queue
  <2> DEFINE new == [alert |-> n, chat |-> chat[u], at |-> at, every |-> every]
  <2>2. new \in Item /\ new.alert = n
    <3>1. new \in Item
      BY <2>1, DigestAssumption DEF Item, TypeOK, QueueItem
    <3> QED
      BY <3>1
  <2>3. list' = [list EXCEPT ![u] = Append(@, new)] /\ owner' = [owner EXCEPT ![n] = u]
        /\ owner[n] = None
    BY <2>1 DEF QueueItem
  <2> HIDE DEF new
  <2>4. AlertsOf(Append(list[u], new)) = AlertsOf(list[u]) \cup {n}
    BY <2>2, AlertsOfAppend DEF TypeOK
  <2>5. \A m \in Alerts : owner[m] # None => owner'[m] = owner[m]
    BY <2>3 DEF TypeOK
  <2>6. ASSUME NEW v \in Users
        PROVE  OwnedBy(list[v], v)'
    <3>1. AlertsOf(list[v]) \subseteq Alerts /\ OwnedBy(list[v], v)
      BY <1>3 DEF OwnedInv, TypeOK
    <3>2. \A m \in AlertsOf(list[v]) : owner'[m] = v
      BY <3>1, <2>5, <1>2 DEF OwnedBy
    <3>3. AlertsOf(list'[v]) \subseteq AlertsOf(list[v]) \cup (IF v = u THEN {n} ELSE {})
      BY <2>3, <2>4 DEF TypeOK
    <3>4. owner'[n] = u
      BY <2>3 DEF TypeOK
    <3> QED
      BY <3>2, <3>3, <3>4 DEF OwnedBy
  <2>7. ASSUME NEW g \in Handlers
        PROVE  OwnedBy(kept[g], user[g])' /\ (hpc[g] = "idle" => kept[g] = <<>>)'
    <3>1. kept'[g] = kept[g] /\ (hpc'[g] = "idle" => hpc[g] = "idle")
          /\ (kept[g] # <<>> => user'[g] = user[g] /\ user[g] # None)
      BY <2>1, <1>2 DEF QueueItem, OwnedInv, TypeOK
    <3>2. OwnedBy(kept[g], user[g]) /\ AlertsOf(kept[g]) \subseteq Alerts
      BY <1>3 DEF OwnedInv, TypeOK
    <3> QED
      BY <1>1, <3>1, <3>2, <2>5 DEF OwnedBy, OwnedInv
  <2>8. OwnedBy(batch, current)' /\ (fpc \in {"idle", "next"} => current = None /\ batch = <<>>)'
    <3>1. batch' = batch /\ current' = current /\ fpc' = fpc
      BY <2>1 DEF QueueItem
    <3>2. batch # <<>> => current \in Users
      BY DEF OwnedInv, TypeOK
    <3>3. OwnedBy(batch, current) /\ AlertsOf(batch) \subseteq Alerts
      BY <1>3 DEF OwnedInv, TypeOK
    <3> QED
      BY <1>1, <1>2, <3>1, <3>2, <3>3, <2>5 DEF OwnedBy, OwnedInv
  <2>9. \A m \in Alerts : (owner[m] = None => acked[m] = 0 /\ m \notin dropped)'
    BY <2>1, <2>5 DEF QueueItem, OwnedInv
  <2> QED
    BY <2>6, <2>7, <2>8, <2>9 DEF OwnedInv
<1>5. ASSUME NEW h \in Handlers, Trim(h)
      PROVE  OwnedInv'
  <2>1. AlertsOf(Trimmed(list[user[h]])) \subseteq AlertsOf(list[user[h]]) /\ user[h] \in Users
    BY <1>5, TrimLeft
  <2>2. AlertsOf(list[user[h]]) \subseteq Alerts
    BY <1>3, <2>1 DEF TypeOK
  <2> QED
    BY <1>2, <1>5, <2>1, <2>2 DEF Trim, OwnedInv, OwnedBy, TypeOK
<1>6. ASSUME NEW h \in Handlers, ReadBack(h)
      PROVE  OwnedInv'
  <2> DEFINE r == Trimmed(Pruned(list[user[h]], item[h].at))
  <2>1. AlertsOf(r) \subseteq AlertsOf(list[user[h]]) /\ user[h] \in Users
    BY <1>6, ReadBackLeft
  <2>2. AlertsOf(list[user[h]]) \subseteq Alerts
    BY <1>3, <2>1 DEF TypeOK
  <2>3. kept' = [kept EXCEPT ![h] = r]
        /\ dropped' = dropped \cup (AlertsOf(list[user[h]]) \ AlertsOf(r))
    BY <1>6 DEF ReadBack
  <2> HIDE DEF r
  <2> QED
    BY <1>2, <1>6, <2>1, <2>2, <2>3 DEF ReadBack, OwnedInv, OwnedBy, TypeOK
<1>7. ASSUME NEW h \in Handlers, Delete(h)
      PROVE  OwnedInv'
  BY <1>1, <1>7 DEF Delete, OwnedInv, OwnedBy, TypeOK
<1>8. ASSUME NEW h \in Handlers, WriteBack(h)
      PROVE  OwnedInv'
  <2>1. user[h] \in Users /\ list[user[h]] \in Seq(Item) /\ kept[h] \in Seq(Item)
    BY <1>8 DEF WriteBack, TypeOK
  <2>2. AlertsOf(list[user[h]] \o kept[h]) \subseteq AlertsOf(list[user[h]]) \cup AlertsOf(kept[h])
    BY <2>1, AlertsOfConcat
  <2> QED
    BY <1>1, <1>8, <2>1, <2>2 DEF WriteBack, OwnedInv, OwnedBy, TypeOK
<1>9. ASSUME NEW h \in Handlers, SetTTL(h)
      PROVE  OwnedInv'
  BY <1>9 DEF SetTTL, OwnedInv, OwnedBy, TypeOK
<1>10. ASSUME NEW h \in Handlers, Register(h)
       PROVE  OwnedInv'
  BY <1>1, <1>10 DEF Register, OwnedInv, OwnedBy, TypeOK
<1>11. ASSUME NEW h \in Handlers, QueueError(h)
       PROVE  OwnedInv'
  BY <1>1, <1>11 DEF QueueError, OwnedInv, OwnedBy, TypeOK
<1>12. CASE StartFlush
  BY <1>12 DEF StartFlush, OwnedInv, OwnedBy, TypeOK
<1>13. ASSUME NEW u \in Users, ReadDigest(u)
       PROVE  OwnedInv'
  BY <1>13 DEF ReadDigest, OwnedInv, OwnedBy, TypeOK
<1>14. CASE SendDigest
  <2>1. ASSUME NEW n \in Alerts, owner[n] = None
        PROVE  acked'[n] = 0
    <3>1. n \notin AlertsOf(batch)
      BY <1>2, <1>14, <2>1 DEF SendDigest, OwnedInv, OwnedBy, TypeOK
    <3>2. Occurrences(n, batch) = 0
      BY <3>1, OccurrencesNone
    <3>3. acked[n] = 0 /\ acked'[n] = Saturated(acked[n] + 1 * Occurrences(n, batch))
      BY <1>14, <2>1 DEF SendDigest, OwnedInv, Counted
    <3> QED
      BY <3>2, <3>3 DEF Saturated
  <2> QED
    BY <1>14, <2>1 DEF SendDigest, OwnedInv, OwnedBy
<1>15. CASE DeleteDigest
  BY <1>1, <1>15 DEF DeleteDigest, OwnedInv, OwnedBy, TypeOK
<1>16. CASE Unregister
  BY <1>1, <1>16 DEF Unregister, OwnedInv, OwnedBy, TypeOK
<1>17. CASE EndFlush
  BY <1>1, <1>17 DEF EndFlush, OwnedInv, OwnedBy, TypeOK
<1>18. CASE SendFails
  BY <1>1, <1>18 DEF SendFails, OwnedInv, OwnedBy, TypeOK
<1>19. CASE FlushError
  BY <1>1, <1>19 DEF FlushError, OwnedInv, OwnedBy, TypeOK
<1>20. ASSUME NEW u \in Users, ChangeChat(u)
       PROVE  OwnedInv'
  BY <1>20 DEF ChangeChat, OwnedInv, OwnedBy, TypeOK
<1>21. CASE Tick
  <2>1. \A u \in Users : list'[u] = list[u] \/ list'[u] = <<>>
    BY <1>21 DEF Tick
  <2>2. \A u \in Users : OwnedBy(list[u], u)'
    BY <1>1, <1>21, <2>1 DEF Tick, OwnedInv, OwnedBy
  <2>3. \A n \in Alerts : owner[n] = None => n \notin dropped'
    <3>1. \A u \in Users : \A n \in AlertsOf(list[u]) : owner[n] # None
      BY <1>2 DEF OwnedInv, OwnedBy
    <3>2. \A n \in dropped' : n \in dropped \/ \E u \in Users : n \in AlertsOf(list[u])
      BY <1>21 DEF Tick
    <3> QED
      BY <3>1, <3>2 DEF OwnedInv
  <2> QED
    BY <1>21, <2>2, <2>3 DEF Tick, OwnedInv, OwnedBy
<1>22. CASE UNCHANGED vars
  BY <1>22 DEF vars, OwnedInv, OwnedBy
<1> QED
  BY <1>4, <1>5, <1>6, <1>7, <1>8, <1>9, <1>10, <1>11, <1>12, <1>13, <1>14, <1>15, <1>16,
     <1>17, <1>18, <1>19, <1>20, <1>21, <1>22 DEF Next, QueueStep, FlushStep

-----------------------------------------------------------------------------
(***************************************************************************)
(* Users whose list no two actors used at once                             *)
(***************************************************************************)

LEMMA UsingNobody ==
  ASSUME NEW u
  PROVE  Using(u) = {} <=> (\A h \in Handlers : ~On(h, u)) /\ ~JobOn(u)
BY DEF Using, On, JobOn

(* What s loses when it becomes r is recorded.                             *)
LEMMA CutDown ==
  ASSUME NEW u \in Users, NEW s, NEW r, Fates(u, s),
         AlertsOf(r) \subseteq AlertsOf(s), Distinct(s) => Distinct(r),
         dropped' = dropped \cup (AlertsOf(s) \ AlertsOf(r)), UNCHANGED <<owner, acked>>
  PROVE  Fates(u, r)'
BY DEF Fates, OnePlace

(* What falls off the list of u is no fate of the alerts of others.        *)
LEMMA OthersCut ==
  ASSUME NEW u \in Users, NEW v \in Users, v # u, OwnedInv,
         NEW r, dropped' = dropped \cup (AlertsOf(list[u]) \ r),
         UNCHANGED <<owner, acked>>
  PROVE  SameFates(v)
BY DEF OwnedInv, OwnedBy, SameFates

LEMMA NobodyElse ==
  ASSUME NEW u \in Users, Calm(u), NEW h \in Handlers, On(h, u)
  PROVE  ~JobOn(u) /\ \A g \in Handlers : On(g, u) => g = h
BY DEF Calm, Alone

(* The steps of a handler on the list of its own user.                     *)
LEMMA CalmQueue ==
  ASSUME IInv, NEW h \in Handlers, NEW u \in Users, Queue(h, u),
         NEW v \in Users, v \notin disturbed'
  PROVE  Calm(v)'
<1>1. PICK n \in Alerts, at \in 0..now, every \in Intervals : QueueItem(h, u, n, at, every)
  BY DEF Queue
<1> USE DEF clockVars, redisVars, handlerVars, jobVars, sentVars, historyVars, Goto, Enter
<1>2. v \notin disturbed /\ (v = u => Using(u) = {})
  BY <1>1 DEF QueueItem
<1>3. Calm(v) /\ TypeOK /\ OwnedInv
  BY <1>2 DEF IInv, CalmInv
<1>4. CASE v # u
  <2>1. SameFates(v)
    BY <1>1, <1>3, <1>4 DEF QueueItem, SameFates, TypeOK
  <2>2. SameHandlers(v)
    BY <1>1, <1>3, <1>4 DEF QueueItem, SameHandlers, On, TypeOK
  <2>3. SameJob(v) /\ SameList(v)
    BY <1>1, <1>3, <1>4 DEF QueueItem, SameJob, SameList, JobOn, TypeOK
  <2> QED
    BY <1>3, <2>1, <2>2, <2>3, Elsewhere
<1>5. CASE v = u
  <2> DEFINE new == [alert |-> n, chat |-> chat[u], at |-> at, every |-> every]
             s == list[u]
  <2>1. new \in Item
    BY <1>1, <1>3, DigestAssumption DEF Item, TypeOK, QueueItem
  <2>2. new.alert = n /\ list' = [list EXCEPT ![u] = Append(@, new)]
    BY <1>1 DEF QueueItem
  <2> HIDE DEF new
  <2>3. (\A g \in Handlers : ~On(g, u)) /\ ~JobOn(u)
    BY <1>2, <1>5, UsingNobody
  <2>4. /\ ~JobOn(u)'
        /\ \A g \in Handlers : On(g, u)' => g = h
        /\ hpc'[h] = "trim" /\ On(h, u)'
    BY <1>1, <1>3, <2>3 DEF QueueItem, On, JobOn, TypeOK
  <2>5. Fates(u, s) /\ n \notin AlertsOf(s)
    <3>1. Fates(u, s)
      BY <1>3, <1>5, <2>3 DEF Calm, Listed
    <3>2. owner[n] = None /\ u # None
      BY <1>1, DigestAssumption DEF QueueItem
    <3> QED
      BY <1>3, <3>1, <3>2 DEF OwnedInv, OwnedBy
  <2>6. s \in Seq(Item)
    BY <1>3 DEF TypeOK
  <2>7. AlertsOf(list'[u]) = AlertsOf(s) \cup {n} /\ Distinct(list'[u])
    <3>1. list'[u] = Append(s, new)
      BY <1>3, <2>2 DEF TypeOK
    <3> HIDE DEF s
    <3> QED
      BY <2>1, <2>2, <2>5, <2>6, <3>1, AlertsOfAppend DEF Fates
  <2>8. Fates(u, list[u])'
    <3>1. ASSUME NEW m \in Alerts, owner'[m] = u
          PROVE  OnePlace(m, list[u])'
      <4>1. UNCHANGED <<acked, dropped>> /\ owner' = [owner EXCEPT ![n] = u]
        BY <1>1 DEF QueueItem
      <4>2. CASE m = n
        <5>1. acked[n] = 0 /\ n \notin dropped
          BY <1>1, <1>3 DEF QueueItem, OwnedInv
        <5> QED
          BY <4>1, <4>2, <5>1, <2>7 DEF OnePlace
      <4>3. CASE m # n
        <5>1. OnePlace(m, s)
          BY <1>3, <3>1, <4>1, <4>3, <2>5 DEF Fates, TypeOK
        <5> HIDE DEF s
        <5> QED
          BY <4>1, <4>3, <5>1, <2>7 DEF OnePlace
      <4> QED
        BY <4>2, <4>3
    <3> QED
      BY <3>1, <2>7 DEF Fates
  <2>9. Alone(u)' /\ Handled(u)' /\ Flushed(u)'
    BY <2>4 DEF Alone, Handled, Flushed
  <2>10. Listed(u)'
    BY <2>4, <2>8 DEF Listed
  <2> QED
    BY <1>5, <2>9, <2>10 DEF Calm
<1> QED
  BY <1>4, <1>5

LEMMA CalmTrim ==
  ASSUME IInv, NEW h \in Handlers, Trim(h), NEW v \in Users, v \notin disturbed'
  PROVE  Calm(v)'
<1> USE DEF clockVars, redisVars, handlerVars, jobVars, sentVars, historyVars, Goto
<1>1. Calm(v) /\ TypeOK /\ OwnedInv
  BY DEF IInv, CalmInv, Trim
<1>2. PICK u \in Users, s \in Seq(Item), r \in Seq(Item) :
        /\ u = user[h] /\ s = list[u] /\ r = Trimmed(s)
        /\ Len(r) <= MaxItems /\ AlertsOf(r) \subseteq AlertsOf(s)
        /\ Distinct(s) => Distinct(r)
  BY <1>1, TrimLeft
<1>3. dropped' = dropped \cup (AlertsOf(s) \ AlertsOf(r)) /\ list' = [list EXCEPT ![u] = r]
      /\ UNCHANGED <<owner, acked, kept, user, expiry, index, fpc, current, batch>>
      /\ hpc[h] = "trim" /\ hpc' = [hpc EXCEPT ![h] = "read"]
  BY <1>2 DEF Trim
<1>4. CASE v # u
  <2>1. SameFates(v)
    <3>1. dropped' = dropped \cup (AlertsOf(list[u]) \ AlertsOf(r))
      BY <1>2, <1>3
    <3> QED
      BY <3>1, <1>1, <1>3, <1>4, OthersCut
  <2>2. SameHandlers(v)
    BY <1>1, <1>2, <1>3, <1>4 DEF SameHandlers, On, TypeOK
  <2>3. SameJob(v) /\ SameList(v)
    BY <1>1, <1>3, <1>4 DEF SameJob, SameList, JobOn, TypeOK
  <2> QED
    BY <1>1, <2>1, <2>2, <2>3, Elsewhere
<1>5. CASE v = u
  <2>1. On(h, u) /\ ~JobOn(u) /\ \A g \in Handlers : On(g, u) => g = h
    <3>1. On(h, u)
      BY <1>2, <1>3 DEF On
    <3> QED
      BY <3>1, <1>1, <1>5, NobodyElse
  <2>2. ~JobOn(u)' /\ \A g \in Handlers : On(g, v)' => g = h /\ hpc'[g] = "read"
    BY <1>1, <1>3, <1>5, <2>1 DEF On, JobOn, TypeOK
  <2>3. Fates(u, s)
    BY <1>1, <1>2, <1>3, <1>5, <2>1 DEF Calm, Listed
  <2>4. Fates(u, r)'
    BY <1>2, <1>3, <2>3, CutDown
  <2>5. list'[u] = r
    BY <1>1, <1>2, <1>3 DEF TypeOK
  <2>6. On(h, u)'
    BY <1>1, <1>2, <1>3 DEF On, TypeOK
  <2>8. Alone(u)' /\ Handled(u)' /\ Flushed(u)'
    BY <2>2, <1>5 DEF Alone, Handled, Flushed
  <2>9. Fates(v, list[v])'
    BY <2>4, <2>5, <1>5 DEF Fates, OnePlace
  <2>10. Listed(v)'
    BY <2>2, <2>5, <2>6, <2>9, <1>2, <1>5 DEF Listed
  <2> QED
    BY <1>5, <2>8, <2>10 DEF Calm
<1> QED
  BY <1>4, <1>5

LEMMA CalmReadBack ==
  ASSUME IInv, NEW h \in Handlers, ReadBack(h), NEW v \in Users, v \notin disturbed'
  PROVE  Calm(v)'
<1> USE DEF clockVars, redisVars, handlerVars, jobVars, sentVars, historyVars, Goto
<1>1. Calm(v) /\ TypeOK /\ OwnedInv
  BY DEF IInv, CalmInv, ReadBack
<1>2. PICK u \in Users, s \in Seq(Item), r \in Seq(Item) :
        /\ u = user[h] /\ s = list[u] /\ r = Trimmed(Pruned(s, item[h].at))
        /\ Len(r) <= MaxItems /\ AlertsOf(r) \subseteq AlertsOf(s)
        /\ Distinct(s) => Distinct(r)
  BY <1>1, ReadBackLeft
<1>3. dropped' = dropped \cup (AlertsOf(s) \ AlertsOf(r)) /\ kept' = [kept EXCEPT ![h] = r]
      /\ UNCHANGED <<owner, acked, list, user, expiry, index, fpc, current, batch>>
      /\ hpc[h] = "read" /\ hpc' = [hpc EXCEPT ![h] = "del"]
  BY <1>2 DEF ReadBack
<1>4. CASE v # u
  <2>1. SameFates(v)
    <3>1. dropped' = dropped \cup (AlertsOf(list[u]) \ AlertsOf(r))
      BY <1>2, <1>3
    <3> QED
      BY <3>1, <1>1, <1>3, <1>4, OthersCut
  <2>2. SameHandlers(v)
    BY <1>1, <1>2, <1>3, <1>4 DEF SameHandlers, On, TypeOK
  <2>3. SameJob(v) /\ SameList(v)
    BY <1>1, <1>3, <1>4 DEF SameJob, SameList, JobOn, TypeOK
  <2> QED
    BY <1>1, <2>1, <2>2, <2>3, Elsewhere
<1>5. CASE v = u
  <2>1. On(h, u) /\ ~JobOn(u) /\ \A g \in Handlers : On(g, u) => g = h
    <3>1. On(h, u)
      BY <1>2, <1>3 DEF On
    <3> QED
      BY <3>1, <1>1, <1>5, NobodyElse
  <2>2. ~JobOn(u)' /\ \A g \in Handlers : On(g, u)' => g = h
    BY <1>1, <1>3, <1>5, <2>1 DEF On, JobOn, TypeOK
  <2>3. Fates(u, s) /\ Len(s) <= MaxItems
    BY <1>1, <1>2, <1>3, <1>5, <2>1 DEF Calm, Listed
  <2>4. Fates(u, r)'
    BY <1>2, <1>3, <2>3, CutDown
  <2>5. kept'[h] = r /\ hpc'[h] = "del" /\ list'[u] = s
    BY <1>1, <1>2, <1>3 DEF TypeOK
  <2>6. On(h, u)'
    BY <1>1, <1>2, <1>3 DEF On, TypeOK
  <2>7. Fates(u, kept[h])'
    BY <2>4, <2>5 DEF Fates, OnePlace
  <2>8. Alone(u)' /\ Flushed(u)'
    BY <2>2 DEF Alone, Flushed
  <2>9. Handled(u)'
    BY <2>2, <2>5, <2>7, <1>2 DEF Handled
  <2>10. Listed(u)'
    BY <2>2, <2>3, <2>5, <2>6 DEF Listed
  <2> QED
    BY <1>5, <2>8, <2>9, <2>10 DEF Calm
<1> QED
  BY <1>4, <1>5

LEMMA CalmDelete ==
  ASSUME IInv, NEW h \in Handlers, Delete(h), NEW v \in Users, v \notin disturbed'
  PROVE  Calm(v)'
<1> USE DEF clockVars, redisVars, handlerVars, jobVars, sentVars, historyVars, Goto
<1>1. Calm(v) /\ TypeOK
  BY DEF IInv, CalmInv, Delete
<1>2. PICK u \in Users, k \in Seq(Item) : u = user[h] /\ k = kept[h]
  BY <1>1 DEF Delete, TypeOK
<1>3. /\ list' = [list EXCEPT ![u] = <<>>] /\ expiry' = [expiry EXCEPT ![u] = Never]
      /\ UNCHANGED <<owner, acked, dropped, kept, user, index, fpc, current, batch>>
      /\ hpc[h] = "del" /\ hpc' = [hpc EXCEPT ![h] = IF k = <<>> THEN "expire" ELSE "write"]
  BY <1>2 DEF Delete
<1>4. SameFates(v)
  BY <1>3 DEF SameFates
<1>5. CASE v # u
  <2>1. SameHandlers(v)
    BY <1>1, <1>2, <1>3, <1>5 DEF SameHandlers, On, TypeOK
  <2>2. SameJob(v) /\ SameList(v)
    BY <1>1, <1>3, <1>5 DEF SameJob, SameList, JobOn, TypeOK
  <2> QED
    BY <1>1, <1>4, <2>1, <2>2, Elsewhere
<1>6. CASE v = u
  <2>1. On(h, u) /\ ~JobOn(u) /\ \A g \in Handlers : On(g, u) => g = h
    <3>1. On(h, u)
      BY <1>2, <1>3 DEF On
    <3> QED
      BY <3>1, <1>1, <1>6, NobodyElse
  <2>2. ~JobOn(u)' /\ \A g \in Handlers : On(g, u)' => g = h
    BY <1>1, <1>3, <1>6, <2>1 DEF On, JobOn, TypeOK
  <2>3. Fates(u, k) /\ Len(k) <= MaxItems
    BY <1>1, <1>2, <1>3, <1>6, <2>1 DEF Calm, Handled
  <2>4. Fates(u, k)'
    BY <1>4, <1>6, <2>3, FatesKept
  <2>5. kept'[h] = k /\ list'[u] = <<>> /\ hpc'[h] = (IF k = <<>> THEN "expire" ELSE "write")
    BY <1>1, <1>2, <1>3 DEF TypeOK
  <2>6. On(h, u)'
    BY <1>1, <1>2, <1>3 DEF On, TypeOK
  <2>7. Fates(u, kept[h])'
    BY <2>4, <2>5 DEF Fates, OnePlace
  <2>8. Alone(u)' /\ Flushed(u)'
    BY <2>2 DEF Alone, Flushed
  <2>9. Handled(u)'
    BY <2>2, <2>3, <2>5, <2>7 DEF Handled
  <2>10. k = <<>> => Fates(u, list[u])'
    BY <2>4, <2>5 DEF Fates, OnePlace
  <2>11. Listed(u)'
    <3>1. Len(list'[u]) = 0 /\ MaxItems \in Nat
      BY <2>5, DigestAssumption
    <3> QED
      BY <2>2, <2>5, <2>6, <2>10, <3>1 DEF Listed
  <2> QED
    BY <1>6, <2>8, <2>9, <2>11 DEF Calm
<1> QED
  BY <1>5, <1>6

LEMMA CalmWriteBack ==
  ASSUME IInv, NEW h \in Handlers, WriteBack(h), NEW v \in Users, v \notin disturbed'
  PROVE  Calm(v)'
<1> USE DEF clockVars, redisVars, handlerVars, jobVars, sentVars, historyVars, Goto
<1>1. Calm(v) /\ TypeOK
  BY DEF IInv, CalmInv, WriteBack
<1>2. PICK u \in Users, k \in Seq(Item) : u = user[h] /\ k = kept[h]
  BY <1>1 DEF WriteBack, TypeOK
<1>3. /\ list' = [list EXCEPT ![u] = @ \o k] /\ kept' = [kept EXCEPT ![h] = <<>>]
      /\ UNCHANGED <<owner, acked, dropped, user, expiry, index, fpc, current, batch>>
      /\ hpc[h] = "write" /\ hpc' = [hpc EXCEPT ![h] = "expire"]
  BY <1>2 DEF WriteBack
<1>4. SameFates(v)
  BY <1>3 DEF SameFates
<1>5. CASE v # u
  <2>1. SameHandlers(v)
    BY <1>1, <1>2, <1>3, <1>5 DEF SameHandlers, On, TypeOK
  <2>2. SameJob(v) /\ SameList(v)
    BY <1>1, <1>3, <1>5 DEF SameJob, SameList, JobOn, TypeOK
  <2> QED
    BY <1>1, <1>4, <2>1, <2>2, Elsewhere
<1>6. CASE v = u
  <2>1. On(h, u) /\ ~JobOn(u) /\ \A g \in Handlers : On(g, u) => g = h
    <3>1. On(h, u)
      BY <1>2, <1>3 DEF On
    <3> QED
      BY <3>1, <1>1, <1>6, NobodyElse
  <2>2. ~JobOn(u)' /\ \A g \in Handlers : On(g, u)' => g = h
    BY <1>1, <1>3, <1>6, <2>1 DEF On, JobOn, TypeOK
  <2>3. Fates(u, k) /\ Len(k) <= MaxItems /\ list[u] = <<>>
    BY <1>1, <1>2, <1>3, <1>6, <2>1 DEF Calm, Handled
  <2>4. Fates(u, k)'
    BY <1>4, <1>6, <2>3, FatesKept
  <2>5. hpc'[h] = "expire" /\ list'[u] = k
    <3>1. <<>> \o k = k
      OBVIOUS
    <3> QED
      BY <1>1, <1>2, <1>3, <2>3, <3>1 DEF TypeOK
  <2>6. On(h, u)'
    BY <1>1, <1>2, <1>3 DEF On, TypeOK
  <2>7. Alone(u)' /\ Handled(u)' /\ Flushed(u)'
    BY <2>2, <2>5 DEF Alone, Handled, Flushed
  <2>8. Fates(u, list[u])'
    BY <2>4, <2>5 DEF Fates, OnePlace
  <2>9. Listed(u)'
    BY <2>2, <2>3, <2>5, <2>6, <2>8 DEF Listed
  <2> QED
    BY <1>6, <2>7, <2>9 DEF Calm
<1> QED
  BY <1>5, <1>6

LEMMA CalmSetTTL ==
  ASSUME IInv, NEW h \in Handlers, SetTTL(h), NEW v \in Users, v \notin disturbed'
  PROVE  Calm(v)'
<1> USE DEF clockVars, redisVars, handlerVars, jobVars, sentVars, historyVars, Goto
<1>1. Calm(v) /\ TypeOK
  BY DEF IInv, CalmInv, SetTTL
<1>2. PICK u \in Users, x \in Item : u = user[h] /\ x = item[h]
  BY <1>1 DEF SetTTL, TypeOK
<1>3. /\ expiry' = [expiry EXCEPT ![u] = IF list[u] = <<>> THEN @ ELSE now + x.every + Grace]
      /\ UNCHANGED <<owner, acked, dropped, list, kept, user, index, fpc, current, batch>>
      /\ hpc[h] = "expire" /\ hpc' = [hpc EXCEPT ![h] = "index"]
  BY <1>2 DEF SetTTL
<1>4. SameFates(v)
  BY <1>3 DEF SameFates
<1>5. CASE v # u
  <2>1. SameHandlers(v)
    BY <1>1, <1>2, <1>3, <1>5 DEF SameHandlers, On, TypeOK
  <2>2. SameJob(v) /\ SameList(v)
    BY <1>1, <1>3, <1>5 DEF SameJob, SameList, JobOn, TypeOK
  <2> QED
    BY <1>1, <1>4, <2>1, <2>2, Elsewhere
<1>6. CASE v = u
  <2>1. On(h, u) /\ ~JobOn(u) /\ \A g \in Handlers : On(g, u) => g = h
    <3>1. On(h, u)
      BY <1>2, <1>3 DEF On
    <3> QED
      BY <3>1, <1>1, <1>6, NobodyElse
  <2>2. ~JobOn(u)' /\ \A g \in Handlers : On(g, u)' => g = h
    BY <1>1, <1>3, <1>6, <2>1 DEF On, JobOn, TypeOK
  <2>3. Fates(u, list[u]) /\ Len(list[u]) <= MaxItems
    BY <1>1, <1>2, <1>3, <1>6, <2>1 DEF Calm, Listed
  <2>4. Fates(u, list[u])'
    BY <1>3, <2>3 DEF Fates, OnePlace
  <2>5. list[u] # <<>> => expiry'[u] # Never
    <3>1. list[u] # <<>> => expiry'[u] = now + x.every + Grace
      BY <1>1, <1>3 DEF TypeOK
    <3>2. x.every \in 1..LongestInterval
      BY ItemTyped
    <3>3. now \in 0..MaxTime /\ MaxTime \in Nat /\ Grace \in Nat /\ LongestInterval \in Nat
      BY <1>1, DigestAssumption DEF TypeOK, LongestInterval
    <3>4. now + x.every + Grace < MaxTime + LongestInterval + Grace + 1
      BY <3>2, <3>3
    <3> QED
      BY <3>1, <3>2, <3>3, <3>4 DEF Never
  <2>6. hpc'[h] = "index" /\ On(h, u)' /\ list'[u] = list[u]
    BY <1>1, <1>2, <1>3 DEF On, TypeOK
  <2>7. Alone(u)' /\ Flushed(u)'
    BY <2>2 DEF Alone, Flushed
  <2>8. Handled(u)'
    BY <2>2, <2>5, <2>6 DEF Handled, Never
  <2>9. Listed(u)'
    BY <2>2, <2>3, <2>4, <2>6 DEF Listed
  <2> QED
    BY <1>6, <2>7, <2>8, <2>9 DEF Calm
<1> QED
  BY <1>5, <1>6

LEMMA CalmRegister ==
  ASSUME IInv, NEW h \in Handlers, Register(h), NEW v \in Users, v \notin disturbed'
  PROVE  Calm(v)'
<1> USE DEF clockVars, redisVars, handlerVars, jobVars, sentVars, historyVars, Goto, HandlerDone
<1>1. Calm(v) /\ TypeOK
  BY DEF IInv, CalmInv, Register
<1>2. PICK u \in Users : u = user[h]
  BY <1>1 DEF Register, TypeOK
<1>3. /\ index' = index \cup {u}
      /\ UNCHANGED <<owner, acked, dropped, list, expiry, fpc, current, batch>>
      /\ hpc[h] = "index" /\ hpc' = [hpc EXCEPT ![h] = "idle"]
      /\ user' = [user EXCEPT ![h] = None] /\ kept' = [kept EXCEPT ![h] = <<>>]
  BY <1>2 DEF Register
<1>4. SameFates(v)
  BY <1>3 DEF SameFates
<1>5. CASE v # u
  <2>1. SameHandlers(v)
    BY <1>1, <1>2, <1>3, <1>5 DEF SameHandlers, On, TypeOK
  <2>2. SameJob(v) /\ SameList(v)
    BY <1>1, <1>3, <1>5 DEF SameJob, SameList, JobOn, TypeOK
  <2> QED
    BY <1>1, <1>4, <2>1, <2>2, Elsewhere
<1>6. CASE v = u
  <2>1. On(h, u) /\ ~JobOn(u) /\ \A g \in Handlers : On(g, u) => g = h
    <3>1. On(h, u)
      BY <1>2, <1>3 DEF On
    <3> QED
      BY <3>1, <1>1, <1>6, NobodyElse
  <2>2. ~JobOn(u)' /\ \A g \in Handlers : ~On(g, u)'
    BY <1>1, <1>3, <1>6, <2>1 DEF On, JobOn, TypeOK
  <2>3. Fates(u, list[u]) /\ Len(list[u]) <= MaxItems /\ (list[u] # <<>> => expiry[u] # Never)
    BY <1>1, <1>2, <1>3, <1>6, <2>1 DEF Calm, Listed, Handled
  <2>4. Fates(u, list[u])'
    BY <1>3, <2>3 DEF Fates, OnePlace
  <2>5. Alone(u)' /\ Flushed(u)' /\ Handled(u)'
    BY <2>2 DEF Alone, Flushed, Handled
  <2>6. Listed(u)'
    BY <1>3, <2>2, <2>3, <2>4 DEF Listed, Never
  <2> QED
    BY <1>6, <2>5, <2>6 DEF Calm
<1> QED
  BY <1>5, <1>6

LEMMA CalmQueueError ==
  ASSUME IInv, NEW h \in Handlers, QueueError(h), NEW v \in Users, v \notin disturbed'
  PROVE  Calm(v)'
<1> USE DEF clockVars, redisVars, handlerVars, jobVars, sentVars, historyVars, Goto, HandlerDone, Break
<1>1. v \notin disturbed /\ v # user[h]
  BY DEF QueueError
<1>2. Calm(v) /\ TypeOK
  BY <1>1 DEF IInv, CalmInv
<1>3. SameFates(v) /\ SameJob(v) /\ SameList(v)
  BY DEF QueueError, SameFates, SameJob, SameList, JobOn
<1>4. SameHandlers(v)
  BY <1>1, <1>2, DigestAssumption DEF QueueError, SameHandlers, On, TypeOK
<1> QED
  BY <1>2, <1>3, <1>4, Elsewhere

(* The steps of the digest job.                                            *)
LEMMA CalmReadDigest ==
  ASSUME IInv, NEW u \in Users, ReadDigest(u), NEW v \in Users, v \notin disturbed'
  PROVE  Calm(v)'
<1> USE DEF clockVars, redisVars, handlerVars, jobVars, sentVars, historyVars, Enter
<1>1. v \notin disturbed
  BY DEF ReadDigest
<1>2. Calm(v) /\ TypeOK
  BY <1>1 DEF IInv, CalmInv
<1>3. SameFates(v) /\ SameHandlers(v) /\ SameList(v) /\ fpc = "next"
  BY DEF ReadDigest, SameFates, SameHandlers, SameList, On
<1>4. CASE ~(Due(list[u], flushTime) /\ v = u)
  <2>1. SameJob(v)
    BY <1>3, <1>4 DEF ReadDigest, SameJob, JobOn
  <2> QED
    BY <1>2, <1>3, <2>1, Elsewhere
<1>5. CASE Due(list[u], flushTime) /\ v = u
  <2>1. Using(u) = {}
    BY <1>5 DEF ReadDigest
  <2>2. \A g \in Handlers : ~On(g, u)
    BY <2>1, UsingNobody
  <2>3. \A g \in Handlers : ~On(g, u)'
    BY <2>2 DEF ReadDigest, On
  <2>4. fpc' = "send" /\ current' = u /\ batch' = list[u] /\ list' = list
    BY <1>5 DEF ReadDigest
  <2>5. Fates(u, list[u]) /\ Len(list[u]) <= MaxItems
        /\ (list[u] # <<>> => u \in index /\ expiry[u] # Never)
    BY <1>2, <1>3, <1>5, <2>2 DEF Calm, Listed, JobOn
  <2>6. Fates(u, list[u])'
    BY <2>5 DEF ReadDigest, Fates, OnePlace
  <2>7. Alone(u)' /\ Handled(u)' /\ Flushed(u)'
    BY <2>3, <2>4 DEF Alone, Handled, Flushed
  <2>8. Listed(u)'
    BY <2>3, <2>4, <2>5, <2>6 DEF Listed, ReadDigest, Never
  <2> QED
    BY <1>5, <2>7, <2>8 DEF Calm
<1> QED
  BY <1>4, <1>5

LEMMA CalmSendDigest ==
  ASSUME IInv, SendDigest, NEW v \in Users, v \notin disturbed'
  PROVE  Calm(v)'
<1> USE DEF clockVars, redisVars, handlerVars, jobVars, sentVars, historyVars
<1>1. Calm(v) /\ TypeOK /\ OwnedInv
  BY DEF IInv, CalmInv, SendDigest
<1>2. PICK u \in Users, b \in Seq(Item) : u = current /\ b = batch
  BY <1>1 DEF SendDigest, TypeOK
<1>3. /\ UNCHANGED <<owner, dropped, list, expiry, index, hpc, user, kept, current, batch>>
      /\ \A n \in Alerts : acked'[n] = Saturated(acked[n] + Occurrences(n, b))
      /\ fpc = "send" /\ fpc' = "del"
  <2>1. \A n \in Alerts : 1 * Occurrences(n, b) = Occurrences(n, b)
    BY OccurrencesType
  <2> QED
    BY <1>2, <2>1 DEF SendDigest, Counted
<1>4. SameHandlers(v) /\ SameList(v)
  BY <1>3 DEF SameHandlers, SameList, On
<1>5. CASE v # u
  <2>1. SameFates(v)
    <3>1. ASSUME NEW n \in Alerts, owner[n] = v
          PROVE  acked'[n] = acked[n]
      <4>1. n \notin AlertsOf(b)
        BY <1>1, <1>2, <1>5, <3>1 DEF OwnedInv, OwnedBy
      <4>2. Occurrences(n, b) = 0
        BY <4>1, OccurrencesNone
      <4>3. acked[n] \in 0..2
        BY <1>1 DEF TypeOK
      <4> QED
        BY <1>3, <4>2, <4>3 DEF Saturated
    <3> QED
      BY <3>1, <1>3 DEF SameFates
  <2>2. SameJob(v)
    BY <1>2, <1>3, <1>5 DEF SameJob, JobOn
  <2> QED
    BY <1>1, <1>4, <2>1, <2>2, Elsewhere
<1>6. CASE v = u
  <2>1. JobOn(u) /\ JobOn(u)' /\ \A g \in Handlers : ~On(g, u) /\ ~On(g, u)'
    <3>1. JobOn(u) /\ JobOn(u)'
      BY <1>2, <1>3 DEF JobOn
    <3> QED
      BY <1>1, <1>4, <1>6, <3>1 DEF Calm, Alone, SameHandlers
  <2>2. Fates(u, b) /\ b = list[u]
    BY <1>1, <1>2, <1>3, <1>6, <2>1 DEF Calm, Listed, Flushed
  <2>3. ASSUME NEW n \in Alerts, owner[n] = u
        PROVE  OnePlace(n, <<>>)'
    <3>1. Occurrences(n, b) = IF n \in AlertsOf(b) THEN 1 ELSE 0
      BY <2>2, OccurrencesOnce DEF Fates
    <3>2. OnePlace(n, b)
      BY <2>2, <2>3 DEF Fates
    <3>3. acked'[n] = Saturated(acked[n] + Occurrences(n, b))
      BY <1>3
    <3>4. CASE n \in AlertsOf(b)
      <4>1. acked'[n] = 1
        BY <3>1, <3>2, <3>3, <3>4 DEF OnePlace, Saturated
      <4>2. n \notin dropped'
        BY <1>3, <3>2, <3>4 DEF OnePlace
      <4> QED
        BY <4>1, <4>2, AlertsOfEmpty DEF OnePlace
    <3>5. CASE n \notin AlertsOf(b)
      <4>1. acked'[n] = acked[n]
        BY <3>1, <3>2, <3>3, <3>5 DEF OnePlace, Saturated
      <4> QED
        BY <1>3, <3>2, <3>5, <4>1, AlertsOfEmpty DEF OnePlace
    <3> QED
      BY <3>4, <3>5
  <2>4. Fates(u, <<>>)'
    BY <1>3, <2>3, AlertsOfEmpty DEF Fates
  <2>5. Alone(u)' /\ Handled(u)'
    BY <2>1 DEF Alone, Handled
  <2>6. Flushed(u)'
    BY <1>3, <2>4 DEF Flushed
  <2>7. Listed(u)'
    BY <1>1, <1>3, <1>6, <2>1 DEF Calm, Listed, Never
  <2> QED
    BY <1>6, <2>5, <2>6, <2>7 DEF Calm
<1> QED
  BY <1>5, <1>6

LEMMA CalmDeleteDigest ==
  ASSUME IInv, DeleteDigest, NEW v \in Users, v \notin disturbed'
  PROVE  Calm(v)'
<1> USE DEF clockVars, redisVars, handlerVars, jobVars, sentVars, historyVars
<1>1. Calm(v) /\ TypeOK
  BY DEF IInv, CalmInv, DeleteDigest
<1>2. PICK u \in Users : u = current
  BY <1>1 DEF DeleteDigest, TypeOK
<1>3. /\ UNCHANGED <<owner, acked, dropped, index, hpc, user, kept, current, batch>>
      /\ list' = [list EXCEPT ![u] = <<>>] /\ expiry' = [expiry EXCEPT ![u] = Never]
      /\ fpc = "del" /\ fpc' = "unlist"
  BY <1>2 DEF DeleteDigest
<1>4. SameHandlers(v) /\ SameFates(v)
  BY <1>3 DEF SameHandlers, SameFates, On
<1>5. CASE v # u
  <2>1. SameJob(v) /\ SameList(v)
    BY <1>1, <1>2, <1>3, <1>5 DEF SameJob, SameList, JobOn, TypeOK
  <2> QED
    BY <1>1, <1>4, <2>1, Elsewhere
<1>6. CASE v = u
  <2>1. JobOn(u) /\ JobOn(u)' /\ \A g \in Handlers : ~On(g, u) /\ ~On(g, u)'
    <3>1. JobOn(u) /\ JobOn(u)'
      BY <1>2, <1>3 DEF JobOn
    <3> QED
      BY <1>1, <1>4, <1>6, <3>1 DEF Calm, Alone, SameHandlers
  <2>2. Fates(u, <<>>)
    BY <1>1, <1>3, <1>6, <2>1 DEF Calm, Flushed
  <2>3. list'[u] = <<>>
    BY <1>1, <1>3 DEF TypeOK
  <2>4. Fates(u, list[u])'
    BY <1>3, <2>2, <2>3 DEF Fates, OnePlace
  <2>5. Alone(u)' /\ Handled(u)' /\ Flushed(u)'
    BY <1>3, <2>1, <2>3 DEF Alone, Handled, Flushed
  <2>6. Listed(u)'
    <3>1. Len(list'[u]) = 0 /\ MaxItems \in Nat
      BY <2>3, DigestAssumption
    <3> QED
      BY <2>3, <2>4, <3>1 DEF Listed
  <2> QED
    BY <1>6, <2>5, <2>6 DEF Calm
<1> QED
  BY <1>5, <1>6

(* The job leaves the list of u with its alerts where they were.           *)
LEMMA CalmJobLeaves ==
  ASSUME IInv, NEW v \in Users, v \notin disturbed,
         UNCHANGED <<owner, acked, dropped, list, expiry, hpc, user, kept>>,
         v \in index => v \in index' \/ list[v] = <<>>,
         ~(JobOn(v) /\ fpc = "del"), ~JobOn(v)'
  PROVE  Calm(v)'
<1>1. Calm(v) /\ TypeOK
  BY DEF IInv, CalmInv
<1>2. SameHandlers(v)
  BY DEF SameHandlers, On
<1>3. (\A h \in Handlers : On(h, v) => hpc[h] \notin {"del", "write"}) => Fates(v, list[v])'
  BY <1>1 DEF Calm, Listed, Fates, OnePlace
<1>4. Alone(v)' /\ Flushed(v)'
  BY <1>1, <1>2 DEF Calm, Alone, Flushed, SameHandlers
<1>5. Handled(v)'
  BY <1>1, <1>2 DEF Calm, Handled, SameHandlers, Fates, OnePlace, Never
<1>6. Listed(v)'
  BY <1>1, <1>2, <1>3 DEF Calm, Listed, SameHandlers, Never
<1> QED
  BY <1>4, <1>5, <1>6 DEF Calm

LEMMA CalmTick ==
  ASSUME IInv, Tick, NEW v \in Users, v \notin disturbed'
  PROVE  Calm(v)'
<1> USE DEF clockVars, redisVars, handlerVars, jobVars, sentVars, historyVars
<1> DEFINE gone == {u \in Users : expiry[u] <= now + 1}
<1>1. Calm(v) /\ TypeOK /\ OwnedInv
  BY DEF IInv, CalmInv, Tick
<1>2. SameHandlers(v) /\ SameJob(v)
  BY DEF Tick, SameHandlers, SameJob, On, JobOn
<1>3. \A n \in dropped' : n \in dropped \/ \E u \in gone : n \in AlertsOf(list[u])
  BY DEF Tick
<1>4. \A n \in dropped : n \in dropped'
  BY DEF Tick
<1>5. UNCHANGED <<owner, acked, index, hpc, user, kept, fpc, batch>>
  BY DEF Tick
<1>6. CASE v \notin gone
  <2>1. SameList(v)
    BY <1>6 DEF Tick, SameList
  <2>2. \A u \in gone : \A n \in AlertsOf(list[u]) : owner[n] # v
    BY <1>1, <1>6 DEF OwnedInv, OwnedBy
  <2>3. SameFates(v)
    BY <1>3, <1>4, <1>5, <2>2 DEF SameFates
  <2> QED
    BY <1>1, <1>2, <2>1, <2>3, Elsewhere
<1>7. CASE v \in gone
  <2>1. list'[v] = <<>> /\ Using(v) = {}
    BY <1>7 DEF Tick
  <2>2. (\A h \in Handlers : ~On(h, v)) /\ ~JobOn(v)
    BY <2>1, UsingNobody
  <2>3. (\A h \in Handlers : ~On(h, v)') /\ ~JobOn(v)'
    BY <1>2, <2>2 DEF SameHandlers, SameJob
  <2>4. Fates(v, list[v])
    BY <1>1, <2>2 DEF Calm, Listed
  <2>5. \A n \in AlertsOf(list[v]) : n \in dropped'
    BY <1>7 DEF Tick
  <2>6. ASSUME NEW n \in Alerts, owner[n] = v
        PROVE  OnePlace(n, <<>>)'
    <3>1. OnePlace(n, list[v])
      BY <2>4, <2>6 DEF Fates
    <3>2. n \in dropped' <=> n \in dropped \/ n \in AlertsOf(list[v])
      <4>1. \A u \in gone : n \in AlertsOf(list[u]) => u = v
        BY <1>1, <2>6 DEF OwnedInv, OwnedBy
      <4> QED
        BY <1>3, <1>4, <2>5, <4>1
    <3> QED
      BY <1>5, <3>1, <3>2, AlertsOfEmpty DEF OnePlace
  <2>7. Fates(v, list[v])'
    BY <1>5, <2>1, <2>6, AlertsOfEmpty DEF Fates, OnePlace
  <2>8. Alone(v)' /\ Handled(v)' /\ Flushed(v)'
    BY <2>3 DEF Alone, Handled, Flushed
  <2>9. Listed(v)'
    <3>1. Len(list'[v]) = 0 /\ MaxItems \in Nat
      BY <2>1, DigestAssumption
    <3> QED
      BY <2>1, <2>7, <3>1 DEF Listed
  <2> QED
    BY <2>8, <2>9 DEF Calm
<1> QED
  BY <1>6, <1>7

LEMMA CalmStep == IInv /\ [Next]_vars => CalmInv'
<1> SUFFICES ASSUME IInv, [Next]_vars, NEW v \in Users, v \notin disturbed'
             PROVE  Calm(v)'
  BY DEF CalmInv
<1> USE DEF clockVars, redisVars, handlerVars, jobVars, sentVars, historyVars, JobDone, Break
<1>1. ASSUME NEW h \in Handlers, QueueStep(h) \/ QueueError(h) \/ \E u \in Users : Queue(h, u)
      PROVE  Calm(v)'
  BY <1>1, CalmQueue, CalmTrim, CalmReadBack, CalmDelete, CalmWriteBack, CalmSetTTL,
     CalmRegister, CalmQueueError DEF QueueStep
<1>2. CASE StartFlush
  <2>1. v \notin disturbed /\ fpc = "idle" /\ fpc' = "next"
    BY <1>2 DEF StartFlush
  <2> QED
    BY <1>2, <2>1, CalmJobLeaves DEF StartFlush, JobOn
<1>3. ASSUME NEW u \in Users, ReadDigest(u)
      PROVE  Calm(v)'
  BY <1>3, CalmReadDigest
<1>4. CASE SendDigest
  BY <1>4, CalmSendDigest
<1>5. CASE DeleteDigest
  BY <1>5, CalmDeleteDigest
<1>6. CASE Unregister
  <2>1. v \notin disturbed
    BY <1>6 DEF Unregister
  <2>2. v = current => list[v] = <<>>
    BY <1>6, <2>1 DEF IInv, CalmInv, Calm, Flushed, JobOn, Unregister
  <2> QED
    BY <1>6, <2>1, <2>2, CalmJobLeaves DEF Unregister, JobOn
<1>7. CASE EndFlush
  BY <1>7, CalmJobLeaves DEF EndFlush, JobOn
<1>8. CASE SendFails
  BY <1>8, CalmJobLeaves DEF SendFails, JobOn
<1>9. CASE FlushError
  BY <1>9, CalmJobLeaves DEF FlushError, JobOn
<1>10. ASSUME NEW u \in Users, ChangeChat(u)
       PROVE  Calm(v)'
  <2>1. v \notin disturbed /\ SameFates(v) /\ SameHandlers(v) /\ SameJob(v) /\ SameList(v)
    BY <1>10 DEF ChangeChat, SameFates, SameHandlers, SameJob, SameList, On, JobOn
  <2> QED
    BY <2>1, Elsewhere DEF IInv, CalmInv
<1>11. CASE Tick
  BY <1>11, CalmTick
<1>12. CASE UNCHANGED vars
  <2>1. v \notin disturbed /\ SameFates(v) /\ SameHandlers(v) /\ SameJob(v) /\ SameList(v)
    BY <1>12 DEF vars, SameFates, SameHandlers, SameJob, SameList, On, JobOn
  <2> QED
    BY <2>1, Elsewhere DEF IInv, CalmInv
<1> QED
  BY <1>1, <1>2, <1>3, <1>4, <1>5, <1>6, <1>7, <1>8, <1>9, <1>10, <1>11, <1>12
     DEF Next, FlushStep

-----------------------------------------------------------------------------
(***************************************************************************)
(* Theorems                                                                *)
(***************************************************************************)

LEMMA Invariance == Spec => []IInv
<1>1. IInv /\ [Next]_vars => IInv'
  BY TypeStep, OwnedStep, CalmStep DEF IInv
<1> QED
  BY InitOK, <1>1, PTL DEF Spec

(* Every variable keeps its type, for any number of handlers, users, chats *)
(* and alerts and any cap: what pruneDigestItems and trimDigestItems leave *)
(* of a list is a list.                                                    *)
THEOREM TypeCorrect == Spec => []TypeOK
BY Invariance, PTL DEF IInv

(* In a settled list nobody is at work.                                    *)
LEMMA SettledListed ==
  ASSUME IInv, NEW u \in Users, Settled(u)
  PROVE  /\ list[u] \in Seq(Item) /\ Fates(u, list[u])
         /\ Len(list[u]) <= MaxItems
         /\ list[u] # <<>> => u \in index /\ expiry[u] # Never
<1>1. (\A h \in Handlers : ~On(h, u)) /\ ~JobOn(u) /\ u \notin disturbed
  BY UsingNobody DEF Settled
<1> QED
  BY <1>1 DEF IInv, CalmInv, Calm, Listed, TypeOK

(* An alert queued for a user whose list no two actors used at once has    *)
(* exactly one fate: in the list, in one digest whose send succeeded, or   *)
(* cut off, however often sends fail and runs of the job are repeated.     *)
THEOREM OneFateHolds == Spec => []OneFate
<1>1. IInv => OneFate
  <2> SUFFICES ASSUME IInv, NEW u \in Users, Settled(u), NEW n \in Alerts, owner[n] = u
               PROVE  Occurrences(n, list[u]) + acked[n]
                        + (IF n \in dropped THEN 1 ELSE 0) = 1
    BY DEF OneFate
  <2>1. list[u] \in Seq(Item) /\ Fates(u, list[u])
    BY SettledListed
  <2>2. Occurrences(n, list[u]) = IF n \in AlertsOf(list[u]) THEN 1 ELSE 0
    BY <2>1, OccurrencesOnce DEF Fates
  <2>3. OnePlace(n, list[u])
    BY <2>1 DEF Fates
  <2> QED
    BY <2>2, <2>3 DEF OnePlace
<1> QED
  BY Invariance, <1>1, PTL

(* Counting messages of a digest without n changes nothing for n.          *)
LEMMA CountedNone ==
  ASSUME NEW counts \in [Alerts -> 0..2], NEW messages \in Nat,
         NEW n \in Alerts, n \notin AlertsOf(batch)
  PROVE  Counted(counts, messages)[n] = counts[n]
<1>1. Occurrences(n, batch) = 0
  BY OccurrencesNone
<1>2. counts[n] \in 0..2 /\ messages * 0 = 0
  OBVIOUS
<1>3. Counted(counts, messages)[n] = Saturated(counts[n] + messages * 0)
  BY <1>1 DEF Counted
<1> QED
  BY <1>2, <1>3 DEF Saturated

(* Of an alert of such a user no message follows the digest whose send     *)
(* succeeded, whichever commands fail after it.                            *)
THEOREM NothingAfterSuccessHolds == Spec => NothingAfterSuccess
<1> DEFINE Kept(n) == acked'[n] = acked[n] /\ unseen'[n] = unseen[n]
<1>1. ASSUME IInv, [Next]_vars, NEW n \in Alerts, owner[n] \notin disturbed, acked[n] = 1
      PROVE  Kept(n)
  <2>1. acked \in [Alerts -> 0..2] /\ unseen \in [Alerts -> 0..2]
    BY <1>1 DEF IInv, TypeOK
  <2>2. ASSUME fpc = "send"
        PROVE  n \notin AlertsOf(batch)
    <3>1. owner[n] \in Users /\ current \in Users
      BY <1>1, <2>2 DEF IInv, OwnedInv, TypeOK
    <3>2. CASE current = owner[n]
      <4>1. JobOn(current) /\ Calm(current)
        BY <1>1, <2>2, <3>1, <3>2 DEF JobOn, IInv, CalmInv
      <4>2. batch = list[current] /\ \A h \in Handlers : ~On(h, current)
        BY <2>2, <4>1 DEF Calm, Alone, Flushed
      <4>3. Fates(current, list[current])
        BY <2>2, <4>1, <4>2 DEF Calm, Listed
      <4> QED
        BY <1>1, <3>2, <4>2, <4>3 DEF Fates, OnePlace
    <3>3. CASE current # owner[n]
      BY <1>1, <3>3 DEF IInv, OwnedInv, OwnedBy
    <3> QED
      BY <3>2, <3>3
  <2>3. CASE SendDigest
    <3>1. PICK lost \in 0..(Attempts - 1) : unseen' = Counted(unseen, lost)
      BY <2>3 DEF SendDigest
    <3>2. lost \in Nat /\ 1 \in Nat /\ acked' = Counted(acked, 1) /\ fpc = "send"
      BY <2>3 DEF SendDigest
    <3> QED
      BY <2>1, <2>2, <3>1, <3>2, CountedNone
  <2>4. CASE SendFails
    <3>1. PICK lost \in 0..(IF current \in Blocked THEN 0 ELSE Attempts) :
            unseen' = Counted(unseen, lost)
      BY <2>4 DEF SendFails
    <3>2. lost \in Nat /\ acked' = acked /\ fpc = "send"
      BY <2>4 DEF SendFails
    <3> QED
      BY <2>1, <2>2, <3>1, <3>2, CountedNone
  <2>5. CASE ~SendDigest /\ ~SendFails
    <3> USE DEF clockVars, redisVars, handlerVars, jobVars, sentVars, historyVars
    <3>1. ASSUME NEW h \in Handlers, QueueStep(h) \/ QueueError(h) \/ \E u \in Users : Queue(h, u)
          PROVE  acked' = acked /\ unseen' = unseen
      BY <3>1 DEF QueueStep, QueueError, Queue, QueueItem, Trim, ReadBack, Delete, WriteBack,
                  SetTTL, Register
    <3>2. ASSUME StartFlush \/ FlushError \/ Tick \/ DeleteDigest \/ Unregister \/ EndFlush
          PROVE  acked' = acked /\ unseen' = unseen
      BY <3>2 DEF StartFlush, FlushError, Tick, DeleteDigest, Unregister, EndFlush
    <3>3. ASSUME NEW u \in Users, ReadDigest(u) \/ ChangeChat(u)
          PROVE  acked' = acked /\ unseen' = unseen
      BY <3>3 DEF ReadDigest, ChangeChat
    <3>4. CASE UNCHANGED vars
      BY <3>4 DEF vars
    <3>5. CASE Next
      <4>1. CASE \E h \in Handlers : QueueStep(h) \/ QueueError(h) \/ \E u \in Users : Queue(h, u)
        BY <3>1, <4>1
      <4>2. CASE \E u \in Users : ReadDigest(u) \/ ChangeChat(u)
        BY <3>3, <4>2
      <4> QED
        BY <2>5, <3>2, <3>5, <4>1, <4>2 DEF Next, FlushStep
    <3> QED
      BY <1>1, <3>4, <3>5
  <2> QED
    BY <2>3, <2>4, <2>5
<1>2. IInv /\ [Next]_vars =>
        [\A n \in Alerts : owner[n] \notin disturbed /\ acked[n] = 1 =>
           UNCHANGED <<acked[n], unseen[n]>>]_vars
  BY <1>1
<1> QED
  BY Invariance, <1>2, PTL DEF Spec, NothingAfterSuccess

(* A list such a user has is in the index the job works from, and it has a *)
(* lifetime, so it is served or expires.                                   *)
THEOREM NotOrphanedHolds == Spec => []NotOrphaned
<1>1. IInv => NotOrphaned
  BY SettledListed DEF NotOrphaned
<1> QED
  BY Invariance, <1>1, PTL

(* And it is never longer than the cap when nobody is at work on it.       *)
THEOREM ListBoundedHolds == Spec => []ListBounded
<1>1. IInv => ListBounded
  BY SettledListed DEF ListBounded
<1> QED
  BY Invariance, <1>1, PTL

=============================================================================
