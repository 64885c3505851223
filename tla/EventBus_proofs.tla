---------------------------- MODULE EventBus_proofs ----------------------------
(***************************************************************************)
(* Proofs about the event bus, for any number of publishers, subscribers,  *)
(* events and any capacity of the channels.                                *)
(*                                                                         *)
(* The argument: the list of channels names each subscriber once, so does  *)
(* every copy of it; a publisher that still owes its event to a subscriber *)
(* has sent nothing as new to it; and as long as the context is alive no   *)
(* channel leaves the list.                                                *)
(***************************************************************************)
EXTENDS EventBus, SequenceTheorems, TLAPS

Distinct(q) == \A i, j \in 1..Len(q) : q[i] = q[j] => i = j

(* c is what is left of l after as many as d holds.                        *)
Remains(l, d, c) ==
  /\ Len(l) = Len(d) + Len(c)
  /\ \A i \in 1..Len(c) : c[i] = l[Len(d) + i]

(* What a channel buffers is the end of the stream that was sent to it.    *)
Flow == \A s \in Subscribers :
  Remains(log[s], read[s], chan[s]) /\ Len(chan[s]) <= Buffer

(* The list of channels and its copies name each subscriber once.          *)
Once ==
  /\ Distinct(subscribers)
  /\ \A i \in 1..Len(subscribers) : rpc[subscribers[i]] # "new"
  /\ \A p \in Publishers : Distinct(left[p])

(* A publisher does not overtake itself.                                   *)
Ordered == \A p \in Publishers :
  /\ ppc[p] = "sending" => sent[p] \in 1..MaxEvents
  /\ \A s \in Subscribers : \A i \in 1..Len(log[s]) : log[s][i][1] = p =>
       /\ log[s][i][2] <= sent[p]
       /\ Owes(p, s) => log[s][i][2] < sent[p]

(* While the context is alive a channel stays on the list.                 *)
Listed ==
  ~canceled => \A s \in Subscribers :
    (log[s] # <<>> \/ \E p \in Publishers : Owes(p, s)) =>
      \E i \in 1..Len(subscribers) : subscribers[i] = s

IInv == TypeOK /\ CrashOnlyAtShutdown /\ Flow /\ Once /\ Ordered /\ Listed /\ NoGap

-----------------------------------------------------------------------------
(* Sequences: what a removal leaves, and what a send leaves to be sent.    *)
Without(q, k) == SubSeq(q, 1, k - 1) \o SubSeq(q, k + 1, Len(q))

LEMMA Parts ==
  ASSUME NEW S, NEW q \in Seq(S), NEW k \in 1..Len(q)
  PROVE  /\ SubSeq(q, 1, k - 1) \in Seq(S) /\ Len(SubSeq(q, 1, k - 1)) = k - 1
         /\ \A i \in 1..k - 1 : SubSeq(q, 1, k - 1)[i] = q[i]
         /\ SubSeq(q, k + 1, Len(q)) \in Seq(S) /\ Len(SubSeq(q, k + 1, Len(q))) = Len(q) - k
         /\ \A i \in 1..Len(q) - k : SubSeq(q, k + 1, Len(q))[i] = q[k + i]
         /\ Len(q) \in Nat
OBVIOUS

LEMMA Spliced ==
  ASSUME NEW q, NEW n \in Nat, NEW k \in 1..n, NEW a, NEW b, NEW r,
         \A i \in 1..k - 1 : a[i] = q[i],
         \A i \in 1..n - k : b[i] = q[k + i],
         \A i \in 1..(k - 1) + (n - k) : r[i] = IF i <= k - 1 THEN a[i] ELSE b[i - (k - 1)]
  PROVE  \A i \in 1..n - 1 : r[i] = IF i < k THEN q[i] ELSE q[i + 1]
<1> SUFFICES ASSUME NEW i \in 1..n - 1
             PROVE  r[i] = IF i < k THEN q[i] ELSE q[i + 1]
  OBVIOUS
<1>1. r[i] = IF i <= k - 1 THEN a[i] ELSE b[i - (k - 1)]
  OBVIOUS
<1>2. CASE i < k
  BY <1>1, <1>2
<1>3. CASE ~(i < k)
  <2>1. i - (k - 1) \in 1..n - k /\ k + (i - (k - 1)) = i + 1
    BY <1>3
  <2>2. b[i - (k - 1)] = q[i + 1]
    BY <2>1
  <2> QED
    BY <1>1, <1>3, <2>2
<1> QED
  BY <1>2, <1>3

LEMMA Removal ==
  ASSUME NEW S, NEW q \in Seq(S), NEW k \in 1..Len(q)
  PROVE  /\ Without(q, k) \in Seq(S) /\ Len(Without(q, k)) = Len(q) - 1 /\ Len(q) \in Nat
         /\ \A i \in 1..Len(q) - 1 : Without(q, k)[i] = IF i < k THEN q[i] ELSE q[i + 1]
<1>1. PICK a : a = SubSeq(q, 1, k - 1)
  OBVIOUS
<1>2. PICK b : b = SubSeq(q, k + 1, Len(q))
  OBVIOUS
<1>3. PICK r : r = Without(q, k)
  OBVIOUS
<1>4. PICK n : n = Len(q)
  OBVIOUS
<1>5. /\ a \in Seq(S) /\ Len(a) = k - 1 /\ \A i \in 1..k - 1 : a[i] = q[i]
      /\ b \in Seq(S) /\ Len(b) = n - k /\ \A i \in 1..n - k : b[i] = q[k + i]
      /\ n \in Nat /\ k \in 1..n
  BY <1>1, <1>2, <1>4, Parts, Zenon
<1>6. /\ a \o b \in Seq(S) /\ Len(a \o b) = Len(a) + Len(b)
      /\ \A i \in 1..Len(a) + Len(b) : (a \o b)[i] = IF i <= Len(a) THEN a[i] ELSE b[i - Len(a)]
  BY <1>5, ConcatProperties, Zenon
<1>7. r = a \o b
  BY <1>1, <1>2, <1>3, Zenon DEF Without
<1>8. /\ r \in Seq(S) /\ Len(r) = (k - 1) + (n - k)
      /\ \A i \in 1..(k - 1) + (n - k) : r[i] = IF i <= k - 1 THEN a[i] ELSE b[i - (k - 1)]
  BY <1>5, <1>6, <1>7, Zenon
<1>9. \A i \in 1..n - 1 : r[i] = IF i < k THEN q[i] ELSE q[i + 1]
  <2>1. /\ n \in Nat /\ k \in 1..n
    BY <1>5
  <2>2. \A i \in 1..k - 1 : a[i] = q[i]
    BY <1>5
  <2>3. \A i \in 1..n - k : b[i] = q[k + i]
    BY <1>5
  <2>4. \A i \in 1..(k - 1) + (n - k) : r[i] = IF i <= k - 1 THEN a[i] ELSE b[i - (k - 1)]
    BY <1>8
  <2> QED
    BY <2>1, <2>2, <2>3, <2>4, Spliced
<1>10. (k - 1) + (n - k) = n - 1
  BY <1>5
<1> QED
  BY <1>3, <1>4, <1>5, <1>8, <1>9, <1>10

LEMMA DistinctRest ==
  ASSUME NEW S, NEW q \in Seq(S), q # <<>>, Distinct(q)
  PROVE  Distinct(Tail(q)) /\ \A i \in 1..Len(Tail(q)) : Tail(q)[i] # Head(q)
<1>1. /\ Head(q) = q[1] /\ Len(q) \in Nat \ {0} /\ Len(Tail(q)) = Len(q) - 1
      /\ \A i \in 1..Len(Tail(q)) : Tail(q)[i] = q[i + 1]
  BY HeadTailProperties, EmptySeq
<1> QED
  BY <1>1 DEF Distinct

LEMMA DistinctRemoval ==
  ASSUME NEW S, NEW q \in Seq(S), NEW k \in 1..Len(q), Distinct(q)
  PROVE  /\ Distinct(Without(q, k))
         /\ \A i \in 1..Len(Without(q, k)) : \E j \in 1..Len(q) : Without(q, k)[i] = q[j]
<1>1. PICK r : r = Without(q, k)
  OBVIOUS
<1>2. /\ Len(r) = Len(q) - 1 /\ Len(q) \in Nat
      /\ \A i \in 1..Len(q) - 1 : r[i] = IF i < k THEN q[i] ELSE q[i + 1]
  BY <1>1, Removal, Zenon
<1>3. \A i \in 1..Len(r) : i \in 1..Len(q) /\ i + 1 \in 1..Len(q)
  BY <1>2
<1>4. ASSUME NEW i \in 1..Len(r), NEW j \in 1..Len(r), r[i] = r[j]
      PROVE  i = j
  <2>1. (IF i < k THEN i ELSE i + 1) = (IF j < k THEN j ELSE j + 1)
    <3> DEFINE x == IF i < k THEN i ELSE i + 1
               y == IF j < k THEN j ELSE j + 1
    <3>1. x \in 1..Len(q) /\ y \in 1..Len(q)
      BY <1>3
    <3>2. q[x] = r[i] /\ q[y] = r[j]
      BY <1>2
    <3> HIDE DEF x, y
    <3>3. x = y
      BY <1>4, <3>1, <3>2 DEF Distinct
    <3> QED
      BY <3>3 DEF x, y
  <2> QED
    BY <1>2, <2>1
<1>5. ASSUME NEW i \in 1..Len(r)
      PROVE  \E j \in 1..Len(q) : r[i] = q[j]
  BY <1>2, <1>3
<1>6. Distinct(r)
  BY <1>4 DEF Distinct
<1> QED
  BY <1>1, <1>5, <1>6

-----------------------------------------------------------------------------
LEMMA InitOK == Init => IInv
<1> SUFFICES ASSUME Init PROVE IInv
  OBVIOUS
<1> USE DEF Init
<1>1. TypeOK
  <2>1. /\ <<>> \in Seq(Subscribers) /\ <<>> \in Seq(Events) /\ 0 \in 0..MaxEvents
    BY BusAssumption, EmptySeq
  <2> QED
    BY <2>1 DEF TypeOK
<1>2. CrashOnlyAtShutdown
  BY DEF CrashOnlyAtShutdown
<1>5. Flow
  BY BusAssumption DEF Flow, Remains
<1>6. Once
  BY DEF Once, Distinct
<1>3. Ordered /\ Listed
  BY DEF Ordered, Listed, Owes
<1>4. NoGap
  BY DEF NoGap, Streamed
<1> QED
  BY <1>1, <1>2, <1>3, <1>4, <1>5, <1>6 DEF IInv

LEMMA TypeStep == TypeOK /\ Ordered /\ [Next]_vars => TypeOK'
<1> SUFFICES ASSUME TypeOK, Ordered, [Next]_vars PROVE TypeOK'
  OBVIOUS
<1> USE DEF TypeOK, publisherVars, historyVars
<1>1. ASSUME NEW p \in Publishers, Copy(p) PROVE TypeOK'
  <2>1. sent[p] + 1 \in 0..MaxEvents
    BY <1>1, BusAssumption DEF Copy
  <2> QED
    BY <1>1, <2>1 DEF Copy
<1>2. ASSUME NEW p \in Publishers, Send(p) PROVE TypeOK'
  <2>1. Head(left[p]) \in Subscribers /\ Tail(left[p]) \in Seq(Subscribers)
    BY <1>2, HeadTailProperties DEF Send
  <2>2. <<p, sent[p]>> \in Events
    BY <1>2 DEF Send, Ordered, Events
  <2>3. PICK s \in Subscribers : s = Head(left[p])
    BY <2>1
  <2>4. /\ chan' = [chan EXCEPT ![s] = Append(@, <<p, sent[p]>>)]
        /\ log' = [log EXCEPT ![s] = Append(@, <<p, sent[p]>>)]
        /\ left' = [left EXCEPT ![p] = Tail(@)]
        /\ UNCHANGED <<subscribers, closed, canceled, crashed, exited, ppc, sent, rpc, read>>
    BY <1>2, <2>3 DEF Send
  <2>5. Append(chan[s], <<p, sent[p]>>) \in Seq(Events) /\ Append(log[s], <<p, sent[p]>>) \in Seq(Events)
    BY <2>2, AppendProperties
  <2> QED
    BY <2>1, <2>4, <2>5
<1>3. ASSUME NEW p \in Publishers, Panic(p) \/ GiveUp(p) \/ Return(p) PROVE TypeOK'
  <2>1. <<>> \in Seq(Subscribers)
    BY EmptySeq
  <2> QED
    BY <1>3, <2>1 DEF Panic, GiveUp, Return
<1>4. ASSUME NEW s \in Subscribers, Subscribe(s) PROVE TypeOK'
  BY <1>4 DEF Subscribe
<1>5. ASSUME NEW s \in Subscribers, Unsubscribe(s) PROVE TypeOK'
  <2>1. PICK i \in 1..Len(subscribers) : subscribers' = Without(subscribers, i)
    BY <1>5 DEF Unsubscribe, Without
  <2>2. Without(subscribers, i) \in Seq(Subscribers)
    BY Removal
  <2>3. subscribers' \in Seq(Subscribers)
    BY <2>1, <2>2
  <2> QED
    BY <1>5, <2>3 DEF Unsubscribe
<1>6. ASSUME NEW s \in Subscribers, Receive(s) PROVE TypeOK'
  <2>1. /\ Tail(chan[s]) \in Seq(Events) /\ Append(read[s], Head(chan[s])) \in Seq(Events)
    BY <1>6, HeadTailProperties, AppendProperties DEF Receive
  <2> QED
    BY <1>6, <2>1 DEF Receive
<1>7. ASSUME NEW s \in Subscribers, EndRange(s) PROVE TypeOK'
  BY <1>7 DEF EndRange
<1>8. CASE Cancel \/ Exit
  BY <1>8 DEF Cancel, Exit
<1>9. CASE UNCHANGED vars
  BY <1>9 DEF vars
<1> QED
  BY <1>1, <1>2, <1>3, <1>4, <1>5, <1>6, <1>7, <1>8, <1>9 DEF Next, InPublish, InRange

LEMMA ShutdownStep == CrashOnlyAtShutdown /\ [Next]_vars => CrashOnlyAtShutdown'
<1> SUFFICES ASSUME CrashOnlyAtShutdown, [Next]_vars PROVE CrashOnlyAtShutdown'
  OBVIOUS
<1> USE DEF CrashOnlyAtShutdown, publisherVars, historyVars
<1>1. ASSUME NEW p \in Publishers, Copy(p) \/ InPublish(p)
      PROVE  CrashOnlyAtShutdown'
  BY <1>1 DEF InPublish, Copy, Send, Panic, GiveUp, Return
<1>2. ASSUME NEW s \in Subscribers, Subscribe(s) \/ Unsubscribe(s) \/ InRange(s)
      PROVE  CrashOnlyAtShutdown'
  BY <1>2 DEF Subscribe, Unsubscribe, InRange, Receive, EndRange
<1>3. CASE Cancel \/ Exit \/ UNCHANGED vars
  BY <1>3 DEF Cancel, Exit, vars
<1> QED
  BY <1>1, <1>2, <1>3 DEF Next

-----------------------------------------------------------------------------
(* What a send appends to the stream and takes off the copied list.        *)
LEMMA Sending ==
  ASSUME TypeOK, Once, Ordered, NEW p \in Publishers, Send(p)
  PROVE  \E s \in Subscribers, e \in Events :
           /\ s = Head(left[p]) /\ s = left[p][1] /\ e = <<p, sent[p]>>
           /\ Owes(p, s) /\ ~Owes(p, s)' /\ Len(chan[s]) < Buffer
           /\ chan' = [chan EXCEPT ![s] = Append(chan[s], e)]
           /\ log' = [log EXCEPT ![s] = Append(log[s], e)]
           /\ \A q \in Publishers, x \in Subscribers :
                (q # p \/ x # s) => (Owes(q, x)' <=> Owes(q, x))
           /\ UNCHANGED <<subscribers, closed, canceled, crashed, exited, ppc, sent, rpc, read>>
<1>1. PICK q : q = left[p]
  OBVIOUS
<1>2. q \in Seq(Subscribers) /\ q # <<>> /\ Distinct(q) /\ ppc[p] = "sending"
  BY <1>1 DEF TypeOK, Once, Send
<1>3. /\ Head(q) = q[1] /\ Head(q) \in Subscribers /\ Len(q) \in Nat \ {0}
      /\ Len(Tail(q)) = Len(q) - 1 /\ \A i \in 1..Len(Tail(q)) : Tail(q)[i] = q[i + 1]
      /\ \A i \in 1..Len(Tail(q)) : Tail(q)[i] # Head(q)
  BY <1>2, HeadTailProperties, EmptySeq, DistinctRest
<1>4. PICK s \in Subscribers : s = Head(q)
  BY <1>3
<1>5. PICK e \in Events : e = <<p, sent[p]>>
  BY <1>2 DEF Ordered, Events
<1>6. /\ Len(chan[s]) < Buffer
      /\ chan' = [chan EXCEPT ![s] = Append(chan[s], e)]
      /\ log' = [log EXCEPT ![s] = Append(log[s], e)]
      /\ left' = [left EXCEPT ![p] = Tail(q)]
      /\ UNCHANGED <<subscribers, closed, canceled, crashed, exited, ppc, sent, rpc, read>>
  BY <1>1, <1>4, <1>5 DEF Send
<1>7. left'[p] = Tail(q) /\ \A x \in Publishers \ {p} : left'[x] = left[x]
  BY <1>6 DEF TypeOK
<1>8. Owes(p, s)
  BY <1>1, <1>2, <1>3, <1>4 DEF Owes
<1>9. ~Owes(p, s)'
  BY <1>3, <1>4, <1>7 DEF Owes
<1>10. ASSUME NEW x \in Subscribers, x # s
       PROVE  Owes(p, x)' <=> Owes(p, x)
  <2>1. Owes(p, x) => Owes(p, x)'
    <3> SUFFICES ASSUME NEW i \in 1..Len(q), q[i] = x
                 PROVE  \E j \in 1..Len(Tail(q)) : Tail(q)[j] = x
      BY <1>1, <1>2, <1>6, <1>7 DEF Owes
    <3>1. i # 1
      BY <1>3, <1>4, <1>10
    <3>2. i - 1 \in 1..Len(Tail(q)) /\ (i - 1) + 1 = i
      BY <1>3, <3>1
    <3> QED
      BY <1>3, <3>2
  <2>2. Owes(p, x)' => Owes(p, x)
    <3> SUFFICES ASSUME NEW i \in 1..Len(Tail(q)), Tail(q)[i] = x
                 PROVE  \E j \in 1..Len(q) : q[j] = x
      BY <1>1, <1>2, <1>6, <1>7 DEF Owes
    <3>1. i + 1 \in 1..Len(q)
      BY <1>3
    <3> QED
      BY <1>3, <3>1
  <2> QED
    BY <2>1, <2>2
<1>11. \A y \in Publishers \ {p}, x \in Subscribers : Owes(y, x)' <=> Owes(y, x)
  BY <1>6, <1>7 DEF Owes
<1> QED
  BY <1>1, <1>3, <1>4, <1>5, <1>6, <1>8, <1>9, <1>10, <1>11

(* Only a send adds to a stream, only a receive takes from a channel.      *)
LEMMA Effects ==
  ASSUME [Next]_vars
  PROVE  /\ log' = log \/ \E p \in Publishers : Send(p)
         /\ read' = read \/ \E s \in Subscribers : Receive(s)
         /\ chan' = chan \/ (\E p \in Publishers : Send(p)) \/ (\E s \in Subscribers : Receive(s))
         /\ sent' = sent \/ \E p \in Publishers : Copy(p)
         /\ (ppc' = ppc /\ left' = left) \/ \E p \in Publishers : Copy(p) \/ InPublish(p)
         /\ subscribers' = subscribers \/ \E s \in Subscribers : Subscribe(s) \/ Unsubscribe(s)
         /\ rpc' = rpc \/ \E s \in Subscribers : Subscribe(s) \/ EndRange(s)
         /\ canceled' = canceled \/ Cancel
<1> USE DEF publisherVars, historyVars
<1>1. ASSUME NEW p \in Publishers, Copy(p)
      PROVE  UNCHANGED <<subscribers, chan, closed, canceled, crashed, exited, rpc, log, read>>
  BY <1>1 DEF Copy
<1>2. ASSUME NEW p \in Publishers, InPublish(p)
      PROVE  /\ UNCHANGED <<subscribers, closed, canceled, sent, rpc, read>>
             /\ UNCHANGED <<chan, log>> \/ Send(p)
  BY <1>2 DEF InPublish, Send, Panic, GiveUp, Return
<1>3. ASSUME NEW s \in Subscribers, Subscribe(s) \/ Unsubscribe(s)
      PROVE  UNCHANGED <<chan, canceled, ppc, sent, left, log, read>> /\ (UNCHANGED rpc \/ Subscribe(s))
  BY <1>3 DEF Subscribe, Unsubscribe
<1>4. ASSUME NEW s \in Subscribers, InRange(s)
      PROVE  /\ UNCHANGED <<subscribers, canceled, ppc, sent, left, log>>
             /\ UNCHANGED <<read, chan>> \/ Receive(s)
             /\ UNCHANGED rpc \/ EndRange(s)
  BY <1>4 DEF InRange, Receive, EndRange
<1>5. CASE Cancel \/ Exit
  BY <1>5 DEF Cancel, Exit
<1>6. CASE UNCHANGED vars
  BY <1>6 DEF vars
<1>7. CASE \E p \in Publishers : Copy(p)
  BY <1>1, <1>7
<1>8. CASE \E p \in Publishers : InPublish(p)
  BY <1>2, <1>8
<1>9. CASE \E s \in Subscribers : Subscribe(s) \/ Unsubscribe(s)
  BY <1>3, <1>9
<1>10. CASE \E s \in Subscribers : InRange(s)
  BY <1>4, <1>10
<1> QED
  BY <1>5, <1>6, <1>7, <1>8, <1>9, <1>10 DEF Next

-----------------------------------------------------------------------------
(* The stream and the channel.                                             *)
LEMMA LastOne ==
  ASSUME NEW n \in Nat, NEW i \in 1..n + 1
  PROVE  i \in 1..n \/ i = n + 1
OBVIOUS

LEMMA Appended ==
  ASSUME NEW S, NEW l \in Seq(S), NEW d \in Seq(S), NEW c \in Seq(S), NEW e \in S,
         Remains(l, d, c)
  PROVE  Remains(Append(l, e), d, Append(c, e))
<1> USE DEF Remains
<1>1. Len(l) \in Nat /\ Len(d) \in Nat /\ Len(c) \in Nat
  BY LenProperties
<1>2. /\ Len(Append(l, e)) = Len(l) + 1 /\ Append(l, e)[Len(l) + 1] = e
      /\ \A i \in 1..Len(l) : Append(l, e)[i] = l[i]
      /\ Len(Append(c, e)) = Len(c) + 1 /\ Append(c, e)[Len(c) + 1] = e
      /\ \A i \in 1..Len(c) : Append(c, e)[i] = c[i]
  BY AppendProperties
<1>3. ASSUME NEW i \in 1..Len(c) + 1
      PROVE  Append(c, e)[i] = Append(l, e)[Len(d) + i]
  <2>1. CASE i \in 1..Len(c)
    <3>1. Len(d) + i \in 1..Len(l)
      BY <1>1, <2>1
    <3> QED
      BY <1>2, <2>1, <3>1
  <2>2. CASE i = Len(c) + 1
    <3>1. Len(d) + i = Len(l) + 1
      BY <1>1, <2>2
    <3> QED
      BY <1>2, <2>2, <3>1
  <2>3. i \in 1..Len(c) \/ i = Len(c) + 1
    BY <1>1, LastOne, Zenon
  <2> QED
    BY <2>1, <2>2, <2>3, Zenon
<1>4. Len(Append(l, e)) = Len(d) + Len(Append(c, e))
  BY <1>1, <1>2
<1>5. 1..Len(Append(c, e)) = 1..Len(c) + 1
  BY <1>2
<1>6. \A i \in 1..Len(Append(c, e)) : Append(c, e)[i] = Append(l, e)[Len(d) + i]
  BY <1>3, <1>5, Zenon
<1> QED
  BY <1>4, <1>6, Zenon

LEMMA Consumed ==
  ASSUME NEW S, NEW l \in Seq(S), NEW d \in Seq(S), NEW c \in Seq(S), c # <<>>,
         Remains(l, d, c)
  PROVE  /\ Remains(l, Append(d, Head(c)), Tail(c))
         /\ Head(c) = l[Len(d) + 1] /\ Len(d) < Len(l) /\ Len(Tail(c)) < Len(c)
<1> USE DEF Remains
<1>1. Len(l) \in Nat /\ Len(d) \in Nat /\ Len(c) \in Nat \ {0}
  BY LenProperties, EmptySeq
<1>2. /\ Head(c) \in S /\ Head(c) = c[1] /\ Len(Tail(c)) = Len(c) - 1
      /\ \A i \in 1..Len(Tail(c)) : Tail(c)[i] = c[i + 1]
  BY HeadTailProperties
<1>3. Len(Append(d, Head(c))) = Len(d) + 1
  BY <1>2, AppendProperties
<1>4. ASSUME NEW i \in 1..Len(Tail(c))
      PROVE  Tail(c)[i] = l[Len(d) + 1 + i]
  <2>1. i + 1 \in 1..Len(c) /\ Len(d) + (i + 1) = Len(d) + 1 + i
    BY <1>1, <1>2
  <2> QED
    BY <1>2, <2>1
<1>5. 1 \in 1..Len(c)
  BY <1>1
<1> QED
  BY <1>1, <1>2, <1>3, <1>4, <1>5

LEMMA FlowStep == TypeOK /\ Once /\ Ordered /\ Flow /\ [Next]_vars => Flow'
<1> SUFFICES ASSUME TypeOK, Once, Ordered, Flow, [Next]_vars,
                    NEW x \in Subscribers
             PROVE  Remains(log'[x], read'[x], chan'[x]) /\ Len(chan'[x]) <= Buffer
  BY DEF Flow, Remains
<1>1. /\ chan \in [Subscribers -> Seq(Events)] /\ log \in [Subscribers -> Seq(Events)]
      /\ read \in [Subscribers -> Seq(Events)]
      /\ chan[x] \in Seq(Events) /\ log[x] \in Seq(Events) /\ read[x] \in Seq(Events)
      /\ Len(chan[x]) \in Nat /\ Buffer \in Nat
  BY LenProperties, BusAssumption DEF TypeOK
<1>2. Remains(log[x], read[x], chan[x]) /\ Len(chan[x]) <= Buffer
  BY DEF Flow
<1>3. ASSUME NEW p \in Publishers, Send(p)
      PROVE  Remains(log'[x], read'[x], chan'[x]) /\ Len(chan'[x]) <= Buffer
  <2>1. PICK s \in Subscribers, e \in Events :
          /\ Len(chan[s]) < Buffer
          /\ chan' = [chan EXCEPT ![s] = Append(chan[s], e)]
          /\ log' = [log EXCEPT ![s] = Append(log[s], e)]
          /\ UNCHANGED read
    BY <1>3, Sending
  <2>2. CASE x = s
    <3>1. chan'[x] = Append(chan[x], e) /\ log'[x] = Append(log[x], e) /\ read'[x] = read[x]
      BY <1>1, <2>1, <2>2
    <3>2. Remains(Append(log[x], e), read[x], Append(chan[x], e))
      BY <1>1, <1>2, Appended, Zenon
    <3>3. Len(Append(chan[x], e)) = Len(chan[x]) + 1
      BY <1>1, AppendProperties, Zenon
    <3>4. Len(chan[x]) + 1 <= Buffer
      BY <1>1, <2>1, <2>2
    <3> QED
      BY <3>1, <3>2, <3>3, <3>4, Zenon
  <2>3. CASE x # s
    BY <1>1, <1>2, <2>1, <2>3
  <2> QED
    BY <2>2, <2>3
<1>4. ASSUME NEW s \in Subscribers, Receive(s)
      PROVE  Remains(log'[x], read'[x], chan'[x]) /\ Len(chan'[x]) <= Buffer
  <2>1. /\ chan[s] # <<>> /\ log' = log
        /\ chan' = [chan EXCEPT ![s] = Tail(chan[s])]
        /\ read' = [read EXCEPT ![s] = Append(read[s], Head(chan[s]))]
    BY <1>4 DEF Receive
  <2>2. CASE x = s
    <3>1. /\ chan'[x] = Tail(chan[x]) /\ read'[x] = Append(read[x], Head(chan[x]))
          /\ log'[x] = log[x] /\ chan[x] # <<>>
      BY <1>1, <2>1, <2>2
    <3>2. Remains(log[x], Append(read[x], Head(chan[x])), Tail(chan[x])) /\ Len(Tail(chan[x])) < Len(chan[x])
      BY <1>1, <1>2, <3>1, Consumed, Zenon
    <3>3. Len(Tail(chan[x])) \in Nat
      BY <1>1, <3>1, HeadTailProperties, LenProperties
    <3>4. Len(Tail(chan[x])) <= Buffer
      BY <1>1, <1>2, <3>2, <3>3
    <3> QED
      BY <3>1, <3>2, <3>4, Zenon
  <2>3. CASE x # s
    BY <1>1, <1>2, <2>1, <2>3
  <2> QED
    BY <2>2, <2>3
<1> QED
  BY <1>2, <1>3, <1>4, Effects

-----------------------------------------------------------------------------
(* The list of channels and its copies.                                    *)
LEMMA OnceStep == TypeOK /\ TypeOK' /\ Once /\ [Next]_vars => Once'
<1> SUFFICES ASSUME TypeOK, TypeOK', Once, [Next]_vars PROVE Once'
  OBVIOUS
<1>1. /\ subscribers \in Seq(Subscribers) /\ Len(subscribers) \in Nat
      /\ left \in [Publishers -> Seq(Subscribers)]
      /\ rpc \in [Subscribers -> {"new", "ranging", "done"}]
  BY LenProperties DEF TypeOK
<1>2. \A p \in Publishers : Distinct(left[p])'
  <2> SUFFICES ASSUME NEW p \in Publishers PROVE Distinct(left'[p])
    BY DEF Distinct
  <2>1. CASE Copy(p)
    BY <1>1, <2>1 DEF Copy, Once
  <2>2. CASE Send(p)
    <3>1. left'[p] = Tail(left[p]) /\ left[p] # <<>>
      BY <1>1, <2>2 DEF Send
    <3> QED
      BY <1>1, <3>1, DistinctRest DEF Once
  <2>3. CASE GiveUp(p)
    <3>1. left'[p] = <<>>
      BY <1>1, <2>3 DEF GiveUp
    <3> QED
      BY <3>1, EmptySeq DEF Distinct
  <2>4. CASE left'[p] = left[p]
    BY <2>4 DEF Once
  <2>5. ASSUME NEW q \in Publishers, Copy(q) \/ InPublish(q)
        PROVE  left'[p] = left[p] \/ (q = p /\ (Copy(p) \/ Send(p) \/ GiveUp(p)))
    BY <1>1, <2>5 DEF InPublish, Copy, Send, Panic, GiveUp, Return, publisherVars
  <2> QED
    BY <2>1, <2>2, <2>3, <2>4, <2>5, Effects
<1>3. /\ Distinct(subscribers)'
      /\ \A i \in 1..Len(subscribers') : rpc[subscribers'[i]] # "new" \/ rpc'[subscribers'[i]] # "new"
  <2>1. ASSUME NEW s \in Subscribers, Subscribe(s)
        PROVE  /\ Distinct(subscribers')
               /\ \A i \in 1..Len(subscribers') : rpc[subscribers'[i]] # "new" \/ rpc'[subscribers'[i]] # "new"
    <3>1. subscribers' = Append(subscribers, s) /\ rpc[s] = "new" /\ rpc'[s] = "ranging"
      BY <1>1, <2>1 DEF Subscribe
    <3>2. /\ Len(subscribers') = Len(subscribers) + 1 /\ subscribers'[Len(subscribers) + 1] = s
          /\ \A i \in 1..Len(subscribers) : subscribers'[i] = subscribers[i]
      BY <1>1, <3>1, AppendProperties
    <3>3. \A i \in 1..Len(subscribers) : subscribers[i] # s /\ rpc[subscribers[i]] # "new"
      BY <3>1 DEF Once
    <3>4. \A i \in 1..Len(subscribers') : i \in 1..Len(subscribers) \/ i = Len(subscribers) + 1
      BY <1>1, <3>2
    <3>5. Distinct(subscribers')
      BY <3>2, <3>3, <3>4 DEF Distinct, Once
    <3> QED
      BY <3>1, <3>2, <3>3, <3>4, <3>5
  <2>2. ASSUME NEW s \in Subscribers, Unsubscribe(s)
        PROVE  /\ Distinct(subscribers')
               /\ \A i \in 1..Len(subscribers') : rpc[subscribers'[i]] # "new" \/ rpc'[subscribers'[i]] # "new"
    <3>1. PICK k \in 1..Len(subscribers) : subscribers' = Without(subscribers, k)
      BY <2>2 DEF Unsubscribe, Without
    <3>2. /\ Distinct(subscribers')
          /\ \A i \in 1..Len(subscribers') : \E j \in 1..Len(subscribers) : subscribers'[i] = subscribers[j]
      BY <1>1, <3>1, DistinctRemoval DEF Once
    <3> QED
      BY <3>2 DEF Once
  <2>3. CASE subscribers' = subscribers
    BY <2>3 DEF Once
  <2>4. Distinct(subscribers') => Distinct(subscribers)'
    BY DEF Distinct
  <2> QED
    BY <2>1, <2>2, <2>3, <2>4, Effects
<1>4. \A s \in Subscribers : rpc[s] # "new" => rpc'[s] # "new"
  <2>1. ASSUME NEW s \in Subscribers, Subscribe(s) \/ EndRange(s)
        PROVE  \A x \in Subscribers : rpc[x] # "new" => rpc'[x] # "new"
    <3>1. rpc' = [rpc EXCEPT ![s] = "ranging"] \/ rpc' = [rpc EXCEPT ![s] = "done"]
      BY <2>1 DEF Subscribe, EndRange
    <3>2. \A x \in Subscribers \ {s} : rpc'[x] = rpc[x]
      BY <1>1, <3>1
    <3> QED
      BY <1>1, <3>1, <3>2
  <2> QED
    BY <2>1, Effects
<1>5. \A i \in 1..Len(subscribers') : subscribers'[i] \in Subscribers
  BY DEF TypeOK
<1> QED
  BY <1>2, <1>3, <1>4, <1>5 DEF Once

-----------------------------------------------------------------------------
(* The order of a publisher's events.                                      *)

(* A publisher owes an event to the channels it copied; a call that ends   *)
(* owes nothing.                                                           *)
LEMMA Owing ==
  ASSUME TypeOK, NEW p \in Publishers, NEW s \in Subscribers
  PROVE  /\ Copy(p) => /\ ~Owes(p, s)
                       /\ Owes(p, s)' <=> \E i \in 1..Len(subscribers) : subscribers[i] = s
         /\ GiveUp(p) \/ Return(p) => ~Owes(p, s)'
         /\ Return(p) => ~Owes(p, s)
         /\ \A q \in Publishers \ {p} :
              Copy(q) \/ InPublish(q) => (Owes(p, s)' <=> Owes(p, s))
         /\ Panic(p) => (Owes(p, s)' <=> Owes(p, s))
         /\ ppc' = ppc /\ left' = left => (Owes(p, s)' <=> Owes(p, s))
<1>1. /\ ppc \in [Publishers -> {"idle", "sending"}]
      /\ left \in [Publishers -> Seq(Subscribers)]
      /\ Len(<<>>) = 0
  BY EmptySeq DEF TypeOK
<1>2. Copy(p) => /\ ~Owes(p, s)
                 /\ Owes(p, s)' <=> \E i \in 1..Len(subscribers) : subscribers[i] = s
  BY <1>1 DEF Copy, Owes
<1>3. GiveUp(p) \/ Return(p) => ~Owes(p, s)'
  BY <1>1 DEF GiveUp, Return, Owes
<1>4. Return(p) => ~Owes(p, s)
  BY <1>1 DEF Return, Owes
<1>5. ASSUME NEW q \in Publishers \ {p}, Copy(q) \/ InPublish(q)
      PROVE  Owes(p, s)' <=> Owes(p, s)
  <2>1. ppc'[p] = ppc[p] /\ left'[p] = left[p]
    BY <1>1, <1>5 DEF InPublish, Copy, Send, Panic, GiveUp, Return, publisherVars
  <2> QED
    BY <2>1 DEF Owes
<1>6. ppc' = ppc /\ left' = left => (Owes(p, s)' <=> Owes(p, s))
  BY DEF Owes
<1>7. Panic(p) => ppc' = ppc /\ left' = left
  BY DEF Panic, publisherVars
<1> QED
  BY <1>2, <1>3, <1>4, <1>5, <1>6, <1>7

(* Only a copy makes a publisher owe what it did not owe before.           *)
LEMMA OwesLess ==
  ASSUME TypeOK, Once, Ordered, [Next]_vars, NEW p \in Publishers, NEW s \in Subscribers,
         ~Copy(p), Owes(p, s)'
  PROVE  Owes(p, s)
<1>1. CASE Send(p)
  BY <1>1, Sending
<1>2. CASE Panic(p) \/ GiveUp(p) \/ Return(p)
  BY <1>2, Owing
<1>3. ASSUME NEW q \in Publishers \ {p}, Copy(q) \/ InPublish(q)
      PROVE  Owes(p, s)
  BY <1>3, Owing
<1>4. CASE ppc' = ppc /\ left' = left
  BY <1>4, Owing
<1>5. \/ ppc' = ppc /\ left' = left
      \/ \E q \in Publishers : Copy(q) \/ InPublish(q)
  BY Effects
<1> QED
  BY <1>1, <1>2, <1>3, <1>4, <1>5 DEF InPublish

LEMMA OrderedStep == TypeOK /\ Once /\ Ordered /\ [Next]_vars => Ordered'
<1> SUFFICES ASSUME TypeOK, Once, Ordered, [Next]_vars, NEW p \in Publishers
             PROVE  /\ ppc'[p] = "sending" => sent'[p] \in 1..MaxEvents
                    /\ \A s \in Subscribers : \A i \in 1..Len(log'[s]) : log'[s][i][1] = p =>
                         /\ log'[s][i][2] <= sent'[p]
                         /\ Owes(p, s)' => log'[s][i][2] < sent'[p]
  BY DEF Ordered
<1>1. /\ sent \in [Publishers -> 0..MaxEvents] /\ MaxEvents \in Nat
      /\ sent[p] \in 0..MaxEvents
      /\ ppc \in [Publishers -> {"idle", "sending"}]
      /\ log \in [Subscribers -> Seq(Events)]
  BY BusAssumption DEF TypeOK
<1>2. /\ ppc[p] = "sending" => sent[p] \in 1..MaxEvents
      /\ \A s \in Subscribers : \A i \in 1..Len(log[s]) : log[s][i][1] = p =>
           /\ log[s][i][2] <= sent[p]
           /\ Owes(p, s) => log[s][i][2] < sent[p]
  BY DEF Ordered
<1>3. CASE Copy(p)
  <2>1. sent'[p] = sent[p] + 1 /\ sent[p] < MaxEvents /\ log' = log
    BY <1>1, <1>3 DEF Copy, historyVars
  <2>2. ASSUME NEW s \in Subscribers, NEW i \in 1..Len(log[s]), log[s][i][1] = p
        PROVE  log[s][i][2] < sent'[p]
    <3>1. log[s][i] \in Events
      BY <1>1
    <3>2. log[s][i][2] \in Nat
      BY <1>1, <3>1 DEF Events
    <3>3. log[s][i][2] <= sent[p]
      BY <1>2, <2>2
    <3> QED
      BY <1>1, <2>1, <3>2, <3>3
  <2>3. \A s \in Subscribers : \A i \in 1..Len(log[s]) : log[s][i][1] = p => log[s][i][2] <= sent'[p]
    <3> SUFFICES ASSUME NEW s \in Subscribers, NEW i \in 1..Len(log[s]), log[s][i][1] = p
                 PROVE  log[s][i][2] <= sent'[p]
      OBVIOUS
    <3>1. log[s][i] \in Events
      BY <1>1
    <3>2. log[s][i][2] \in Nat
      BY <1>1, <3>1 DEF Events
    <3> QED
      BY <1>1, <2>1, <2>2, <3>2
  <2>4. sent'[p] \in 1..MaxEvents
    BY <1>1, <2>1
  <2> QED
    BY <2>1, <2>2, <2>3, <2>4
<1>4. CASE ~Copy(p)
  <2>1. sent'[p] = sent[p]
    <3>1. ASSUME NEW q \in Publishers, Copy(q)
          PROVE  sent'[p] = sent[p]
      BY <1>1, <1>4, <3>1 DEF Copy
    <3> QED
      BY <3>1, Effects
  <2>2. ppc'[p] = "sending" => ppc[p] = "sending"
    <3>1. ASSUME NEW q \in Publishers, Copy(q) \/ InPublish(q)
          PROVE  ppc'[p] = "sending" => ppc[p] = "sending"
      BY <1>1, <1>4, <3>1 DEF Copy, InPublish, Send, Panic, GiveUp, Return, publisherVars
    <3> QED
      BY <3>1, Effects
  <2>3. ASSUME NEW s \in Subscribers, NEW i \in 1..Len(log'[s]), log'[s][i][1] = p
        PROVE  /\ log'[s][i][2] <= sent[p]
               /\ Owes(p, s)' => log'[s][i][2] < sent[p]
    <3>1. Owes(p, s)' => Owes(p, s)
      BY <1>4, OwesLess
    <3>2. CASE i \in 1..Len(log[s]) /\ log'[s][i] = log[s][i]
      BY <1>2, <2>3, <3>1, <3>2
    <3>3. CASE ~(i \in 1..Len(log[s]) /\ log'[s][i] = log[s][i])
      <4>1. PICK q \in Publishers : Send(q)
        BY <3>3, Effects
      <4>2. PICK x \in Subscribers, e \in Events :
              /\ e = <<q, sent[q]>> /\ ~Owes(q, x)'
              /\ log' = [log EXCEPT ![x] = Append(log[x], e)]
        BY <4>1, Sending
      <4>3. x = s
        BY <1>1, <3>3, <4>2
      <4>4. log'[s][i] = e
        <5>1. log[s] \in Seq(Events) /\ log'[s] = Append(log[s], e) /\ Len(log[s]) \in Nat
          BY <1>1, <4>2, <4>3, LenProperties
        <5>2. /\ Len(log'[s]) = Len(log[s]) + 1 /\ log'[s][Len(log[s]) + 1] = e
              /\ \A k \in 1..Len(log[s]) : log'[s][k] = log[s][k]
          BY <5>1, AppendProperties
        <5>3. i \in 1..Len(log[s]) \/ i = Len(log[s]) + 1
          BY <2>3, <5>1, <5>2
        <5> QED
          BY <3>3, <5>2, <5>3
      <4> QED
        BY <1>1, <2>3, <4>2, <4>3, <4>4
    <3> QED
      BY <3>2, <3>3
  <2> QED
    BY <1>2, <2>1, <2>2, <2>3
<1> QED
  BY <1>3, <1>4

-----------------------------------------------------------------------------
(* While the context is alive.                                             *)
LEMMA ListedStep == TypeOK /\ Once /\ Ordered /\ Listed /\ [Next]_vars => Listed'
<1> SUFFICES ASSUME TypeOK, Once, Ordered, Listed, [Next]_vars, ~canceled',
                    NEW s \in Subscribers,
                    log'[s] # <<>> \/ \E p \in Publishers : Owes(p, s)'
             PROVE  \E i \in 1..Len(subscribers') : subscribers'[i] = s
  BY DEF Listed
<1>1. ~canceled
  BY Effects DEF Cancel
<1>2. \E i \in 1..Len(subscribers) : subscribers[i] = s
  <2>1. CASE log'[s] = log[s] /\ \E p \in Publishers : Owes(p, s)' /\ Copy(p)
    BY <2>1, Owing
  <2>2. CASE log'[s] = log[s] /\ \A p \in Publishers : Owes(p, s)' => ~Copy(p)
    <3>1. log[s] # <<>> \/ \E p \in Publishers : Owes(p, s)
      BY <2>2, OwesLess
    <3> QED
      BY <1>1, <3>1 DEF Listed
  <2>3. CASE log'[s] # log[s]
    <3>1. PICK q \in Publishers : Send(q)
      BY <2>3, Effects
    <3>2. PICK x \in Subscribers, e \in Events :
            Owes(q, x) /\ log' = [log EXCEPT ![x] = Append(log[x], e)]
      BY <3>1, Sending
    <3>3. x = s
      BY <2>3, <3>2 DEF TypeOK
    <3> QED
      BY <1>1, <3>2, <3>3 DEF Listed
  <2> QED
    BY <2>1, <2>2, <2>3
<1>3. CASE subscribers' = subscribers
  BY <1>2, <1>3
<1>4. ASSUME NEW x \in Subscribers, Subscribe(x)
      PROVE  \E i \in 1..Len(subscribers') : subscribers'[i] = s
  <2>1. subscribers \in Seq(Subscribers) /\ subscribers' = Append(subscribers, x) /\ Len(subscribers) \in Nat
    BY <1>4, LenProperties DEF Subscribe, TypeOK
  <2>2. /\ Len(subscribers') = Len(subscribers) + 1
        /\ \A i \in 1..Len(subscribers) : subscribers'[i] = subscribers[i]
    BY <2>1, AppendProperties
  <2> QED
    BY <1>2, <2>1, <2>2
<1>5. ~\E x \in Subscribers : Unsubscribe(x)
  BY <1>1 DEF Unsubscribe
<1> QED
  BY <1>3, <1>4, <1>5, Effects

(* A send adds its event to one stream.                                    *)
LEMMA StreamGrows ==
  ASSUME TypeOK, NEW s \in Subscribers, NEW e \in Events,
         log' = [log EXCEPT ![s] = Append(log[s], e)]
  PROVE  /\ Streamed(s)' = Streamed(s) \cup {e}
         /\ \A x \in Subscribers \ {s} : Streamed(x)' = Streamed(x)
<1>1. log \in [Subscribers -> Seq(Events)] /\ log[s] \in Seq(Events) /\ Len(log[s]) \in Nat
  BY LenProperties DEF TypeOK
<1>2. log'[s] = Append(log[s], e) /\ \A x \in Subscribers \ {s} : log'[x] = log[x]
  BY <1>1
<1>3. /\ Len(log'[s]) = Len(log[s]) + 1 /\ log'[s][Len(log[s]) + 1] = e
      /\ \A i \in 1..Len(log[s]) : log'[s][i] = log[s][i]
  BY <1>1, <1>2, AppendProperties
<1>4. /\ \A i \in 1..Len(log'[s]) : i \in 1..Len(log[s]) \/ i = Len(log[s]) + 1
      /\ \A i \in 1..Len(log[s]) : i \in 1..Len(log'[s])
      /\ Len(log[s]) + 1 \in 1..Len(log'[s])
  BY <1>1, <1>3
<1>5. Streamed(s)' = Streamed(s) \cup {e}
  <2>1. \A y : y \in Streamed(s)' <=> \E i \in 1..Len(log'[s]) : y = log'[s][i]
    BY DEF Streamed
  <2>2. \A y : y \in Streamed(s) <=> \E i \in 1..Len(log[s]) : y = log[s][i]
    BY DEF Streamed
  <2>3. ASSUME NEW y
        PROVE  (\E i \in 1..Len(log'[s]) : y = log'[s][i]) <=>
                 (\E i \in 1..Len(log[s]) : y = log[s][i]) \/ y = e
    BY <1>3, <1>4
  <2>4. \A y : y \in Streamed(s)' <=> y \in Streamed(s) \/ y = e
    BY <2>1, <2>2, <2>3
  <2> QED
    BY <2>4
<1> QED
  BY <1>2, <1>5 DEF Streamed

LEMMA GapStep == TypeOK /\ Once /\ Ordered /\ Listed /\ NoGap /\ [Next]_vars => NoGap'
<1> SUFFICES ASSUME TypeOK, Once, Ordered, Listed, NoGap, [Next]_vars, ~canceled',
                    NEW s \in Subscribers, NEW p \in Publishers, NEW n \in 1..MaxEvents,
                    <<p, n>> \in Streamed(s)', NEW k \in n..sent'[p]
             PROVE  <<p, k>> \in Streamed(s)' \/ (k = sent'[p] /\ Owes(p, s)')
  <2>1. ASSUME NEW e \in Events
        PROVE  \E p \in Publishers, n \in 1..MaxEvents : e = <<p, n>> /\ e[1] = p /\ e[2] = n
    BY DEF Events
  <2> QED
    BY <2>1 DEF NoGap
<1>1. ~canceled
  BY Effects DEF Cancel
<1>2. /\ sent \in [Publishers -> 0..MaxEvents] /\ MaxEvents \in Nat /\ sent[p] \in 0..MaxEvents
  BY BusAssumption DEF TypeOK
<1>3. ASSUME NEW j \in n..sent[p], <<p, n>> \in Streamed(s)
      PROVE  <<p, j>> \in Streamed(s) \/ (j = sent[p] /\ Owes(p, s))
  <2>1. <<p, n>> \in Events /\ <<p, n>>[1] = p /\ <<p, n>>[2] = n
    BY DEF Events
  <2> QED
    BY <1>1, <1>3, <2>1 DEF NoGap
<1>4. CASE Copy(p)
  <2>1. sent'[p] = sent[p] + 1 /\ log' = log
    BY <1>2, <1>4 DEF Copy, historyVars
  <2>2. Streamed(s)' = Streamed(s)
    BY <2>1 DEF Streamed
  <2>3. CASE k = sent[p] + 1
    <3>1. log[s] # <<>>
      BY <2>2, EmptySeq DEF Streamed
    <3>2. \E i \in 1..Len(subscribers) : subscribers[i] = s
      BY <1>1, <3>1 DEF Listed
    <3>3. Owes(p, s)'
      BY <1>4, <3>2, Owing
    <3> QED
      BY <2>1, <2>3, <3>3
  <2>4. CASE k # sent[p] + 1
    <3>1. k \in n..sent[p]
      BY <1>2, <2>1, <2>4
    <3> QED
      BY <1>3, <1>4, <2>2, <3>1, Owing
  <2> QED
    BY <2>3, <2>4
<1>5. CASE Send(p)
  <2>1. PICK x \in Subscribers, e \in Events :
          /\ e = <<p, sent[p]>> /\ sent' = sent
          /\ log' = [log EXCEPT ![x] = Append(log[x], e)]
          /\ x # s => (Owes(p, s)' <=> Owes(p, s))
    BY <1>5, Sending
  <2>2. Streamed(s)' = IF x = s THEN Streamed(s) \cup {e} ELSE Streamed(s)
    BY <2>1, StreamGrows
  <2>3. CASE <<p, n>> \in Streamed(s)
    BY <1>3, <2>1, <2>2, <2>3
  <2>4. CASE <<p, n>> \notin Streamed(s)
    <3>1. x = s /\ n = sent[p]
      BY <2>1, <2>2, <2>4
    <3>2. k = sent[p]
      BY <1>2, <2>1, <3>1
    <3> QED
      BY <2>1, <2>2, <3>1, <3>2
  <2> QED
    BY <2>3, <2>4
<1>6. CASE ~Copy(p) /\ ~Send(p)
  <2>1. sent'[p] = sent[p]
    <3>1. ASSUME NEW q \in Publishers, Copy(q)
          PROVE  sent'[p] = sent[p]
      BY <1>2, <1>6, <3>1 DEF Copy
    <3> QED
      BY <3>1, Effects
  <2>2. Owes(p, s) => Owes(p, s)'
    <3>1. ~GiveUp(p)
      BY <1>1 DEF GiveUp
    <3>2. ASSUME NEW q \in Publishers, Copy(q) \/ InPublish(q)
          PROVE  Owes(p, s) => Owes(p, s)'
      BY <1>6, <3>1, <3>2, Owing DEF InPublish
    <3> QED
      BY <3>2, Effects, Owing
  <2>3. /\ Streamed(s) \subseteq Streamed(s)'
        /\ <<p, n>> \in Streamed(s)
    <3>1. CASE log' = log
      BY <3>1 DEF Streamed
    <3>2. ASSUME NEW q \in Publishers, Send(q)
          PROVE  Streamed(s) \subseteq Streamed(s)' /\ <<p, n>> \in Streamed(s)
      <4>1. PICK x \in Subscribers, e \in Events :
              e = <<q, sent[q]>> /\ log' = [log EXCEPT ![x] = Append(log[x], e)]
        BY <3>2, Sending
      <4>2. Streamed(s)' = IF x = s THEN Streamed(s) \cup {e} ELSE Streamed(s)
        BY <4>1, StreamGrows
      <4>3. q # p
        BY <1>6, <3>2
      <4> QED
        BY <4>1, <4>2, <4>3
    <3> QED
      BY <3>1, <3>2, Effects
  <2> QED
    BY <1>3, <2>1, <2>2, <2>3
<1> QED
  BY <1>4, <1>5, <1>6

-----------------------------------------------------------------------------
(* The invariant and what follows from it.                                 *)
LEMMA Inductive == IInv /\ [Next]_vars => IInv'
<1> SUFFICES ASSUME IInv, [Next]_vars PROVE IInv'
  OBVIOUS
<1>1. TypeOK'
  BY TypeStep DEF IInv
<1>2. CrashOnlyAtShutdown' /\ Flow' /\ Ordered' /\ Listed' /\ NoGap'
  BY ShutdownStep, FlowStep, OrderedStep, ListedStep, GapStep DEF IInv
<1>3. Once'
  BY <1>1, OnceStep DEF IInv
<1> QED
  BY <1>1, <1>2, <1>3 DEF IInv

LEMMA Invariance == Spec => []IInv
BY InitOK, Inductive, PTL DEF Spec

(* Every variable has its type.                                            *)
THEOREM TypeCorrect == Spec => []TypeOK
<1>1. IInv => TypeOK
  BY DEF IInv
<1> QED
  BY <1>1, Invariance, PTL

(* While the context is alive no channel is closed and no send can panic   *)
(* (Subscribe's goroutine, Publish).                                       *)
THEOREM CrashOnlyAtShutdownHolds == Spec => []CrashOnlyAtShutdown
<1>1. IInv => CrashOnlyAtShutdown
  BY DEF IInv
<1> QED
  BY <1>1, Invariance, PTL

(* Until the cancellation a subscriber misses no event of a publisher it   *)
(* has heard from: backpressure makes publishers wait (Publish).           *)
THEOREM NoGapHolds == Spec => []NoGap
<1>1. IInv => NoGap
  BY DEF IInv
<1> QED
  BY <1>1, Invariance, PTL

(* A step of the bus is a step of the stream of one subscriber, or none.   *)
(* The first of c is what l holds behind the part that d has.              *)
Leads(l, d, c) == Head(c) = l[Len(d) + 1] /\ Len(d) < Len(l)

LEMMA Oldest ==
  ASSUME NEW S, NEW l \in Seq(S), NEW d \in Seq(S), NEW c \in Seq(S), c # <<>>,
         Remains(l, d, c)
  PROVE  Leads(l, d, c)
BY Consumed DEF Leads

LEMMA StreamStep == IInv /\ [Next]_vars => [Streams!Next]_<<log, read>>
<1> SUFFICES ASSUME IInv, [Next]_vars PROVE [Streams!Next]_<<log, read>>
  OBVIOUS
<1>1. TypeOK /\ Once /\ Ordered /\ Flow
  BY DEF IInv
<1>2. /\ log \in [Subscribers -> Seq(Events)] /\ read \in [Subscribers -> Seq(Events)]
      /\ chan \in [Subscribers -> Seq(Events)]
  BY <1>1 DEF TypeOK
<1>3. ASSUME NEW p \in Publishers, Send(p)
      PROVE  Streams!Next
  <2>1. PICK s \in Subscribers, e \in Events :
          /\ e = <<p, sent[p]>> /\ Owes(p, s) /\ Len(chan[s]) < Buffer
          /\ log' = [log EXCEPT ![s] = Append(log[s], e)] /\ UNCHANGED read
    BY <1>1, <1>3, Sending
  <2>2. sent[p] \in 1..MaxEvents
    BY <1>1, <2>1 DEF Ordered, Owes
  <2>3. \A i \in 1..Len(log[s]) : log[s][i][1] = p => log[s][i][2] < sent[p]
    BY <1>1, <2>1 DEF Ordered
  <2>4. Len(log[s]) - Len(read[s]) < Buffer
    <3>1. Len(log[s]) = Len(read[s]) + Len(chan[s])
      BY <1>1 DEF Flow, Remains
    <3>2. Len(read[s]) \in Nat /\ Len(chan[s]) \in Nat
      BY <1>2, LenProperties
    <3> QED
      BY <2>1, <3>1, <3>2
  <2>5. Streams!Stream(s, p, sent[p])
    BY <2>1, <2>3, <2>4 DEF Streams!Stream
  <2> QED
    BY <2>2, <2>5 DEF Streams!Next
<1>4. ASSUME NEW s \in Subscribers, Receive(s)
      PROVE  Streams!Next
  <2>1. /\ chan[s] # <<>> /\ log' = log
        /\ read' = [read EXCEPT ![s] = Append(read[s], Head(chan[s]))]
    BY <1>4 DEF Receive
  <2>2. Leads(log[s], read[s], chan[s])
    <3>1. Remains(log[s], read[s], chan[s])
      BY <1>1 DEF Flow
    <3>2. log[s] \in Seq(Events) /\ read[s] \in Seq(Events) /\ chan[s] \in Seq(Events)
      BY <1>2
    <3>3. chan[s] # <<>>
      BY <2>1
    <3> QED
      BY <3>1, <3>2, <3>3, Oldest, Zenon
  <2>3. Streams!Consume(s)
    BY <2>1, <2>2 DEF Leads, Streams!Consume
  <2> QED
    BY <2>3 DEF Streams!Next
<1>5. \/ UNCHANGED <<log, read>>
      \/ (\E p \in Publishers : Send(p)) \/ (\E s \in Subscribers : Receive(s))
  BY Effects
<1> QED
  BY <1>3, <1>4, <1>5

(* The bus implements the streams: each subscriber reads, in the order in  *)
(* which each publisher published and at most Buffer behind, every event   *)
(* sent to it exactly once (Publish, for event := range sub).              *)
THEOREM StreamSpecHolds == Spec => StreamSpec
<1>1. Init => Streams!Init
  BY DEF Init, Streams!Init
<1> QED
  BY <1>1, StreamStep, Invariance, PTL DEF Spec, StreamSpec, Streams!Spec
=============================================================================
