------------------------ MODULE ConsoleInput_proofs ------------------------
(***************************************************************************)
(* Theorems about ConsoleInput, for every script, every set of streams and *)
(* bytes, and every number of keys.                                        *)
(*                                                                         *)
(* First, that a recursive function computes what its definition says, by  *)
(* least counterexamples; then heapq: _siftdown, _siftup, heappush and     *)
(* heappop lose no item and, where times are numbers, keep the heap in     *)
(* order; then the queue at the start; then the inductive invariant.       *)
(*                                                                         *)
(* With a NaN for a delay the queue is in no order.  What needs the order  *)
(* has Timed for a hypothesis; the type invariant and the keys do not.     *)
(***************************************************************************)
EXTENDS ConsoleInput, WellFoundedInduction, SequenceTheorems, TLAPS

-----------------------------------------------------------------------------
(***************************************************************************)
(* Induction and recursion.                                                *)
(***************************************************************************)
\* A set of natural numbers has a least member.
LEMMA Least == ASSUME NEW T \in SUBSET Nat, T # {} PROVE \E m \in T : \A n \in T : m <= n
<1>1. IsWellFoundedOn(OpToRel(<,Nat), Nat)  BY NatLessThanWellFounded
<1>2. PICK m \in T : \A n \in T : ~ (<<n, m>> \in OpToRel(<,Nat))  BY <1>1, WFMin
<1>3. \A n \in T : <<n, m>> \in OpToRel(<,Nat) <=> n < m  BY DEF OpToRel
<1>4. m \in Nat /\ \A n \in T : n \in Nat /\ ~(n < m)  BY <1>2, <1>3
<1>5. \A n \in T : m <= n  BY <1>4
<1> QED BY <1>5

\* Induction: what does not hold of all numbers has a least counterexample.
LEMMA Inductive == ASSUME NEW S, 0 \in S, \A n \in Nat : n \in S => n + 1 \in S PROVE Nat \subseteq S
<1> SUFFICES ASSUME ~(Nat \subseteq S) PROVE FALSE
  OBVIOUS
<1>1. PICK m \in Nat \ S : \A n \in Nat \ S : m <= n  BY Least
<1>2. m # 0 /\ m - 1 \in Nat /\ ~(m <= m - 1) /\ (m - 1) + 1 = m  OBVIOUS
<1>3. m - 1 \in S  BY <1>1, <1>2
<1> QED BY <1>2, <1>3

\* A loop over the states D, which ends in stop and goes down in size until then.
Loops(D, size, stop, step) ==
  /\ size \in [D -> Nat] /\ stop \in SUBSET D /\ step \in [D \ stop -> D]
  /\ \A d \in D \ stop : size[step[d]] < size[d]

\* The function that the loop computes, with the result out at its end.
Computes(f, D, stop, step, out) ==
  \A d \in D : f[d] = IF d \in stop THEN out[d] ELSE f[step[d]]

\* A loop that goes down in size computes a function: there is one on the states
\* below each size.
LEMMA TailRecursion ==
  ASSUME NEW D, NEW size, NEW stop, NEW step, Loops(D, size, stop, step),
         NEW V, NEW out \in [stop -> V]
  PROVE  \E f : f \in [D -> V] /\ Computes(f, D, stop, step, out)
<1> USE DEF Loops
<1> DEFINE Below(n) == {d \in D : size[d] < n}
           Solves(f, n) == /\ f \in [Below(n) -> V]
                           /\ \A d \in Below(n) : f[d] = IF d \in stop THEN out[d] ELSE f[step[d]]
           S == {n \in Nat : \E f : Solves(f, n)}
<1>1. \A n \in Nat, d \in D \ stop : d \in Below(n + 1) => step[d] \in Below(n)
  OBVIOUS
<1>2. \A n \in Nat, d \in D \ stop : d \in Below(n) => step[d] \in Below(n)
  OBVIOUS
<1>3. \A n \in Nat : Below(n) \subseteq Below(n + 1)  OBVIOUS
<1>4. 0 \in S
  <2>1. Below(0) = {}  OBVIOUS
  <2> HIDE DEF Below
  <2>2. Solves([d \in Below(0) |-> 0], 0)  BY <2>1
  <2> QED BY <2>2
<1>5. ASSUME NEW n \in Nat, n \in S PROVE n + 1 \in S
  <2>1. PICK f : Solves(f, n)  BY <1>5
  <2> DEFINE g == [d \in Below(n + 1) |-> IF d \in stop THEN out[d] ELSE f[step[d]]]
  <2> HIDE DEF Below
  <2>2. g \in [Below(n + 1) -> V]
    <3> SUFFICES ASSUME NEW d \in Below(n + 1) PROVE (IF d \in stop THEN out[d] ELSE f[step[d]]) \in V
      OBVIOUS
    <3>1. d \in D  BY DEF Below
    <3> QED BY <1>1, <2>1, <3>1
  <2>3. \A d \in Below(n) : g[d] = f[d]  BY <1>3, <2>1
  <2>4. ASSUME NEW d \in Below(n + 1) PROVE g[d] = IF d \in stop THEN out[d] ELSE g[step[d]]
    <3>1. d \in D  BY DEF Below
    <3>2. CASE d \in stop  BY <3>2
    <3>3. CASE d \notin stop  BY <1>1, <2>3, <3>1, <3>3
    <3> QED BY <3>2, <3>3
  <2> HIDE DEF g
  <2>5. Solves(g, n + 1)  BY <2>2, <2>4
  <2> QED BY <2>5
<1>6. Nat \subseteq S
  <2> HIDE DEF S
  <2> QED BY <1>4, <1>5, Inductive
<1>7. ASSUME NEW n \in Nat, NEW m \in Nat, NEW f, NEW g, Solves(f, n), Solves(g, m)
      PROVE  \A d \in Below(n) \cap Below(m) : f[d] = g[d]
  <2> DEFINE Bad == {d \in Below(n) \cap Below(m) : f[d] # g[d]}
  <2> SUFFICES ASSUME Bad # {} PROVE FALSE
    OBVIOUS
  <2>1. {size[d] : d \in Bad} \in SUBSET Nat /\ {size[d] : d \in Bad} # {}  OBVIOUS
  <2>2. PICK k \in {size[d] : d \in Bad} : \A l \in {size[d] : d \in Bad} : k <= l  BY <2>1, Least
  <2>3. PICK d \in Bad : \A e \in Bad : size[d] <= size[e]  BY <2>2
  <2>4. d \in D /\ d \in Below(n) /\ d \in Below(m) /\ f[d] # g[d]  OBVIOUS
  <2>5. d \notin stop  BY <1>7, <2>4
  <2>6. f[d] = f[step[d]] /\ g[d] = g[step[d]]  BY <1>7, <2>4, <2>5
  <2>7. step[d] \in Below(n) /\ step[d] \in Below(m)  BY <1>2, <2>4, <2>5
  <2>8. step[d] \in Bad  BY <2>4, <2>6, <2>7
  <2>9. step[d] \in D /\ size[step[d]] \in Nat /\ size[d] \in Nat /\ size[step[d]] < size[d]
    BY <2>4, <2>5
  <2> HIDE DEF Bad
  <2>10. size[d] <= size[step[d]]  BY <2>3, <2>8
  <2> QED BY <2>9, <2>10
<1> DEFINE Solution(n) == CHOOSE f : Solves(f, n)
           F == [d \in D |-> Solution(size[d] + 1)[d]]
<1>8. \A n \in Nat : Solves(Solution(n), n)
  <2> HIDE DEF Solves
  <2>1. \A n \in Nat : \E f : Solves(f, n)  BY <1>6
  <2> QED BY <2>1
<1>9. \A d \in D : size[d] + 1 \in Nat /\ d \in Below(size[d] + 1)  OBVIOUS
<1> HIDE DEF Solution
<1>10. ASSUME NEW d \in D
       PROVE  F[d] \in V /\ F[d] = IF d \in stop THEN out[d] ELSE F[step[d]]
  <2> DEFINE n == size[d] + 1
  <2>1. n \in Nat /\ d \in Below(n) /\ Solves(Solution(n), n)  BY <1>8, <1>9
  <2>2. F[d] = Solution(n)[d] /\ F[d] \in V
    <3> HIDE DEF Below
    <3> QED BY <2>1
  <2>3. CASE d \in stop
    <3> HIDE DEF Below
    <3> QED BY <2>1, <2>2, <2>3
  <2>4. CASE d \notin stop
    <3> DEFINE e == step[d]
               m == size[e] + 1
    <3>1. e \in D  BY <2>4
    <3>2. m \in Nat /\ e \in Below(m) /\ Solves(Solution(m), m)  BY <1>8, <1>9, <3>1
    <3>3. e \in Below(n)  BY <1>2, <2>1, <2>4
    <3> HIDE DEF Below
    <3>4. Solution(n)[d] = Solution(n)[e]  BY <2>1, <2>4
    <3> HIDE DEF Solves, n, m
    <3>5. Solution(n)[e] = Solution(m)[e]  BY <1>7, <2>1, <3>2, <3>3
    <3>6. F[e] = Solution(m)[e]  BY <3>1 DEF m
    <3> QED BY <2>2, <2>4, <3>4, <3>5, <3>6
  <2> QED BY <2>2, <2>3, <2>4
<1>11. F \in [D -> V]  BY <1>10
<1> HIDE DEF F
<1> QED BY <1>10, <1>11 DEF Computes

\* What the steps of a loop keep holds where it ends.
LEMMA TailInvariant ==
  ASSUME NEW D, NEW size, NEW stop, NEW step, Loops(D, size, stop, step),
         NEW out, NEW f, Computes(f, D, stop, step, out),
         NEW I \in SUBSET D, \A d \in I \ stop : step[d] \in I
  PROVE  \A d \in I : \E e \in I \cap stop : f[d] = out[e]
<1> USE DEF Loops, Computes
<1> DEFINE Bad == {d \in I : \A e \in I \cap stop : f[d] # out[e]}
<1> SUFFICES ASSUME Bad # {} PROVE FALSE
  OBVIOUS
<1>1. {size[d] : d \in Bad} \in SUBSET Nat /\ {size[d] : d \in Bad} # {}  OBVIOUS
<1>2. PICK k \in {size[d] : d \in Bad} : \A l \in {size[d] : d \in Bad} : k <= l  BY <1>1, Least
<1>3. PICK d \in Bad : \A e \in Bad : size[d] <= size[e]  BY <1>2
<1>4. d \in I \ stop /\ d \in D
  <2>1. d \in I /\ d \in D OBVIOUS
  <2>2. d \in stop => f[d] = out[d]  BY <2>1
  <2> QED BY <2>1, <2>2
<1>5. step[d] \in I /\ f[d] = f[step[d]]  BY <1>4
<1>6. step[d] \in Bad  BY <1>5
<1>7. size[d] <= size[step[d]]  BY <1>3, <1>6
<1>8. size[step[d]] < size[d] /\ size[d] \in Nat /\ size[step[d]] \in Nat  BY <1>4
<1> HIDE DEF Bad
<1> QED BY <1>7, <1>8

-----------------------------------------------------------------------------
(***************************************************************************)
(* heapq.                                                                  *)
(***************************************************************************)
LEMMA ExchangeIs ==
  ASSUME NEW h \in Seq(Item), NEW i \in 1 .. Len(h), NEW j \in 1 .. Len(h)
  PROVE  /\ Exchange(h, i, j) \in Seq(Item) /\ Len(Exchange(h, i, j)) = Len(h)
         /\ \A k \in 1 .. Len(h) :
              Exchange(h, i, j)[k] = IF k = j THEN h[i] ELSE IF k = i THEN h[j] ELSE h[k]
<1> QED BY DEF Exchange

\* g is h with the items at i and j exchanged.
Exchanged(h, i, j, g) ==
  /\ g \in Seq(Item) /\ Len(g) = Len(h)
  /\ \A k \in 1 .. Len(h) : g[k] = IF k = j THEN h[i] ELSE IF k = i THEN h[j] ELSE h[k]

LEMMA ExchangeExchanges ==
  ASSUME NEW h \in Seq(Item), NEW i \in 1 .. Len(h), NEW j \in 1 .. Len(h)
  PROVE  Exchanged(h, i, j, Exchange(h, i, j))
BY ExchangeIs DEF Exchanged

RiseEnds == {hp \in Places : ~(hp[2] \in 2 .. Len(hp[1]) /\ Less(hp[1][hp[2]], hp[1][hp[2] \div 2]))}
Risen(hp) == <<Exchange(hp[1], hp[2], hp[2] \div 2), hp[2] \div 2>>

LEMMA RisenIs ==
  ASSUME NEW hp \in Places \ RiseEnds
  PROVE  /\ hp[1] \in Seq(Item) /\ hp[2] \in 2 .. Len(hp[1]) /\ hp[2] \div 2 \in 1 .. hp[2] - 1
         /\ Less(hp[1][hp[2]], hp[1][hp[2] \div 2])
         /\ Risen(hp) \in Places
<1>1. hp[1] \in Seq(Item) /\ hp[2] \in 2 .. Len(hp[1]) /\ Less(hp[1][hp[2]], hp[1][hp[2] \div 2])
  BY DEF RiseEnds, Places
<1>2. hp[2] \div 2 \in 1 .. hp[2] - 1  BY <1>1
<1>3. hp[2] \div 2 \in 1 .. Len(hp[1])  BY <1>1, <1>2
<1>4. Exchange(hp[1], hp[2], hp[2] \div 2) \in Seq(Item)
  <2>1. hp[2] \in 1 .. Len(hp[1])  BY <1>1
  <2> QED BY ONLY <1>1, <1>3, <2>1, ExchangeIs
<1>5. hp[2] \div 2 \in Nat \ {0}  BY <1>2
<1> QED BY <1>1, <1>2, <1>4, <1>5 DEF Risen, Places

RiseStep == [hp \in Places \ RiseEnds |-> Risen(hp)]
RiseSize == [hp \in Places |-> hp[2]]

LEMMA RiseLoops == Loops(Places, RiseSize, RiseEnds, RiseStep)
<1>1. RiseSize \in [Places -> Nat]  BY DEF Places, RiseSize
<1>2. RiseEnds \in SUBSET Places  BY DEF RiseEnds
<1>3. RiseStep \in [Places \ RiseEnds -> Places]  BY RisenIs DEF RiseStep
<1>4. ASSUME NEW hp \in Places \ RiseEnds PROVE RiseSize[RiseStep[hp]] < RiseSize[hp]
  <2>1. RiseStep[hp] = Risen(hp) /\ Risen(hp) \in Places /\ Risen(hp)[2] = hp[2] \div 2
    BY RisenIs DEF Risen, RiseStep
  <2>2. RiseSize[RiseStep[hp]] = hp[2] \div 2 /\ RiseSize[hp] = hp[2]  BY <2>1 DEF RiseSize
  <2>3. hp[2] \in Nat /\ hp[2] \div 2 \in 1 .. hp[2] - 1  BY RisenIs DEF Places
  <2> QED BY ONLY <2>2, <2>3
<1> QED BY <1>1, <1>2, <1>3, <1>4 DEF Loops

\* _siftdown ends, so that Rise is what its equation says.
LEMMA RiseIs == \A hp \in Places : Rise[hp] = IF hp \in RiseEnds THEN hp[1] ELSE Rise[Risen(hp)]
<1> DEFINE out == [hp \in RiseEnds |-> hp[1]]
           Body(f, hp) == LET h == hp[1]  p == hp[2]
                          IN  IF p \in 2 .. Len(h) /\ Less(h[p], h[p \div 2])
                              THEN f[<<Exchange(h, p, p \div 2), p \div 2>>]
                              ELSE h
<1>1. out \in [RiseEnds -> Seq(Item)]  BY DEF Places, RiseEnds
<1>2. \A f : \A hp \in Places : Body(f, hp) = IF hp \in RiseEnds THEN hp[1] ELSE f[Risen(hp)]
  BY DEF RiseEnds, Risen
<1>3. \A hp \in Places : (hp \in RiseEnds => out[hp] = hp[1]) /\ (hp \notin RiseEnds => RiseStep[hp] = Risen(hp))
  BY DEF RiseStep
<1> HIDE DEF out, Body
<1>4. PICK f : f \in [Places -> Seq(Item)] /\ Computes(f, Places, RiseEnds, RiseStep, out)
  BY <1>1, RiseLoops, TailRecursion
<1>5. f = [hp \in Places |-> Body(f, hp)]  BY <1>2, <1>3, <1>4 DEF Computes
<1>6. Rise = CHOOSE g : g = [hp \in Places |-> Body(g, hp)]  BY DEF Rise, Body
<1>7. Rise = [hp \in Places |-> Body(Rise, hp)]  BY <1>5, <1>6
<1> QED BY <1>2, <1>7

\* What the steps of _siftdown keep holds where it ends.
LEMMA RiseKeeps ==
  ASSUME NEW I \in SUBSET Places, \A hp \in I \ RiseEnds : Risen(hp) \in I
  PROVE  \A hp \in I : \E e \in I \cap RiseEnds : Rise[hp] = e[1]
<1> DEFINE out == [hp \in Places |-> hp[1]]
<1>1. Computes(Rise, Places, RiseEnds, RiseStep, out)  BY RiseIs DEF RiseStep, Computes
<1>2. \A hp \in I \ RiseEnds : RiseStep[hp] \in I  BY DEF RiseStep
<1>3. \A hp \in I : out[hp] = hp[1]  OBVIOUS
<1> HIDE DEF out
<1>4. \A hp \in I : \E e \in I \cap RiseEnds : Rise[hp] = out[e]
  BY <1>1, <1>2, RiseLoops, TailInvariant
<1> QED BY <1>3, <1>4

SinkEnds == {hp \in Places : Len(hp[1]) < 2 * hp[2]}
Child(hp) == SmallerChild(hp[1], hp[2])
Sunk(hp) == <<Exchange(hp[1], hp[2], Child(hp)), Child(hp)>>
SinkStep == [hp \in Places \ SinkEnds |-> Sunk(hp)]
SinkSize == [hp \in Places |-> IF hp[2] <= Len(hp[1]) THEN Len(hp[1]) - hp[2] ELSE 0]

LEMMA SunkIs ==
  ASSUME NEW hp \in Places \ SinkEnds
  PROVE  /\ hp[1] \in Seq(Item) /\ hp[2] \in 1 .. Len(hp[1])
         /\ Child(hp) \in {2 * hp[2], 2 * hp[2] + 1} /\ Child(hp) \in 1 .. Len(hp[1])
         /\ Sunk(hp) \in Places
<1>1. hp[1] \in Seq(Item) /\ hp[2] \in Nat \ {0} /\ 2 * hp[2] <= Len(hp[1]) /\ Len(hp[1]) \in Nat
  BY DEF SinkEnds, Places
<1>2. hp[2] \in 1 .. Len(hp[1])  BY <1>1
<1>3. \/ Child(hp) = 2 * hp[2]
      \/ Child(hp) = 2 * hp[2] + 1 /\ 2 * hp[2] < Len(hp[1])
  BY DEF Child, SmallerChild
<1>4. Child(hp) \in 1 .. Len(hp[1]) /\ Child(hp) \in Nat \ {0}  BY <1>1, <1>3
<1>5. Exchange(hp[1], hp[2], Child(hp)) \in Seq(Item)  BY ONLY <1>1, <1>2, <1>4, ExchangeIs
<1> QED BY <1>1, <1>2, <1>3, <1>4, <1>5 DEF Sunk, Places

LEMMA SinkLoops == Loops(Places, SinkSize, SinkEnds, SinkStep)
<1>1. SinkSize \in [Places -> Nat]
  <2>1. ASSUME NEW hp \in Places PROVE (IF hp[2] <= Len(hp[1]) THEN Len(hp[1]) - hp[2] ELSE 0) \in Nat
    <3>1. hp[2] \in Nat /\ Len(hp[1]) \in Nat  BY DEF Places
    <3> QED BY <3>1
  <2> QED BY <2>1 DEF SinkSize
<1>2. SinkEnds \in SUBSET Places  BY DEF SinkEnds
<1>3. SinkStep \in [Places \ SinkEnds -> Places]  BY SunkIs DEF SinkStep
<1>4. ASSUME NEW hp \in Places \ SinkEnds PROVE SinkSize[SinkStep[hp]] < SinkSize[hp]
  <2>1. /\ hp[1] \in Seq(Item) /\ hp[2] \in 1 .. Len(hp[1]) /\ Len(hp[1]) \in Nat
        /\ Child(hp) \in {2 * hp[2], 2 * hp[2] + 1} /\ Child(hp) \in 1 .. Len(hp[1])
        /\ Sunk(hp) \in Places
    BY SunkIs
  <2>2. SinkStep[hp] = Sunk(hp) /\ Sunk(hp)[2] = Child(hp) /\ Len(Sunk(hp)[1]) = Len(hp[1])
    <3>1. Len(Exchange(hp[1], hp[2], Child(hp))) = Len(hp[1])  BY ONLY <2>1, ExchangeIs
    <3> QED BY <3>1 DEF Sunk, SinkStep
  <2>3. /\ SinkSize[Sunk(hp)] = IF Child(hp) <= Len(hp[1]) THEN Len(hp[1]) - Child(hp) ELSE 0
        /\ SinkSize[hp] = IF hp[2] <= Len(hp[1]) THEN Len(hp[1]) - hp[2] ELSE 0
    BY <2>1, <2>2 DEF SinkSize
  <2> QED BY ONLY <2>1, <2>2, <2>3
<1> QED BY <1>1, <1>2, <1>3, <1>4 DEF Loops

LEMMA RiseType == \A hp \in Places : Rise[hp] \in Seq(Item)
<1>1. \A hp \in Places : \E e \in Places \cap RiseEnds : Rise[hp] = e[1]  BY RisenIs, RiseKeeps
<1> QED BY <1>1 DEF Places

LEMMA SinkIs == \A hp \in Places : Sink[hp] = IF hp \in SinkEnds THEN Rise[hp] ELSE Sink[Sunk(hp)]
<1> DEFINE out == [hp \in SinkEnds |-> Rise[hp]]
           Body(f, hp) == LET h == hp[1]  p == hp[2]
                          IN  IF 2 * p <= Len(h)
                              THEN f[<<Exchange(h, p, SmallerChild(h, p)), SmallerChild(h, p)>>]
                              ELSE Rise[hp]
<1>1. out \in [SinkEnds -> Seq(Item)]  BY RiseType DEF SinkEnds
<1>2. \A f : \A hp \in Places : Body(f, hp) = IF hp \in SinkEnds THEN Rise[hp] ELSE f[Sunk(hp)]
  <2>1. \A hp \in Places : hp \in SinkEnds <=> ~(2 * hp[2] <= Len(hp[1]))
    <3>1. \A hp \in Places : hp[2] \in Nat /\ Len(hp[1]) \in Nat  BY DEF Places
    <3> QED BY <3>1 DEF SinkEnds
  <2> QED BY <2>1 DEF Sunk, Child
<1>3. \A hp \in Places : (hp \in SinkEnds => out[hp] = Rise[hp]) /\ (hp \notin SinkEnds => SinkStep[hp] = Sunk(hp))
  BY DEF SinkStep
<1> HIDE DEF out, Body
<1>4. PICK f : f \in [Places -> Seq(Item)] /\ Computes(f, Places, SinkEnds, SinkStep, out)
  BY <1>1, SinkLoops, TailRecursion
<1>5. f = [hp \in Places |-> Body(f, hp)]  BY <1>2, <1>3, <1>4 DEF Computes
<1>6. Sink = CHOOSE g : g = [hp \in Places |-> Body(g, hp)]  BY DEF Sink, Body
<1>7. Sink = [hp \in Places |-> Body(Sink, hp)]  BY <1>5, <1>6
<1> QED BY <1>2, <1>7

LEMMA SinkKeeps ==
  ASSUME NEW I \in SUBSET Places, \A hp \in I \ SinkEnds : Sunk(hp) \in I
  PROVE  \A hp \in I : \E e \in I \cap SinkEnds : Sink[hp] = Rise[e]
<1> DEFINE out == [hp \in Places |-> Rise[hp]]
<1>1. Computes(Sink, Places, SinkEnds, SinkStep, out)  BY SinkIs DEF SinkStep, Computes
<1>2. \A hp \in I \ SinkEnds : SinkStep[hp] \in I  BY DEF SinkStep
<1>3. \A hp \in I : out[hp] = Rise[hp]  OBVIOUS
<1> HIDE DEF out
<1>4. \A hp \in I : \E e \in I \cap SinkEnds : Sink[hp] = out[e]
  BY <1>1, <1>2, SinkLoops, TailInvariant
<1> QED BY <1>3, <1>4

\* h holds just the items S, each once.
Holds(h, S) ==
  /\ h \in Seq(Item) /\ S = {h[k] : k \in 1 .. Len(h)}
  /\ \A j, k \in 1 .. Len(h) : h[j] = h[k] => j = k

LEMMA ExchangeHolds ==
  ASSUME NEW h, NEW S, Holds(h, S), NEW i \in 1 .. Len(h), NEW j \in 1 .. Len(h)
  PROVE  Holds(Exchange(h, i, j), S)
<1> DEFINE g == Exchange(h, i, j)
           to(k) == IF k = i THEN j ELSE IF k = j THEN i ELSE k
<1>1. h \in Seq(Item)  BY DEF Holds
<1>2. /\ g \in Seq(Item) /\ Len(g) = Len(h)
      /\ \A k \in 1 .. Len(h) : g[k] = IF k = j THEN h[i] ELSE IF k = i THEN h[j] ELSE h[k]
  <2>1. Exchanged(h, i, j, g)
    BY ONLY <1>1, ExchangeExchanges, i \in 1 .. Len(h), j \in 1 .. Len(h)
  <2> HIDE DEF g
  <2> QED BY ONLY <2>1 DEF Exchanged
<1> HIDE DEF g
<1>3. \A k \in 1 .. Len(h) : to(k) \in 1 .. Len(h) /\ g[k] = h[to(k)] /\ to(to(k)) = k  BY <1>2
<1> HIDE DEF to
<1>4. \A k \in 1 .. Len(h) : g[k] \in S  BY <1>3 DEF Holds
<1>5. \A k \in 1 .. Len(h) : h[k] = g[to(k)]  BY <1>3
<1>6. {g[k] : k \in 1 .. Len(g)} = S  BY <1>2, <1>3, <1>4, <1>5 DEF Holds
<1>7. \A k, l \in 1 .. Len(g) : g[k] = g[l] => k = l  BY <1>2, <1>3 DEF Holds
<1> QED BY <1>2, <1>6, <1>7 DEF Holds, g

\* _siftdown moves items and loses none.
LEMMA RiseHolds ==
  ASSUME NEW hp \in Places, NEW S, Holds(hp[1], S)
  PROVE  Holds(Rise[hp], S)
<1> DEFINE I == {gq \in Places : Holds(gq[1], S)}
<1>1. ASSUME NEW gq \in I \ RiseEnds PROVE Risen(gq) \in I
  <2>1. Risen(gq) \in Places /\ gq[2] \in 1 .. Len(gq[1]) /\ gq[2] \div 2 \in 1 .. Len(gq[1])
    BY RisenIs
  <2>2. Holds(Exchange(gq[1], gq[2], gq[2] \div 2), S)  BY <2>1, ExchangeHolds
  <2> QED BY <2>1, <2>2 DEF Risen
<1>2. hp \in I /\ I \in SUBSET Places  OBVIOUS
<1> HIDE DEF I
<1>3. PICK e \in I \cap RiseEnds : Rise[hp] = e[1]  BY <1>1, <1>2, RiseKeeps
<1> QED BY <1>3 DEF I

\* Nor does _siftup.
LEMMA SinkHolds ==
  ASSUME NEW hp \in Places, NEW S, Holds(hp[1], S)
  PROVE  Holds(Sink[hp], S)
<1> DEFINE I == {gq \in Places : Holds(gq[1], S)}
<1>1. ASSUME NEW gq \in I \ SinkEnds PROVE Sunk(gq) \in I
  <2>1. Sunk(gq) \in Places /\ gq[2] \in 1 .. Len(gq[1]) /\ Child(gq) \in 1 .. Len(gq[1])
    BY SunkIs
  <2>2. Holds(Exchange(gq[1], gq[2], Child(gq)), S)  BY <2>1, ExchangeHolds
  <2> QED BY <2>1, <2>2 DEF Sunk
<1>2. hp \in I /\ I \in SUBSET Places  OBVIOUS
<1> HIDE DEF I
<1>3. PICK e \in I \cap SinkEnds : Sink[hp] = Rise[e]  BY <1>1, <1>2, SinkKeeps
<1>4. e \in Places /\ Holds(e[1], S)  BY <1>3 DEF I
<1> QED BY <1>3, <1>4, RiseHolds

\* heappush adds the item.
LEMMA PushHolds ==
  ASSUME NEW h, NEW S, Holds(h, S), NEW item \in Item \ S
  PROVE  Holds(Push(h, item), S \cup {item})
<1> DEFINE g == Append(h, item)
<1>1. h \in Seq(Item) /\ Len(h) \in Nat  BY DEF Holds
<1>2. g \in Seq(Item) /\ Len(g) = Len(h) + 1 /\ g[Len(h) + 1] = item /\ \A k \in 1 .. Len(h) : g[k] = h[k]
  BY <1>1
<1>3. 1 .. Len(g) = (1 .. Len(h)) \cup {Len(h) + 1}  BY <1>1, <1>2
<1> HIDE DEF g
<1>4. {g[k] : k \in 1 .. Len(g)} = S \cup {item}  BY <1>2, <1>3 DEF Holds
<1>5. \A k \in 1 .. Len(h) : h[k] # item  BY DEF Holds
<1>6. \A j, k \in 1 .. Len(g) : g[j] = g[k] => j = k  BY <1>2, <1>3, <1>5 DEF Holds
<1>7. Holds(g, S \cup {item})  BY <1>2, <1>4, <1>6 DEF Holds
<1>8. <<g, Len(h) + 1>> \in Places  BY <1>1, <1>2 DEF Places
<1> QED BY <1>7, <1>8, RiseHolds DEF Push, g

\* The heap whose root is to sink: without the item at the root, and the last one there.
Headless(h) == [i \in 1 .. Len(h) - 1 |-> IF i = 1 THEN h[Len(h)] ELSE h[i]]

LEMMA HeadlessIs ==
  ASSUME NEW h, NEW S, Holds(h, S), Len(h) > 1
  PROVE  /\ Headless(h) \in Seq(Item) /\ Len(Headless(h)) = Len(h) - 1
         /\ <<Headless(h), 1>> \in Places /\ Holds(Headless(h), S \ {h[1]})
<1> DEFINE g == Headless(h)
           at(k) == IF k = 1 THEN Len(h) ELSE k
<1>1. h \in Seq(Item) /\ Len(h) \in Nat  BY DEF Holds
<1>2. g \in Seq(Item) /\ Len(g) = Len(h) - 1
  BY <1>1 DEF Headless
<1>3. \A k \in 1 .. Len(g) : at(k) \in 2 .. Len(h) /\ g[k] = h[at(k)]
  BY <1>1, <1>2 DEF Headless
<1>4. \A k \in 2 .. Len(h) : \E j \in 1 .. Len(g) : at(j) = k
  <2> SUFFICES ASSUME NEW k \in 2 .. Len(h) PROVE \E j \in 1 .. Len(g) : at(j) = k
    OBVIOUS
  <2>1. CASE k = Len(h)  BY <1>1, <1>2, <2>1
  <2>2. CASE k # Len(h)  BY <1>1, <1>2, <2>2
  <2> QED BY <2>1, <2>2
<1>5. \A j, k \in 1 .. Len(g) : at(j) = at(k) => j = k  BY <1>1, <1>2
<1> HIDE DEF g, at
<1>6. 1 .. Len(h) = {1} \cup (2 .. Len(h)) /\ 1 \notin 2 .. Len(h)  BY <1>1
<1>7. {g[k] : k \in 1 .. Len(g)} = {h[k] : k \in 2 .. Len(h)}  BY <1>3, <1>4
<1>8. {h[k] : k \in 2 .. Len(h)} = S \ {h[1]}  BY <1>6 DEF Holds
<1>9. \A j, k \in 1 .. Len(g) : g[j] = g[k] => j = k  BY <1>3, <1>5, <1>6 DEF Holds
<1>10. Holds(g, S \ {h[1]})  BY <1>2, <1>7, <1>8, <1>9 DEF Holds
<1> QED BY <1>2, <1>10 DEF g, Places

\* heappop takes away the root.
LEMMA PopHolds ==
  ASSUME NEW h, NEW S, Holds(h, S), h # <<>>
  PROVE  h[1] \in S /\ Holds(Pop(h), S \ {h[1]})
<1>1. h \in Seq(Item) /\ Len(h) \in Nat /\ Len(h) >= 1  BY DEF Holds
<1>2. h[1] \in S  BY <1>1 DEF Holds
<1>3. CASE Len(h) = 1
  <2>1. 1 .. Len(h) = {1}  BY <1>3
  <2>2. S = {h[1]}  BY <2>1 DEF Holds
  <2>3. Holds(<<>>, {})  BY DEF Holds
  <2> QED BY <1>2, <1>3, <2>2, <2>3 DEF Pop
<1>4. CASE Len(h) > 1
  <2>1. <<Headless(h), 1>> \in Places /\ Holds(Headless(h), S \ {h[1]})  BY <1>4, HeadlessIs
  <2>2. Holds(Sink[<<Headless(h), 1>>], S \ {h[1]})  BY <2>1, SinkHolds
  <2> QED BY <1>2, <1>4, <2>2 DEF Pop, Headless
<1>5. \A n \in Nat : n >= 1 => n = 1 \/ n > 1  OBVIOUS
<1> QED BY <1>1, <1>3, <1>4, <1>5

-----------------------------------------------------------------------------
(***************************************************************************)
(* The order of the heap, for deadlines that are numbers.                  *)
(***************************************************************************)
Timely == [deadline : Nat, sequence : Nat, message : Text]

\* Items with numbers for deadlines are totally ordered, which with NaN they are not.
LEMMA LessOrders ==
  ASSUME NEW a \in Timely, NEW b \in Timely, NEW c \in Timely
  PROVE  /\ ~Less(a, a)
         /\ Less(a, b) => ~Less(b, a)
         /\ ~Less(a, b) /\ ~Less(b, c) => ~Less(a, c)
<1>1. \A x \in Timely : x.deadline \in Nat /\ x.sequence \in Nat  BY DEF Timely
<1>2. \A x, y \in Timely : Less(x, y) <=> \/ x.deadline < y.deadline
                                          \/ x.deadline = y.deadline /\ x.sequence < y.sequence
  BY <1>1 DEF Less, NaN
<1> QED BY <1>1, <1>2

\* A number is the parent of its double and of that plus one.
LEMMA Parents ==
  ASSUME NEW n \in Nat, NEW k \in 2 .. n
  PROVE  /\ k \div 2 \in 1 .. n /\ k \div 2 < k
         /\ \A p \in Nat : k \div 2 = p <=> k = 2 * p \/ k = 2 * p + 1
<1> QED OBVIOUS

Heap(h) == \A k \in 2 .. Len(h) : ~Less(h[k], h[k \div 2])

\* The children of p, and those of the others, are not less than the parent of p.
Above(h, p) == p > 1 => \A k \in 2 .. Len(h) : k \div 2 = p => ~Less(h[k], h[p \div 2])

\* A heap, but that the item at p may be less than its parent.
HeapButFor(h, p) ==
  /\ \A k \in 2 .. Len(h) : k # p => ~Less(h[k], h[k \div 2])
  /\ Above(h, p)

\* A heap, but that any item may stand at p.
HeapAround(h, p) ==
  /\ \A k \in 2 .. Len(h) : k # p /\ k \div 2 # p => ~Less(h[k], h[k \div 2])
  /\ Above(h, p)

\* _siftdown repairs a heap whose one item may be less than its parent.
LEMMA RiseMakesHeap ==
  ASSUME NEW hp \in Places, NEW S \in SUBSET Timely, Holds(hp[1], S),
         hp[2] \in 1 .. Len(hp[1]), HeapButFor(hp[1], hp[2])
  PROVE  Heap(Rise[hp])
<1> DEFINE I == {gq \in Places : /\ Holds(gq[1], S) /\ gq[2] \in 1 .. Len(gq[1])
                                 /\ HeapButFor(gq[1], gq[2])}
<1>1. ASSUME NEW gq \in I \ RiseEnds PROVE Risen(gq) \in I
  <2> DEFINE h == gq[1]
             p == gq[2]
             q == p \div 2
             g == Exchange(h, p, q)
  <2>1. /\ h \in Seq(Item) /\ Len(h) \in Nat /\ p \in 2 .. Len(h) /\ q \in 1 .. p - 1
        /\ Less(h[p], h[q]) /\ Risen(gq) \in Places
    BY RisenIs
  <2>2. p \in 1 .. Len(h) /\ q \in 1 .. Len(h) /\ p # q  BY <2>1
  <2>3. Holds(h, S) /\ HeapButFor(h, p)  OBVIOUS
  <2>4. Holds(g, S)  BY <2>2, <2>3, ExchangeHolds
  <2>5. /\ Len(g) = Len(h)
        /\ \A k \in 1 .. Len(h) : g[k] = IF k = q THEN h[p] ELSE IF k = p THEN h[q] ELSE h[k]
    <3>1. g = Exchange(h, p, q)  OBVIOUS
    <3> HIDE DEF h, p, q, g
    <3>2. h \in Seq(Item) /\ p \in 1 .. Len(h) /\ q \in 1 .. Len(h)  BY <2>1, <2>2
    <3>3. Exchanged(h, p, q, Exchange(h, p, q))  BY ONLY <3>2, ExchangeExchanges
    <3> QED BY ONLY <3>1, <3>3 DEF Exchanged
  <2>6. \A k \in 1 .. Len(h) : h[k] \in Timely  BY <2>3 DEF Holds
  <2>7. \A k \in 2 .. Len(h) : k \in 1 .. Len(h) /\ k \div 2 \in 1 .. Len(h) /\ k \div 2 < k
    BY <2>1, Parents
  <2>8. Risen(gq) = <<g, q>>  BY DEF Risen
  <2> HIDE DEF h, p, g, q
  <2>9. ASSUME NEW k \in 2 .. Len(g), k # q PROVE ~Less(g[k], g[k \div 2])
    <3>1. k \in 2 .. Len(h) /\ k \in 1 .. Len(h) /\ k \div 2 \in 1 .. Len(h)  BY <2>5, <2>7
    <3>2. CASE k = p
      <4>1. g[k] = h[q] /\ g[k \div 2] = h[p]  BY <2>2, <2>5, <3>2 DEF q
      <4> QED BY <2>1, <2>2, <2>6, <4>1, LessOrders
    <3>3. CASE k # p /\ k \div 2 = p
      <4>1. g[k] = h[k] /\ g[k \div 2] = h[q]  BY <2>2, <2>5, <2>9, <3>1, <3>3
      <4>2. p > 1 /\ ~Less(h[k], h[q])  BY <2>1, <2>3, <3>1, <3>3 DEF HeapButFor, Above, q
      <4> QED BY <4>1, <4>2
    <3>4. CASE k # p /\ k \div 2 = q
      <4>1. g[k] = h[k] /\ g[k \div 2] = h[p]  BY <2>2, <2>5, <2>9, <3>1, <3>4
      <4>2. ~Less(h[k], h[q])  BY <2>3, <3>1, <3>4 DEF HeapButFor
      <4>3. ~Less(h[q], h[p])  BY <2>1, <2>2, <2>6, LessOrders
      <4> QED BY <2>2, <2>6, <3>1, <4>1, <4>2, <4>3, LessOrders
    <3>5. CASE k # p /\ k \div 2 # p /\ k \div 2 # q
      <4>1. g[k] = h[k] /\ g[k \div 2] = h[k \div 2]  BY <2>2, <2>5, <2>9, <3>1, <3>5
      <4> QED BY <2>3, <3>1, <3>5, <4>1 DEF HeapButFor
    <3> QED BY <3>2, <3>3, <3>4, <3>5
  <2>10. ASSUME q > 1, NEW k \in 2 .. Len(g), k \div 2 = q PROVE ~Less(g[k], g[q \div 2])
    <3>1. k \in 2 .. Len(h) /\ k \in 1 .. Len(h)  BY <2>5, <2>7
    <3>2. q \in 2 .. Len(h)  BY <2>1, <2>10
    <3>3. q \div 2 \in 1 .. Len(h) /\ q \div 2 < q  BY <2>7, <3>2
    <3>4. g[q \div 2] = h[q \div 2]  BY <2>1, <2>5, <3>3
    <3>5. ~Less(h[q], h[q \div 2])  BY <2>2, <2>3, <3>2 DEF HeapButFor
    <3>6. CASE k = p
      <4>1. g[k] = h[q]  BY <2>2, <2>5, <3>6
      <4> QED BY <3>4, <3>5, <4>1
    <3>7. CASE k # p
      <4>1. k # q  BY <2>7, <2>10, <3>1
      <4>2. g[k] = h[k]  BY <2>5, <3>1, <3>7, <4>1
      <4>3. ~Less(h[k], h[q])  BY <2>3, <2>10, <3>1, <3>7 DEF HeapButFor
      <4> QED BY <2>2, <2>6, <3>1, <3>3, <3>4, <3>5, <4>2, <4>3, LessOrders
    <3> QED BY <3>6, <3>7
  <2>11. HeapButFor(g, q)  BY <2>9, <2>10 DEF HeapButFor, Above
  <2>12. q \in 1 .. Len(g)  BY <2>2, <2>5
  <2> QED BY <2>1, <2>4, <2>8, <2>11, <2>12
<1>2. hp \in I /\ I \in SUBSET Places  OBVIOUS
<1> HIDE DEF I
<1>3. PICK e \in I \cap RiseEnds : Rise[hp] = e[1]  BY <1>1, <1>2, RiseKeeps
<1>4. HeapButFor(e[1], e[2]) /\ e \in RiseEnds  BY <1>3 DEF I
<1>5. ASSUME NEW k \in 2 .. Len(e[1]) PROVE ~Less(e[1][k], e[1][k \div 2])
  <2>1. CASE k = e[2]  BY <1>4, <2>1 DEF RiseEnds
  <2>2. CASE k # e[2]  BY <1>4, <2>2 DEF HeapButFor
  <2> QED BY <2>1, <2>2
<1> QED BY <1>3, <1>5 DEF Heap

\* _siftup repairs a heap in which any item may stand at one place: what rises after
\* it has sunk to a leaf stops at the latest where it began.
LEMMA SinkMakesHeap ==
  ASSUME NEW hp \in Places, NEW S \in SUBSET Timely, Holds(hp[1], S),
         hp[2] \in 1 .. Len(hp[1]), HeapAround(hp[1], hp[2])
  PROVE  Heap(Sink[hp])
<1> DEFINE I == {gq \in Places : /\ Holds(gq[1], S) /\ gq[2] \in 1 .. Len(gq[1])
                                 /\ HeapAround(gq[1], gq[2])}
<1>1. ASSUME NEW gq \in I \ SinkEnds PROVE Sunk(gq) \in I
  <2> DEFINE h == gq[1]
             p == gq[2]
             c == Child(gq)
             g == Exchange(h, p, c)
  <2>1. /\ h \in Seq(Item) /\ Len(h) \in Nat /\ p \in 1 .. Len(h)
        /\ c \in {2 * p, 2 * p + 1} /\ c \in 1 .. Len(h) /\ Sunk(gq) \in Places
    BY SunkIs
  <2>2. c \in 2 .. Len(h) /\ p < c /\ p # c /\ c \div 2 = p
    <3> HIDE DEF h, p, c
    <3> QED BY ONLY <2>1
  <2>3. Holds(h, S) /\ HeapAround(h, p)  OBVIOUS
  <2>4. Holds(g, S)  BY <2>1, <2>3, ExchangeHolds
  <2>5. /\ Len(g) = Len(h)
        /\ \A k \in 1 .. Len(h) : g[k] = IF k = c THEN h[p] ELSE IF k = p THEN h[c] ELSE h[k]
    <3>1. g = Exchange(h, p, c)  OBVIOUS
    <3> HIDE DEF h, p, c, g
    <3>2. h \in Seq(Item) /\ p \in 1 .. Len(h) /\ c \in 1 .. Len(h)  BY <2>1
    <3>3. Exchanged(h, p, c, Exchange(h, p, c))  BY ONLY <3>2, ExchangeExchanges
    <3> QED BY ONLY <3>1, <3>3 DEF Exchanged
  <2>6. \A k \in 1 .. Len(h) : h[k] \in Timely  BY <2>3 DEF Holds
  <2>7. \A k \in 2 .. Len(h) : k \in 1 .. Len(h) /\ k \div 2 \in 1 .. Len(h) /\ k \div 2 < k
    BY <2>1, Parents
  <2>8. Sunk(gq) = <<g, c>>  BY DEF Sunk
  <2>9. \A k \in 2 .. Len(h) : k \div 2 = p => ~Less(h[k], h[c])
    <3> SUFFICES ASSUME NEW k \in 2 .. Len(h), k \div 2 = p PROVE ~Less(h[k], h[c])
      OBVIOUS
    <3>1. k \in 1 .. Len(h) /\ p \in Nat  BY <2>1, <2>7
    <3>2. k = 2 * p \/ k = 2 * p + 1  BY <2>1, <3>1, Parents
    <3>3. CASE k = c  BY <2>1, <2>6, <3>3, LessOrders
    <3>4. CASE k # c
      <4>1. 2 * p \in 1 .. Len(h) /\ 2 * p + 1 \in 1 .. Len(h) /\ 2 * p < Len(h)
        BY <2>1, <3>1, <3>2, <3>4
      <4>2. CASE Less(h[2 * p], h[2 * p + 1])
        <5>1. c = 2 * p  BY <4>2 DEF Child, SmallerChild
        <5>2. k = 2 * p + 1  BY <3>2, <3>4, <5>1
        <5> QED BY <2>6, <4>1, <4>2, <5>1, <5>2, LessOrders
      <4>3. CASE ~Less(h[2 * p], h[2 * p + 1])
        <5>1. c = 2 * p + 1  BY <4>1, <4>3 DEF Child, SmallerChild
        <5>2. k = 2 * p  BY <3>2, <3>4, <5>1
        <5> QED BY <4>3, <5>1, <5>2
      <4> QED BY <4>2, <4>3
    <3> QED BY <3>3, <3>4
  <2> HIDE DEF h, p, g, c
  <2>10. ASSUME NEW k \in 2 .. Len(g), k # c, k \div 2 # c PROVE ~Less(g[k], g[k \div 2])
    <3>1. k \in 2 .. Len(h) /\ k \in 1 .. Len(h) /\ k \div 2 \in 1 .. Len(h) /\ k \div 2 < k
      BY <2>5, <2>7
    <3>2. CASE k = p
      <4>1. k \div 2 # p  BY <3>1, <3>2
      <4>2. g[k] = h[c] /\ g[k \div 2] = h[p \div 2]  BY <2>1, <2>2, <2>5, <2>10, <3>1, <3>2, <4>1
      <4>3. p > 1  BY <3>1, <3>2
      <4> QED BY <2>2, <2>3, <4>2, <4>3 DEF HeapAround, Above
    <3>3. CASE k # p /\ k \div 2 = p
      <4>1. g[k] = h[k] /\ g[k \div 2] = h[c]  BY <2>1, <2>2, <2>5, <2>10, <3>1, <3>3
      <4> QED BY <2>9, <3>1, <3>3, <4>1
    <3>4. CASE k # p /\ k \div 2 # p
      <4>1. g[k] = h[k] /\ g[k \div 2] = h[k \div 2]  BY <2>5, <2>10, <3>1, <3>4
      <4> QED BY <2>3, <3>1, <3>4, <4>1 DEF HeapAround
    <3> QED BY <3>2, <3>3, <3>4
  <2>11. ASSUME NEW k \in 2 .. Len(g), k \div 2 = c PROVE ~Less(g[k], g[c \div 2])
    <3>1. k \in 2 .. Len(h) /\ k \in 1 .. Len(h) /\ k \div 2 < k  BY <2>5, <2>7
    <3>2. k # c /\ k # p /\ k \div 2 # p  BY <2>1, <2>2, <2>11, <3>1
    <3>3. g[k] = h[k] /\ g[c \div 2] = h[c]  BY <2>1, <2>2, <2>5, <3>1, <3>2
    <3>4. ~Less(h[k], h[c])  BY <2>3, <2>11, <3>1, <3>2 DEF HeapAround
    <3> QED BY <3>3, <3>4
  <2>12. HeapAround(g, c)  BY <2>10, <2>11 DEF HeapAround, Above
  <2>13. c \in 1 .. Len(g)  BY <2>1, <2>5
  <2> QED BY <2>1, <2>4, <2>8, <2>12, <2>13
<1>2. hp \in I /\ I \in SUBSET Places  OBVIOUS
<1> HIDE DEF I
<1>3. PICK e \in I \cap SinkEnds : Sink[hp] = Rise[e]  BY <1>1, <1>2, SinkKeeps
<1>4. /\ e \in Places /\ Holds(e[1], S) /\ e[2] \in 1 .. Len(e[1]) /\ HeapAround(e[1], e[2])
      /\ Len(e[1]) < 2 * e[2]
  BY <1>3 DEF I, SinkEnds
<1>5. \A k \in 2 .. Len(e[1]) : k \div 2 # e[2]
  <2>1. Len(e[1]) \in Nat /\ e[2] \in Nat  BY <1>4 DEF Places
  <2> QED BY <1>4, <2>1, Parents
<1>6. HeapButFor(e[1], e[2])  BY <1>4, <1>5 DEF HeapAround, HeapButFor
<1> QED BY <1>3, <1>4, <1>6, RiseMakesHeap

\* heappush keeps the order of the heap.
LEMMA PushMakesHeap ==
  ASSUME NEW h, NEW S \in SUBSET Timely, Holds(h, S), Heap(h), NEW item \in Timely \ S
  PROVE  Heap(Push(h, item))
<1> DEFINE g == Append(h, item)
           n == Len(h) + 1
<1>1. h \in Seq(Item) /\ Len(h) \in Nat /\ item \in Item
  BY DEF Holds, Timely, Item, Time
<1>2. g \in Seq(Item) /\ Len(g) = n /\ g[n] = item /\ \A k \in 1 .. Len(h) : g[k] = h[k]
  BY <1>1
<1>3. 1 .. n = (1 .. Len(h)) \cup {n} /\ n \in 1 .. n /\ n \in Nat \ {0}  BY <1>1
<1>4. <<g, n>> \in Places  BY <1>2, <1>3 DEF Places
<1> HIDE DEF g
<1>5. {g[k] : k \in 1 .. Len(g)} = S \cup {item}  BY <1>2, <1>3 DEF Holds
<1>6. \A k \in 1 .. Len(h) : h[k] # item  BY DEF Holds
<1>7. \A j, k \in 1 .. Len(g) : g[j] = g[k] => j = k  BY <1>2, <1>3, <1>6 DEF Holds
<1>8. Holds(g, S \cup {item})  BY <1>2, <1>5, <1>7 DEF Holds
<1>9. \A k \in 2 .. Len(g) : k # n => ~Less(g[k], g[k \div 2])
  <2> SUFFICES ASSUME NEW k \in 2 .. Len(g), k # n PROVE ~Less(g[k], g[k \div 2])
    OBVIOUS
  <2>1. k \in 2 .. Len(h) /\ k \in 1 .. Len(h)  BY <1>1, <1>2
  <2>2. k \div 2 \in 1 .. Len(h)  BY <1>1, <2>1, Parents
  <2> QED BY <1>2, <2>1, <2>2 DEF Heap
<1>10. \A k \in 2 .. Len(g) : k \div 2 # n
  <2> SUFFICES ASSUME NEW k \in 2 .. Len(g) PROVE k \div 2 # n
    OBVIOUS
  <2>1. n \in Nat /\ k \in 2 .. n  BY <1>2, <1>3
  <2>2. k \div 2 < k  BY ONLY <2>1, Parents
  <2> QED BY ONLY <2>1, <2>2
<1>11. HeapButFor(g, n)  BY <1>9, <1>10 DEF HeapButFor, Above
<1>12. S \cup {item} \in SUBSET Timely  OBVIOUS
<1> HIDE DEF n
<1>13. Heap(Rise[<<g, n>>])  BY <1>2, <1>3, <1>4, <1>8, <1>11, <1>12, RiseMakesHeap
<1> QED BY <1>13 DEF Push, g, n

\* heappop keeps it.
LEMMA PopMakesHeap ==
  ASSUME NEW h, NEW S \in SUBSET Timely, Holds(h, S), Heap(h), h # <<>>
  PROVE  Heap(Pop(h))
<1>1. h \in Seq(Item) /\ Len(h) \in Nat /\ Len(h) >= 1  BY DEF Holds
<1>2. CASE Len(h) = 1  BY <1>2 DEF Pop, Heap
<1>3. CASE Len(h) > 1
  <2> DEFINE g == Headless(h)
  <2>1. g \in Seq(Item) /\ Len(g) = Len(h) - 1 /\ <<g, 1>> \in Places /\ Holds(g, S \ {h[1]})
    BY <1>3, HeadlessIs
  <2>2. \A k \in 2 .. Len(g) : g[k] = h[k]  BY <1>1, <2>1 DEF Headless
  <2> HIDE DEF g
  <2>3. ASSUME NEW k \in 2 .. Len(g), k \div 2 # 1 PROVE ~Less(g[k], g[k \div 2])
    <3>1. Len(g) \in Nat /\ k \in 2 .. Len(h)  BY <1>1, <2>1
    <3>2. k \div 2 \in 1 .. Len(g)  BY <3>1, Parents
    <3>3. k \div 2 \in 2 .. Len(g)  BY <2>3, <3>1, <3>2
    <3> QED BY <2>2, <3>1, <3>3 DEF Heap
  <2>4. HeapAround(g, 1)  BY <2>3 DEF HeapAround, Above
  <2>5. 1 \in 1 .. Len(g)  BY <1>1, <1>3, <2>1
  <2>6. Heap(Sink[<<g, 1>>])
    <3>1. S \ {h[1]} \in SUBSET Timely  OBVIOUS
    <3> QED BY <2>1, <2>4, <2>5, <3>1, SinkMakesHeap
  <2> QED BY <1>3, <2>6 DEF Pop, g, Headless
<1>4. \A n \in Nat : n >= 1 => n = 1 \/ n > 1  OBVIOUS
<1> QED BY <1>1, <1>2, <1>3, <1>4

\* Nothing in a heap is less than its root.
LEMMA RootIsLeast ==
  ASSUME NEW h, NEW S \in SUBSET Timely, Holds(h, S), Heap(h), NEW k \in 1 .. Len(h)
  PROVE  ~Less(h[k], h[1])
<1> DEFINE Bad == {j \in 1 .. Len(h) : Less(h[j], h[1])}
<1> SUFFICES ASSUME Bad # {} PROVE FALSE
  OBVIOUS
<1>1. h \in Seq(Item) /\ Len(h) \in Nat /\ \A j \in 1 .. Len(h) : h[j] \in Timely  BY DEF Holds
<1>2. Bad \in SUBSET Nat  OBVIOUS
<1>3. PICK j \in Bad : \A i \in Bad : j <= i  BY <1>2, Least
<1>4. j \in 1 .. Len(h) /\ Less(h[j], h[1]) /\ 1 \in 1 .. Len(h)  BY <1>1
<1>5. j # 1  BY <1>1, <1>4, LessOrders
<1>6. j \in 2 .. Len(h)  BY <1>1, <1>4, <1>5
<1>7. j \div 2 \in 1 .. Len(h) /\ j \div 2 < j  BY <1>1, <1>6, Parents
<1>8. ~(j <= j \div 2)  BY <1>6, <1>7
<1>9. ~Less(h[j \div 2], h[1])  BY <1>3, <1>7, <1>8
<1>10. ~Less(h[j], h[j \div 2])  BY <1>6 DEF Heap
<1> QED BY <1>1, <1>4, <1>7, <1>9, <1>10, LessOrders

-----------------------------------------------------------------------------
(***************************************************************************)
(* The queue when the loop begins.                                         *)
(***************************************************************************)
\* The function f with a at 0, and g of the number and of the value before at others.
Iterates(f, n, a, g) == f[0] = a /\ \A k \in 1 .. n : f[k] = g[<<k, f[k - 1]>>]

\* There is such a function.
LEMMA PrimitiveRecursion ==
  ASSUME NEW n \in Nat, NEW A, NEW a \in A, NEW g \in [(1 .. n) \X A -> A]
  PROVE  \E f : f \in [0 .. n -> A] /\ Iterates(f, n, a, g)
<1> DEFINE S == {m \in Nat : m <= n => \E f : f \in [0 .. m -> A] /\ Iterates(f, m, a, g)}
<1>1. 0 \in S
  <2> DEFINE f == [k \in 0 .. 0 |-> a]
  <2>1. f \in [0 .. 0 -> A] /\ f[0] = a /\ 1 .. 0 = {}  OBVIOUS
  <2>2. Iterates(f, 0, a, g)  BY <2>1 DEF Iterates
  <2> QED BY <2>1, <2>2
<1>2. ASSUME NEW m \in Nat, m \in S PROVE m + 1 \in S
  <2> SUFFICES ASSUME m + 1 <= n PROVE \E f : f \in [0 .. m + 1 -> A] /\ Iterates(f, m + 1, a, g)
    OBVIOUS
  <2>1. PICK e : e \in [0 .. m -> A] /\ Iterates(e, m, a, g)  BY <1>2
  <2> DEFINE f == [k \in 0 .. m + 1 |-> IF k = m + 1 THEN g[<<m + 1, e[m]>>] ELSE e[k]]
  <2>2. e[m] \in A /\ m + 1 \in 1 .. n  BY <2>1
  <2>3. g[<<m + 1, e[m]>>] \in A  BY <2>2
  <2>4. \A k \in 0 .. m + 1 : k # m + 1 => k \in 0 .. m  OBVIOUS
  <2>5. f \in [0 .. m + 1 -> A]  BY <2>1, <2>3, <2>4
  <2>6. f[0] = a  BY <2>1 DEF Iterates
  <2>7. ASSUME NEW k \in 1 .. m + 1 PROVE f[k] = g[<<k, f[k - 1]>>]
    <3>1. k \in 0 .. m + 1 /\ k - 1 \in 0 .. m + 1 /\ k - 1 # m + 1  OBVIOUS
    <3>2. f[k - 1] = e[k - 1]  BY <3>1
    <3>3. CASE k = m + 1
      <4>1. f[k] = g[<<k, e[m]>>] /\ k - 1 = m  BY <3>1, <3>3
      <4> QED BY <3>2, <4>1
    <3>4. CASE k # m + 1
      <4>1. f[k] = e[k] /\ k \in 1 .. m  BY <3>1, <3>4
      <4>2. e[k] = g[<<k, e[k - 1]>>]  BY <2>1, <4>1 DEF Iterates
      <4> QED BY <3>2, <4>1, <4>2
    <3> QED BY <3>3, <3>4
  <2> HIDE DEF f
  <2>8. Iterates(f, m + 1, a, g)  BY <2>6, <2>7 DEF Iterates
  <2> QED BY <2>5, <2>8
<1>3. Nat \subseteq S
  <2> HIDE DEF S
  <2> QED BY <1>1, <1>2, Inductive
<1> QED BY <1>3

LEMMA ScriptIs ==
  /\ Len(Script) \in Nat
  /\ \A n \in 1 .. Len(Script) : Script[n].delay \in Time /\ Script[n].send \in Text
<1> DEFINE Command == [delay : Time, send : Text]
<1>1. \A c \in Command : c.delay \in Time /\ c.send \in Text  OBVIOUS
<1>2. Script \in Seq(Command)  BY SchedulerAssumption
<1> HIDE DEF Command
<1>3. Len(Script) \in Nat /\ \A n \in 1 .. Len(Script) : Script[n] \in Command  BY <1>2
<1> QED BY <1>1, <1>3

\* Delays add up.
LEMMA ElapsedIs ==
  /\ elapsed[0] = 0
  /\ \A n \in 1 .. Len(Script) : elapsed[n] = Plus(elapsed[n - 1], Script[n].delay)
  /\ \A n \in 0 .. Len(Script) : elapsed[n] \in Time
<1> DEFINE N == Len(Script)
           g == [x \in (1 .. N) \X Time |-> Plus(x[2], Script[x[1]].delay)]
           Body(f, n) == IF n = 0 THEN 0 ELSE Plus(f[n - 1], Script[n].delay)
<1>1. \A s, t \in Time : Plus(s, t) \in Time  BY DEF Plus, Time, NaN
<1>2. \A x \in (1 .. N) \X Time : Plus(x[2], Script[x[1]].delay) \in Time  BY <1>1, ScriptIs
<1>3. g \in [(1 .. N) \X Time -> Time]  BY <1>2
<1>4. 0 \in Time /\ N \in Nat  BY ScriptIs DEF Time
<1>5. \A n \in 1 .. N, t \in Time : g[<<n, t>>] = Plus(t, Script[n].delay)  OBVIOUS
<1> HIDE DEF g
<1>6. PICK f : f \in [0 .. N -> Time] /\ Iterates(f, N, 0, g)
  <2> HIDE DEF N
  <2> QED BY <1>3, <1>4, PrimitiveRecursion
<1>7. ASSUME NEW n \in 0 .. N PROVE f[n] = Body(f, n)
  <2>1. CASE n = 0  BY <1>6, <2>1 DEF Iterates
  <2>2. CASE n # 0
    <3>1. n \in 1 .. N /\ n - 1 \in 0 .. N  BY <1>4, <2>2
    <3>2. f[n - 1] \in Time /\ f[n] = g[<<n, f[n - 1]>>]  BY <1>6, <3>1 DEF Iterates
    <3> QED BY <1>5, <2>2, <3>1, <3>2
  <2> QED BY <2>1, <2>2
<1> HIDE DEF Body
<1>8. f = [n \in 0 .. N |-> Body(f, n)]  BY <1>6, <1>7
<1>9. elapsed = CHOOSE h : h = [n \in 0 .. N |-> Body(h, n)]  BY DEF elapsed, Body
<1>10. elapsed = [n \in 0 .. N |-> Body(elapsed, n)]  BY <1>8, <1>9
<1>11. \A n \in 0 .. N : elapsed[n] = Body(elapsed, n)  BY <1>10
<1>12. elapsed[0] = 0  BY <1>4, <1>11 DEF Body
<1>13. \A n \in 1 .. N : elapsed[n] = Plus(elapsed[n - 1], Script[n].delay)  BY <1>4, <1>11 DEF Body
<1> DEFINE S == {n \in Nat : n <= N => elapsed[n] \in Time}
<1>14. 0 \in S  BY <1>4, <1>12
<1>15. ASSUME NEW n \in Nat, n \in S PROVE n + 1 \in S
  <2> SUFFICES ASSUME n + 1 <= N PROVE elapsed[n + 1] \in Time
    OBVIOUS
  <2>1. n + 1 \in 1 .. N /\ (n + 1) - 1 = n /\ elapsed[n] \in Time  BY <1>4, <1>15
  <2>2. elapsed[n + 1] = Plus(elapsed[n], Script[n + 1].delay)  BY <1>13, <2>1
  <2> QED BY <1>1, <2>1, <2>2, ScriptIs
<1>16. Nat \subseteq S
  <2> HIDE DEF S
  <2> QED BY <1>14, <1>15, Inductive
<1>17. \A n \in 0 .. N : elapsed[n] \in Time  BY <1>4, <1>16
<1> QED BY <1>12, <1>13, <1>17

\* A script whose delays are numbers.
Timed == \A n \in 1 .. Len(Script) : Script[n].delay # NaN

LEMMA ElapsedIsANumber == Timed => \A n \in 0 .. Len(Script) : elapsed[n] \in Nat
<1> SUFFICES ASSUME Timed PROVE \A n \in 0 .. Len(Script) : elapsed[n] \in Nat
  OBVIOUS
<1> DEFINE N == Len(Script)
           S == {n \in Nat : n <= N => elapsed[n] \in Nat}
<1>1. N \in Nat  BY ScriptIs
<1>2. 0 \in S  BY ElapsedIs
<1>3. ASSUME NEW n \in Nat, n \in S PROVE n + 1 \in S
  <2> SUFFICES ASSUME n + 1 <= N PROVE elapsed[n + 1] \in Nat
    OBVIOUS
  <2>1. n + 1 \in 1 .. N /\ (n + 1) - 1 = n /\ elapsed[n] \in Nat  BY <1>1, <1>3
  <2>2. elapsed[n + 1] = Plus(elapsed[n], Script[n + 1].delay)  BY <2>1, ElapsedIs
  <2>3. Script[n + 1].delay \in Nat  BY <2>1, ScriptIs DEF Timed, Time
  <2> QED BY <2>1, <2>2, <2>3 DEF Plus, NaN
<1>4. Nat \subseteq S
  <2> HIDE DEF S
  <2> QED BY <1>2, <1>3, Inductive
<1> QED BY <1>1, <1>4

\* Every message of the schedule has its place in it for its sequence number.
LEMMA ScheduleIs ==
  /\ Len(Schedule) \in Nat /\ DOMAIN Schedule = 1 .. Len(Schedule)
  /\ \A i \in 1 .. Len(Schedule) : Schedule[i] \in Item /\ Schedule[i].sequence = i
  /\ Timed => \A i \in 1 .. Len(Schedule) : Schedule[i] \in Timely
<1> DEFINE N == SentFirst + Len(Script)
<1>1. SentFirst \in {0, 1} /\ Len(Script) \in Nat /\ N \in Nat  BY ScriptIs DEF SentFirst
<1>2. SEND_DELAY \in Nat /\ SendText \in Text  BY SchedulerAssumption
<1>3. Len(Schedule) = N /\ DOMAIN Schedule = 1 .. N  BY <1>1 DEF Schedule
<1>4. \A i \in 1 .. N : Schedule[i] = IF i <= SentFirst THEN Scheduled(i, SEND_DELAY, SendText)
                                      ELSE Scheduled(i, elapsed[i - SentFirst], Script[i - SentFirst].send)
  BY DEF Schedule
<1>5. ASSUME NEW i \in 1 .. N
      PROVE  /\ Schedule[i] \in Item /\ Schedule[i].sequence = i
             /\ Timed => Schedule[i] \in Timely
  <2>1. CASE i <= SentFirst
    <3>1. Schedule[i] = Scheduled(i, SEND_DELAY, SendText)  BY <1>4, <2>1
    <3> QED BY <1>1, <1>2, <3>1 DEF Scheduled, Item, Timely, Time
  <2>2. CASE ~(i <= SentFirst)
    <3> DEFINE n == i - SentFirst
    <3>1. n \in 1 .. Len(Script) /\ n \in 0 .. Len(Script)  BY <1>1, <2>2
    <3> HIDE DEF n
    <3>2. Schedule[i] = Scheduled(i, elapsed[n], Script[n].send)  BY <1>4, <2>2 DEF n
    <3>3. elapsed[n] \in Time /\ Script[n].send \in Text  BY <3>1, ElapsedIs, ScriptIs
    <3>4. Timed => elapsed[n] \in Nat  BY <3>1, ElapsedIsANumber
    <3> QED BY <1>1, <3>2, <3>3, <3>4 DEF Scheduled, Item, Timely
  <2> QED BY <2>1, <2>2
<1> QED BY <1>1, <1>3, <1>5

\* The messages up to the n-th.
FirstMessages(n) == {Schedule[i] : i \in 1 .. n}

\* The queue holds every message of the schedule when run_sim begins, as a heap if
\* their deadlines are numbers.
LEMMA StartupHolds ==
  /\ Holds(StartupQueue, FirstMessages(Len(Schedule)))
  /\ Timed => Heap(StartupQueue)
<1> DEFINE N == Len(Schedule)
           g == [x \in (1 .. N) \X Seq(Item) |-> Push(x[2], Schedule[x[1]])]
           Body(f, n) == IF n = 0 THEN <<>> ELSE Push(f[n - 1], Schedule[n])
<1>1. N \in Nat /\ \A i \in 1 .. N : Schedule[i] \in Item /\ Schedule[i].sequence = i
  BY ScheduleIs
<1>2. ASSUME NEW h \in Seq(Item), NEW item \in Item PROVE Push(h, item) \in Seq(Item)
  <2>1. <<Append(h, item), Len(h) + 1>> \in Places  BY DEF Places
  <2> QED BY <2>1, RiseType DEF Push
<1>3. \A x \in (1 .. N) \X Seq(Item) : Push(x[2], Schedule[x[1]]) \in Seq(Item)
  <2> HIDE DEF N
  <2> QED BY <1>1, <1>2
<1>4. g \in [(1 .. N) \X Seq(Item) -> Seq(Item)]  BY <1>3
<1>5. \A n \in 1 .. N, h \in Seq(Item) : g[<<n, h>>] = Push(h, Schedule[n])  OBVIOUS
<1>6. <<>> \in Seq(Item)  OBVIOUS
<1> HIDE DEF g
<1>7. PICK f : f \in [0 .. N -> Seq(Item)] /\ Iterates(f, N, <<>>, g)
  <2> HIDE DEF N
  <2> QED BY <1>1, <1>4, <1>6, PrimitiveRecursion
<1>8. ASSUME NEW n \in 0 .. N PROVE f[n] = Body(f, n)
  <2>1. CASE n = 0  BY <1>7, <2>1 DEF Iterates
  <2>2. CASE n # 0
    <3>1. n \in 1 .. N /\ n - 1 \in 0 .. N  BY <1>1, <2>2
    <3>2. f[n - 1] \in Seq(Item) /\ f[n] = g[<<n, f[n - 1]>>]  BY <1>7, <3>1 DEF Iterates
    <3> QED BY <1>5, <2>2, <3>1, <3>2
  <2> QED BY <2>1, <2>2
<1> HIDE DEF Body
<1>9. f = [n \in 0 .. N |-> Body(f, n)]  BY <1>7, <1>8
<1>10. filled = CHOOSE h : h = [n \in 0 .. N |-> Body(h, n)]  BY DEF filled, Body
<1>11. filled = [n \in 0 .. N |-> Body(filled, n)]  BY <1>9, <1>10
<1>12. \A n \in 0 .. N : filled[n] = Body(filled, n)  BY <1>11
<1>13. filled[0] = <<>>  BY <1>1, <1>12 DEF Body
<1>14. \A n \in 1 .. N : filled[n] = Push(filled[n - 1], Schedule[n])  BY <1>1, <1>12 DEF Body
<1> DEFINE S == {n \in Nat : n <= N => /\ Holds(filled[n], FirstMessages(n))
                                       /\ Timed => Heap(filled[n])}
<1>15. 0 \in S
  <2>1. FirstMessages(0) = {}  BY DEF FirstMessages
  <2>2. Holds(<<>>, {}) /\ Heap(<<>>)  BY DEF Holds, Heap
  <2> QED BY <1>13, <2>1, <2>2
<1>16. ASSUME NEW n \in Nat, n \in S PROVE n + 1 \in S
  <2> SUFFICES ASSUME n + 1 <= N PROVE /\ Holds(filled[n + 1], FirstMessages(n + 1))
                                       /\ Timed => Heap(filled[n + 1])
    OBVIOUS
  <2>1. n + 1 \in 1 .. N /\ (n + 1) - 1 = n /\ 1 .. n + 1 = (1 .. n) \cup {n + 1} /\ 1 .. n \subseteq 1 .. N
    BY <1>1
  <2>2. filled[n + 1] = Push(filled[n], Schedule[n + 1])  BY <1>14, <2>1
  <2>3. Holds(filled[n], FirstMessages(n)) /\ (Timed => Heap(filled[n]))  BY <1>1, <1>16
  <2>4. Schedule[n + 1] \in Item \ FirstMessages(n)
    <3>1. \A i \in 1 .. n : Schedule[i].sequence # Schedule[n + 1].sequence  BY <1>1, <2>1
    <3>2. Schedule[n + 1] \notin FirstMessages(n)  BY <3>1 DEF FirstMessages
    <3>3. Schedule[n + 1] \in Item  BY <1>1, <2>1
    <3> QED BY <3>2, <3>3
  <2>5. FirstMessages(n + 1) = FirstMessages(n) \cup {Schedule[n + 1]}  BY <2>1 DEF FirstMessages
  <2>6. Holds(filled[n + 1], FirstMessages(n + 1))  BY <2>2, <2>3, <2>4, <2>5, PushHolds
  <2>7. ASSUME Timed PROVE Heap(filled[n + 1])
    <3>1. \A i \in 1 .. N : Schedule[i] \in Timely  BY <2>7, ScheduleIs
    <3>2. FirstMessages(n) \in SUBSET Timely  BY <2>1, <3>1 DEF FirstMessages
    <3>3. Schedule[n + 1] \in Timely \ FirstMessages(n)  BY <2>1, <2>4, <3>1
    <3> QED BY <2>2, <2>3, <2>7, <3>2, <3>3, PushMakesHeap
  <2> QED BY <2>6, <2>7
<1>17. Nat \subseteq S
  <2> HIDE DEF S
  <2> QED BY <1>15, <1>16, Inductive
<1>18. N \in S /\ N <= N  BY <1>1, <1>17
<1> QED BY <1>18 DEF StartupQueue

-----------------------------------------------------------------------------
(***************************************************************************)
(* The inductive invariant.                                                *)
(***************************************************************************)
Items(W) == {Schedule[i] : i \in W}

\* The queue holds the messages that wait, each once.
QueueInv == Waiting \in SUBSET DOMAIN Schedule /\ Holds(heap, Items(Waiting))

Origin == [from : {"keys", "script"}, nth : Nat]

ShapeInv ==
  /\ pc \in LoopPCs
  /\ clock \in 0 .. MaxClock /\ now \in 0 .. clock
  /\ events \in [Input -> SUBSET EventBits]
  /\ registered \in SUBSET Input
  /\ ready \in [Input -> BOOLEAN] /\ closed \in [Input -> BOOLEAN]
  /\ wire \in [Input -> Seq(KeyBytes)] /\ typed \in [Input -> Seq(KeyBytes)]

\* The ports: the guest is told of a byte only where there is one, and every byte that
\* has entered has its origin.
PortInv ==
  /\ input_bytes \in [Input -> Seq(0 .. 255)] /\ received \in [Input -> Seq(0 .. 255)]
  /\ source \in [Input -> Seq(Origin)]
  /\ \A p \in Input : /\ input_bytes[p] \in Seq(PortBytes(p)) /\ received[p] \in Seq(PortBytes(p))
                      /\ ready[p] => input_bytes[p] # <<>>
                      /\ Len(source[p]) = Len(Entered(p))

\* What the emulator has not read is the end of what the host has written.
WireInv ==
  \A p \in Input :
    /\ Len(wire[p]) <= Len(typed[p])
    /\ \A i \in 1 .. Len(wire[p]) : wire[p][i] = typed[p][Taken(p) + i]

\* The bytes s with the origins o are, as far as keys go, the first t of those typed, y.
KeysStand(p, s, o, y, t) ==
  LET keys == {a \in 1 .. Len(o) : o[a].from = "keys"}
  IN  /\ \A n \in 1 .. t : \E a \in keys : o[a].nth = n
      /\ \A a \in keys : o[a].nth \in 1 .. t /\ s[a] = Transform(p, y[o[a].nth])
      /\ \A a, b \in keys : a < b => o[a].nth < o[b].nth

KeyInv == \A p \in Input : KeysStand(p, Entered(p), source[p], typed[p], Taken(p))

\* As far as the script goes, they are the messages W, whole and in order.
Stands(i, s, o) ==
  LET m == Schedule[i].message
  IN  \E k \in 0 .. Len(o) - Len(m) :
         /\ \A a \in 1 .. Len(m) : s[k + a] = m[a]
         /\ \A a \in 1 .. Len(o) : o[a].from = "script" /\ o[a].nth = i <=> a \in k + 1 .. k + Len(m)

ScriptStands(s, o, W) ==
  LET script == {a \in 1 .. Len(o) : o[a].from = "script"}
  IN  /\ \A i \in W : Stands(i, s, o)
      /\ \A a \in script : o[a].nth \in W
      /\ \A a, b \in script : a < b => o[a].nth = o[b].nth \/ Before(o[a].nth, o[b].nth)

\* With delays that are numbers: the queue is a heap, what has been sent was due, and
\* before all that waits.
TimedInv ==
  /\ Heap(heap)
  /\ \A i \in Sent : AtMost(Schedule[i].deadline, now)
  /\ \A i \in Sent, j \in Waiting : Before(i, j)
  /\ ScriptStands(Entered("console"), source["console"], Sent)
  /\ pc = "inputs" => ~HeadIsDue

IInv == ShapeInv /\ QueueInv /\ PortInv /\ WireInv /\ KeyInv

-----------------------------------------------------------------------------
(***************************************************************************)
(* What has entered a port, as it grows.                                   *)
(***************************************************************************)
\* The list g is f followed by d.
Grows(f, d, g) ==
  /\ Len(f) \in Nat /\ Len(d) \in Nat /\ Len(g) = Len(f) + Len(d)
  /\ \A i \in 1 .. Len(f) : g[i] = f[i]
  /\ \A i \in 1 .. Len(d) : g[Len(f) + i] = d[i]

LEMMA Concatenated ==
  ASSUME NEW S, NEW f \in Seq(S), NEW d \in Seq(S)
  PROVE  f \o d \in Seq(S) /\ Grows(f, d, f \o d)
BY DEF Grows

\* Whatever a place of g is, it is one of f or one of d.
LEMMA GrownPlace ==
  ASSUME NEW f, NEW d, NEW g, Grows(f, d, g), NEW a \in 1 .. Len(g)
  PROVE  \/ a \in 1 .. Len(f) /\ g[a] = f[a]
         \/ /\ a \notin 1 .. Len(f) /\ a > Len(f)
            /\ a - Len(f) \in 1 .. Len(d) /\ g[a] = d[a - Len(f)]
<1>1. CASE a <= Len(f)  BY <1>1 DEF Grows
<1>2. CASE a > Len(f)
  <2>1. a - Len(f) \in 1 .. Len(d) /\ Len(f) + (a - Len(f)) = a  BY <1>2 DEF Grows
  <2> QED BY <1>2, <2>1 DEF Grows
<1> QED BY <1>1, <1>2 DEF Grows

\* One more key.
LEMMA KeyStands ==
  ASSUME NEW p, NEW s, NEW o, NEW s2, NEW o2, NEW y, NEW t \in Nat,
         KeysStand(p, s, o, y, t), Len(s) = Len(o),
         Grows(s, <<Transform(p, y[t + 1])>>, s2), Grows(o, <<Source("keys", t + 1)>>, o2)
  PROVE  KeysStand(p, s2, o2, y, t + 1)
<1> DEFINE keys == {a \in 1 .. Len(o) : o[a].from = "keys"}
           keys2 == {a \in 1 .. Len(o2) : o2[a].from = "keys"}
           z == Len(o) + 1
<1>1. /\ \A n \in 1 .. t : \E a \in keys : o[a].nth = n
      /\ \A a \in keys : o[a].nth \in 1 .. t /\ s[a] = Transform(p, y[o[a].nth])
      /\ \A a, b \in keys : a < b => o[a].nth < o[b].nth
  BY DEF KeysStand
<1>2. /\ z \in 1 .. Len(o2) /\ o2[z] = Source("keys", t + 1) /\ s2[z] = Transform(p, y[t + 1])
      /\ Len(o) \in Nat /\ Len(o2) = Len(o) + 1
  BY DEF Grows
<1>3. \A a \in 1 .. Len(o) : o2[a] = o[a] /\ s2[a] = s[a] /\ a \in 1 .. Len(o2) /\ a < z
  BY <1>2 DEF Grows
<1>4. 1 .. Len(o2) = (1 .. Len(o)) \cup {z} /\ z \notin 1 .. Len(o)  BY <1>2
<1>5. o2[z].from = "keys" /\ o2[z].nth = t + 1 /\ z \in Nat  BY <1>2 DEF Source
<1> HIDE DEF z
<1>6. keys2 = keys \cup {z}  BY <1>3, <1>4, <1>5
<1>7. \A a \in keys : o2[a] = o[a] /\ s2[a] = s[a] /\ a \in Nat /\ a < z  BY <1>2, <1>3
<1> HIDE DEF keys, keys2
<1>8. \A n \in 1 .. t + 1 : n \in 1 .. t \/ n = t + 1  OBVIOUS
<1>9. \A n \in 1 .. t + 1 : \E a \in keys2 : o2[a].nth = n  BY <1>1, <1>5, <1>6, <1>7, <1>8
<1>10. \A a \in keys2 : o2[a].nth \in 1 .. t + 1 /\ s2[a] = Transform(p, y[o2[a].nth])
  <2>1. \A a \in keys : o2[a].nth \in 1 .. t /\ s2[a] = Transform(p, y[o2[a].nth])  BY <1>1, <1>7
  <2> QED BY <1>2, <1>5, <1>6, <2>1
<1>11. \A a, b \in keys2 : a < b => o2[a].nth < o2[b].nth
  <2> SUFFICES ASSUME NEW a \in keys2, NEW b \in keys2, a < b PROVE o2[a].nth < o2[b].nth
    OBVIOUS
  <2>1. a \in keys
    <3>1. \A c \in keys2 : ~(z < c)  BY <1>5, <1>6, <1>7
    <3> QED BY <1>6, <3>1
  <2>2. CASE b \in keys  BY <1>1, <1>7, <2>1, <2>2
  <2>3. CASE b = z  BY <1>1, <1>5, <1>7, <2>1, <2>3
  <2> QED BY <1>6, <2>2, <2>3
<1> QED BY <1>9, <1>10, <1>11 DEF KeysStand, keys2

\* Bytes of a script are no keys.
LEMMA KeysStandStill ==
  ASSUME NEW p, NEW s, NEW o, NEW s2, NEW o2, NEW y, NEW t, NEW d, NEW e,
         KeysStand(p, s, o, y, t), Len(s) = Len(o), Grows(s, d, s2), Grows(o, e, o2),
         \A a \in 1 .. Len(e) : e[a].from = "script"
  PROVE  KeysStand(p, s2, o2, y, t)
<1> DEFINE keys == {a \in 1 .. Len(o) : o[a].from = "keys"}
           keys2 == {a \in 1 .. Len(o2) : o2[a].from = "keys"}
<1>1. /\ \A n \in 1 .. t : \E a \in keys : o[a].nth = n
      /\ \A a \in keys : o[a].nth \in 1 .. t /\ s[a] = Transform(p, y[o[a].nth])
      /\ \A a, b \in keys : a < b => o[a].nth < o[b].nth
  BY DEF KeysStand
<1>2. \A a \in 1 .. Len(o) : o2[a] = o[a] /\ s2[a] = s[a] /\ a \in 1 .. Len(o2)  BY DEF Grows
<1>3. \A a \in 1 .. Len(o2) : a \in 1 .. Len(o) \/ o2[a].from = "script"  BY GrownPlace
<1>4. keys2 = keys  BY <1>2, <1>3
<1>5. \A a \in keys : o2[a] = o[a] /\ s2[a] = s[a]  BY <1>2
<1> HIDE DEF keys, keys2
<1>6. /\ \A n \in 1 .. t : \E a \in keys2 : o2[a].nth = n
      /\ \A a \in keys2 : o2[a].nth \in 1 .. t /\ s2[a] = Transform(p, y[o2[a].nth])
      /\ \A a, b \in keys2 : a < b => o2[a].nth < o2[b].nth
  BY <1>1, <1>4, <1>5
<1> QED BY <1>6 DEF KeysStand, keys2

\* What has been typed may grow.
LEMMA KeysStandAsTyped ==
  ASSUME NEW p, NEW s, NEW o, NEW y, NEW y2, NEW t,
         KeysStand(p, s, o, y, t), \A n \in 1 .. t : y2[n] = y[n]
  PROVE  KeysStand(p, s, o, y2, t)
BY DEF KeysStand

\* A key comes between messages.
LEMMA ScriptStandsStill ==
  ASSUME NEW s, NEW o, NEW s2, NEW o2, NEW W, NEW d, NEW e,
         ScriptStands(s, o, W), Len(s) = Len(o), Grows(s, d, s2), Grows(o, e, o2),
         \A a \in 1 .. Len(e) : e[a].from = "keys",
         \A i \in W : Len(Schedule[i].message) \in Nat
  PROVE  ScriptStands(s2, o2, W)
<1> DEFINE script == {a \in 1 .. Len(o) : o[a].from = "script"}
           script2 == {a \in 1 .. Len(o2) : o2[a].from = "script"}
<1>1. /\ \A i \in W : Stands(i, s, o)
      /\ \A a \in script : o[a].nth \in W
      /\ \A a, b \in script : a < b => o[a].nth = o[b].nth \/ Before(o[a].nth, o[b].nth)
  BY DEF ScriptStands
<1>2. /\ \A a \in 1 .. Len(o) : o2[a] = o[a] /\ s2[a] = s[a] /\ a \in 1 .. Len(o2)
      /\ Len(o) \in Nat /\ Len(o2) \in Nat /\ Len(o) <= Len(o2)
  BY DEF Grows
<1>3. \A a \in 1 .. Len(o2) : a \in 1 .. Len(o) \/ o2[a].from = "keys"  BY GrownPlace
<1>4. script2 = script  BY <1>2, <1>3
<1>5. \A a \in script : o2[a] = o[a]  BY <1>2
<1>6. ASSUME NEW i \in W PROVE Stands(i, s2, o2)
  <2> DEFINE m == Schedule[i].message
  <2>1. PICK k \in 0 .. Len(o) - Len(m) :
           /\ \A a \in 1 .. Len(m) : s[k + a] = m[a]
           /\ \A a \in 1 .. Len(o) : o[a].from = "script" /\ o[a].nth = i <=> a \in k + 1 .. k + Len(m)
    BY <1>1 DEF Stands
  <2>2. Len(m) \in Nat  OBVIOUS
  <2>3. k \in 0 .. Len(o2) - Len(m)  BY <1>2, <2>2
  <2>4. \A a \in 1 .. Len(m) : k + a \in 1 .. Len(o)  BY <1>2, <2>2
  <2>5. \A a \in 1 .. Len(m) : s2[k + a] = m[a]  BY <1>2, <2>1, <2>4
  <2>6. k + 1 .. k + Len(m) \subseteq 1 .. Len(o)  BY <1>2, <2>2
  <2>7. \A a \in 1 .. Len(o2) : o2[a].from = "script" /\ o2[a].nth = i <=> a \in k + 1 .. k + Len(m)
    BY <1>2, <1>3, <2>1, <2>6
  <2> HIDE DEF m
  <2> QED BY <2>3, <2>5, <2>7 DEF Stands, m
<1> HIDE DEF script, script2
<1> QED BY <1>1, <1>4, <1>5, <1>6 DEF ScriptStands, script2

\* One more message, whose turn is after all those that stand.
LEMMA MessageStands ==
  ASSUME NEW s, NEW o, NEW s2, NEW o2, NEW W, NEW i, i \notin W, NEW e,
         ScriptStands(s, o, W), Len(s) = Len(o),
         Grows(s, Schedule[i].message, s2), Grows(o, e, o2),
         Len(e) = Len(Schedule[i].message),
         \A a \in 1 .. Len(e) : e[a].from = "script" /\ e[a].nth = i,
         \A j \in W : Before(j, i) /\ Len(Schedule[j].message) \in Nat
  PROVE  ScriptStands(s2, o2, W \cup {i})
<1> DEFINE script == {a \in 1 .. Len(o) : o[a].from = "script"}
           script2 == {a \in 1 .. Len(o2) : o2[a].from = "script"}
           l == Len(Schedule[i].message)
<1>1. /\ \A j \in W : Stands(j, s, o)
      /\ \A a \in script : o[a].nth \in W
      /\ \A a, b \in script : a < b => o[a].nth = o[b].nth \/ Before(o[a].nth, o[b].nth)
  BY DEF ScriptStands
<1>2. /\ \A a \in 1 .. Len(o) : o2[a] = o[a] /\ s2[a] = s[a] /\ a \in 1 .. Len(o2)
      /\ Len(o) \in Nat /\ l \in Nat /\ Len(o2) = Len(o) + l
  BY DEF Grows
<1>3. \A a \in 1 .. Len(o2) : \/ a \in 1 .. Len(o)
                              \/ a > Len(o) /\ o2[a].from = "script" /\ o2[a].nth = i
  BY GrownPlace
<1>4. ASSUME NEW j \in W PROVE Stands(j, s2, o2)
  <2> DEFINE m == Schedule[j].message
  <2>1. PICK k \in 0 .. Len(o) - Len(m) :
           /\ \A a \in 1 .. Len(m) : s[k + a] = m[a]
           /\ \A a \in 1 .. Len(o) : o[a].from = "script" /\ o[a].nth = j <=> a \in k + 1 .. k + Len(m)
    BY <1>1 DEF Stands
  <2>2. Len(m) \in Nat /\ j # i  OBVIOUS
  <2>3. k \in 0 .. Len(o2) - Len(m)  BY <1>2, <2>2
  <2>4. \A a \in 1 .. Len(m) : k + a \in 1 .. Len(o)  BY <1>2, <2>2
  <2>5. \A a \in 1 .. Len(m) : s2[k + a] = m[a]  BY <1>2, <2>1, <2>4
  <2>6. k + 1 .. k + Len(m) \subseteq 1 .. Len(o)  BY <1>2, <2>2
  <2>7. \A a \in k + 1 .. k + Len(m) : ~(a > Len(o))  BY <1>2, <2>2
  <2>8. \A a \in 1 .. Len(o2) : o2[a].from = "script" /\ o2[a].nth = j <=> a \in k + 1 .. k + Len(m)
    BY <1>2, <1>3, <2>1, <2>2, <2>6, <2>7
  <2> HIDE DEF m
  <2> QED BY <2>3, <2>5, <2>8 DEF Stands, m
<1>5. Stands(i, s2, o2)
  <2> DEFINE m == Schedule[i].message
             k == Len(o)
  <2>1. k \in 0 .. Len(o2) - Len(m)  BY <1>2
  <2>2. \A a \in 1 .. Len(m) : s2[k + a] = m[a]  BY DEF Grows
  <2>3. \A a \in 1 .. Len(o) : o2[a].from = "script" => o2[a].nth # i  BY <1>1, <1>2
  <2>4. \A a \in 1 .. Len(o2) : a \in k + 1 .. k + Len(m) <=> a > Len(o)  BY <1>2
  <2>5. \A a \in 1 .. Len(o) : ~(a > Len(o))  BY <1>2
  <2>6. \A a \in 1 .. Len(o2) : o2[a].from = "script" /\ o2[a].nth = i <=> a \in k + 1 .. k + Len(m)
    BY <1>3, <2>3, <2>4, <2>5
  <2> HIDE DEF m, k
  <2> QED BY <2>1, <2>2, <2>6 DEF Stands, m
<1>6. \A a \in script2 : (a \in script /\ o2[a].nth \in W) \/ (a > Len(o) /\ o2[a].nth = i)
  BY <1>1, <1>2, <1>3
<1>7. \A a, b \in script2 : a < b => o2[a].nth = o2[b].nth \/ Before(o2[a].nth, o2[b].nth)
  <2> SUFFICES ASSUME NEW a \in script2, NEW b \in script2, a < b
               PROVE  o2[a].nth = o2[b].nth \/ Before(o2[a].nth, o2[b].nth)
    OBVIOUS
  <2>1. CASE a \in script /\ b \in script
    <3>1. o2[a] = o[a] /\ o2[b] = o[b]  BY <1>2, <2>1
    <3> QED BY <1>1, <2>1, <3>1
  <2>2. CASE o2[a].nth \in W /\ o2[b].nth = i  BY <2>2
  <2>3. CASE o2[a].nth = i /\ o2[b].nth = i  BY <2>3
  <2>4. CASE a > Len(o) /\ b \in script  BY <1>2, <2>4
  <2> QED BY <1>6, <2>1, <2>2, <2>3, <2>4
<1> HIDE DEF script, script2
<1>8. \A a \in script2 : o2[a].nth \in W \cup {i}  BY <1>6
<1>9. \A j \in W \cup {i} : Stands(j, s2, o2)  BY <1>4, <1>5
<1> QED BY <1>7, <1>8, <1>9 DEF ScriptStands, script2

\* A part of f that agrees with g is g.
LEMMA Part ==
  ASSUME NEW S, NEW f \in Seq(S), NEW g \in Seq(S), NEW k \in Nat, k + Len(g) <= Len(f),
         \A i \in 1 .. Len(g) : f[k + i] = g[i]
  PROVE  SubSeq(f, k + 1, k + Len(g)) = g
<1> DEFINE m == k + 1
           n == k + Len(g)
           z == SubSeq(f, m, n)
<1>1. m \in Int /\ n \in Int /\ Len(g) \in Nat /\ n - m + 1 = Len(g) /\ (m <= n <=> Len(g) > 0)  OBVIOUS
<1>2. \A i \in m .. n : f[i] \in S
  <2>1. m .. n \subseteq 1 .. Len(f)  OBVIOUS
  <2> QED BY <2>1
<1>3. \A i \in 1 .. Len(g) : m + i - 1 = k + i  OBVIOUS
<1> HIDE DEF m, n
<1>4. /\ z \in Seq(S) /\ Len(z) = (IF m <= n THEN n - m + 1 ELSE 0)
      /\ \A i \in 1 .. n - m + 1 : z[i] = f[m + i - 1]
  BY <1>1, <1>2, SubSeqProperties
<1> HIDE DEF z
<1>5. Len(z) = Len(g)  BY <1>1, <1>4
<1>6. \A i \in 1 .. Len(z) : z[i] = g[i]  BY <1>1, <1>3, <1>4, <1>5
<1>7. z = g  BY <1>4, <1>5, <1>6, SeqEqual
<1> QED BY <1>7 DEF m, n, z

-----------------------------------------------------------------------------
(***************************************************************************)
(* The ports.                                                              *)
(***************************************************************************)
LEMMA Regrouped ==
  ASSUME NEW S, NEW r \in Seq(S), NEW q \in Seq(S), NEW d \in Seq(S)
  PROVE  Grows(r \o q, d, r \o (q \o d))
<1>1. q \o d \in Seq(S) /\ r \o q \in Seq(S)  OBVIOUS
<1>2. Grows(r, q, r \o q) /\ Grows(q, d, q \o d) /\ Grows(r, q \o d, r \o (q \o d))
  BY <1>1, Concatenated
<1> DEFINE m == Len(r)
           n == Len(q)
           f == r \o q
           g == r \o (q \o d)
           e == q \o d
<1> HIDE DEF m, n, f, g, e
<1>3. /\ m \in Nat /\ n \in Nat /\ Len(d) \in Nat
      /\ Len(f) = m + n /\ Len(e) = n + Len(d) /\ Len(g) = m + Len(e)
      /\ \A i \in 1 .. m : f[i] = r[i]
      /\ \A i \in 1 .. n : f[m + i] = q[i] /\ e[i] = q[i]
      /\ \A i \in 1 .. Len(d) : e[n + i] = d[i]
      /\ \A i \in 1 .. m : g[i] = r[i]
      /\ \A i \in 1 .. Len(e) : g[m + i] = e[i]
  BY <1>2 DEF Grows, m, n, f, g, e
<1>4. ASSUME NEW i \in 1 .. Len(f) PROVE g[i] = f[i]
  <2>1. CASE i <= m  BY <1>3, <2>1
  <2>2. CASE i > m
    <3>1. i - m \in 1 .. n /\ i - m \in 1 .. Len(e) /\ m + (i - m) = i  BY <1>3, <2>2
    <3> QED BY <1>3, <3>1
  <2> QED BY <1>3, <2>1, <2>2
<1>5. ASSUME NEW i \in 1 .. Len(d) PROVE g[Len(f) + i] = d[i]
  <2>1. n + i \in 1 .. Len(e) /\ Len(f) + i = m + (n + i)  BY <1>3
  <2> QED BY <1>3, <2>1
<1>6. Grows(f, d, g)  BY <1>3, <1>4, <1>5 DEF Grows
<1> QED BY <1>6 DEF f, g, e

\* A byte that goes from the queue to the guest stays where it was in all that entered.
LEMMA Moved ==
  ASSUME NEW S, NEW r \in Seq(S), NEW q \in Seq(S), q # <<>>
  PROVE  Append(r, Head(q)) \o Tail(q) = r \o q
<1> DEFINE f == Append(r, Head(q)) \o Tail(q)
           g == r \o q
<1>1. Len(q) \in Nat /\ Len(q) > 0 /\ Head(q) \in S /\ Tail(q) \in Seq(S) /\ Append(r, Head(q)) \in Seq(S)
  OBVIOUS
<1>2. Len(Tail(q)) = Len(q) - 1 /\ \A i \in 1 .. Len(q) - 1 : Tail(q)[i] = q[i + 1]  BY <1>1
<1>3. f \in Seq(S) /\ g \in Seq(S)  BY <1>1
<1>4. Len(f) = Len(r) + 1 + (Len(q) - 1) /\ Len(g) = Len(r) + Len(q) /\ Len(r) \in Nat
  BY <1>1, <1>2
<1>5. ASSUME NEW i \in 1 .. Len(g) PROVE f[i] = g[i]
  <2>1. CASE i <= Len(r)
    <3>1. f[i] = Append(r, Head(q))[i] /\ g[i] = r[i]  BY <1>1, <1>4, <2>1
    <3> QED BY <1>4, <2>1, <3>1
  <2>2. CASE i = Len(r) + 1
    <3>1. f[i] = Append(r, Head(q))[i] /\ g[i] = q[1]  BY <1>1, <1>4, <2>2
    <3> QED BY <1>1, <1>4, <2>2, <3>1
  <2>3. CASE i > Len(r) + 1
    <3>1. i - (Len(r) + 1) \in 1 .. Len(q) - 1 /\ i - (Len(r) + 1) + 1 = i - Len(r)  BY <1>4, <2>3
    <3>2. f[i] = Tail(q)[i - (Len(r) + 1)]  BY <1>1, <1>2, <1>4, <2>3
    <3>3. g[i] = q[i - Len(r)]  BY <1>1, <1>4, <2>3
    <3> QED BY <1>2, <3>1, <3>2, <3>3
  <2> QED BY <1>4, <2>1, <2>2, <2>3
<1> HIDE DEF f, g
<1>6. Len(f) = Len(g)  BY <1>1, <1>4
<1>7. f = g  BY <1>3, <1>5, <1>6
<1> QED BY <1>7 DEF f, g

LEMMA PortsAre ==
  ASSUME PortInv, NEW p \in Input
  PROVE  /\ input_bytes[p] \in Seq(PortBytes(p)) /\ received[p] \in Seq(PortBytes(p))
         /\ source[p] \in Seq(Origin)
         /\ Entered(p) \in Seq(PortBytes(p)) /\ Len(source[p]) = Len(Entered(p))
BY DEF PortInv, Entered

LEMMA Queued ==
  ASSUME PortInv, NEW p \in Input, NEW data \in Seq(PortBytes(p)), NEW from \in Origin,
         Queue(p, data, from), UNCHANGED <<received, ready>>
  PROVE  /\ PortInv'
         /\ Grows(Entered(p), data, Entered(p)')
         /\ Grows(source[p], [i \in 1 .. Len(data) |-> from], source'[p])
         /\ \A q \in Input \ {p} : Entered(q)' = Entered(q) /\ source'[q] = source[q]
<1> DEFINE tags == [i \in 1 .. Len(data) |-> from]
<1>1. PortBytes(p) \in SUBSET (0 .. 255)  BY DEF PortBytes
<1>2. data \in Seq(0 .. 255)  BY <1>1
<1>3. /\ input_bytes \in [Input -> Seq(0 .. 255)] /\ source \in [Input -> Seq(Origin)]
      /\ received \in [Input -> Seq(0 .. 255)]
  BY DEF PortInv
<1>4. /\ input_bytes' = [input_bytes EXCEPT ![p] = input_bytes[p] \o data]
      /\ source' = [source EXCEPT ![p] = source[p] \o tags]
  BY DEF Queue
<1>5. tags \in Seq(Origin) /\ Len(tags) = Len(data)  OBVIOUS
<1> HIDE DEF tags
<1>6. input_bytes[p] \o data \in Seq(0 .. 255) /\ source[p] \o tags \in Seq(Origin)  BY <1>2, <1>3, <1>5
<1>7. /\ input_bytes' \in [Input -> Seq(0 .. 255)] /\ source' \in [Input -> Seq(Origin)]
      /\ received' \in [Input -> Seq(0 .. 255)]
  BY <1>3, <1>4, <1>6
<1>8. input_bytes'[p] = input_bytes[p] \o data /\ source'[p] = source[p] \o tags  BY <1>3, <1>4
<1>9. \A q \in Input \ {p} : input_bytes'[q] = input_bytes[q] /\ source'[q] = source[q]  BY <1>3, <1>4
<1>10. Grows(Entered(p), data, Entered(p)')
  <2>1. Grows(received[p] \o input_bytes[p], data, received[p] \o (input_bytes[p] \o data))
    BY PortsAre, Regrouped
  <2> QED BY <1>8, <2>1 DEF Entered
<1>11. Grows(source[p], tags, source'[p])  BY <1>3, <1>5, <1>8, Concatenated
<1>12. \A q \in Input \ {p} : Entered(q)' = Entered(q)  BY <1>9 DEF Entered
<1>13. ASSUME NEW q \in Input
       PROVE  /\ input_bytes'[q] \in Seq(PortBytes(q)) /\ received'[q] \in Seq(PortBytes(q))
              /\ ready'[q] => input_bytes'[q] # <<>>
              /\ Len(source'[q]) = Len(Entered(q)')
  <2>1. CASE q = p
    <3>1. input_bytes[p] \in Seq(PortBytes(p)) /\ received[p] \in Seq(PortBytes(p))
          /\ Len(source[p]) = Len(Entered(p)) /\ (ready[p] => input_bytes[p] # <<>>)
      BY DEF PortInv
    <3>2. input_bytes[p] \o data \in Seq(PortBytes(p))  BY <3>1
    <3>3. input_bytes[p] # <<>> => input_bytes[p] \o data # <<>>  BY <3>1
    <3>4. Len(source'[p]) = Len(Entered(p)')  BY <1>5, <1>10, <1>11, <3>1 DEF Grows
    <3> QED BY <1>8, <2>1, <3>1, <3>2, <3>3, <3>4
  <2>2. CASE q # p
    <3>1. /\ input_bytes'[q] = input_bytes[q] /\ source'[q] = source[q] /\ Entered(q)' = Entered(q)
          /\ received'[q] = received[q] /\ ready'[q] = ready[q]
      BY <1>9, <1>12, <2>2
    <3>2. input_bytes[q] \in Seq(PortBytes(q)) /\ received[q] \in Seq(PortBytes(q))
          /\ Len(source[q]) = Len(Entered(q)) /\ (ready[q] => input_bytes[q] # <<>>)
      BY DEF PortInv
    <3> QED BY <3>1, <3>2
  <2> QED BY <2>1, <2>2
<1>14. PortInv'  BY <1>7, <1>13 DEF PortInv, PortBytes
<1> QED BY <1>9, <1>10, <1>11, <1>12, <1>14 DEF tags

-----------------------------------------------------------------------------
(***************************************************************************)
(* The inductive invariant holds when the loop begins.                     *)
(***************************************************************************)
LEMMA WaitingIs ==
  ASSUME NEW h, NEW W \in SUBSET DOMAIN Schedule, Holds(h, Items(W))
  PROVE  /\ {h[k].sequence : k \in DOMAIN h} = W
         /\ \A k \in 1 .. Len(h) : h[k].sequence \in W /\ h[k] = Schedule[h[k].sequence]
         /\ \A i \in W : \E k \in 1 .. Len(h) : h[k] = Schedule[i]
<1>1. h \in Seq(Item) /\ DOMAIN h = 1 .. Len(h) /\ Items(W) = {h[k] : k \in 1 .. Len(h)}
  BY DEF Holds
<1>2. \A i \in W : Schedule[i].sequence = i  BY ScheduleIs
<1>3. \A k \in 1 .. Len(h) : \E i \in W : h[k] = Schedule[i]
  <2>1. \A k \in 1 .. Len(h) : h[k] \in Items(W)  BY <1>1
  <2> QED BY <2>1 DEF Items
<1>4. \A k \in 1 .. Len(h) : h[k].sequence \in W /\ h[k] = Schedule[h[k].sequence]  BY <1>2, <1>3
<1>5. \A i \in W : \E k \in 1 .. Len(h) : h[k] = Schedule[i]
  <2>1. \A i \in W : Schedule[i] \in {h[k] : k \in 1 .. Len(h)}  BY <1>1 DEF Items
  <2> QED BY <2>1
<1>6. \A i \in W : \E k \in 1 .. Len(h) : h[k].sequence = i  BY <1>2, <1>5
<1>7. {h[k].sequence : k \in DOMAIN h} = W  BY <1>1, <1>4, <1>6
<1> QED BY <1>4, <1>5, <1>7

LEMMA InitInv == Init => IInv /\ (Timed => TimedInv)
<1> SUFFICES ASSUME Init PROVE IInv /\ (Timed => TimedInv)
  OBVIOUS
<1> USE DEF Init
<1>1. /\ input_bytes = [p \in Input |-> <<>>] /\ received = [p \in Input |-> <<>>]
      /\ source = [p \in Input |-> <<>>] /\ wire = [p \in Input |-> <<>>]
      /\ typed = [p \in Input |-> <<>>] /\ ready = [p \in Input |-> FALSE]
  OBVIOUS
<1>2. \A p \in Input : Entered(p) = <<>>
  <2>1. <<>> \o <<>> = <<>>  OBVIOUS
  <2> QED BY <1>1, <2>1 DEF Entered
<1>3. ShapeInv
  <2>1. clock \in 0 .. MaxClock /\ now \in 0 .. clock  BY InputAssumption
  <2>2. \A S : <<>> \in Seq(S)  OBVIOUS
  <2>3. /\ wire \in [Input -> Seq(KeyBytes)] /\ typed \in [Input -> Seq(KeyBytes)]
    BY <1>1, <2>2
  <2>4. ready \in [Input -> BOOLEAN] /\ closed \in [Input -> BOOLEAN]  OBVIOUS
  <2>5. events \in [Input -> SUBSET EventBits] /\ registered \in SUBSET Input  OBVIOUS
  <2> QED BY <2>1, <2>3, <2>4, <2>5 DEF ShapeInv, LoopPCs
<1> DEFINE N == Len(Schedule)
<1>4. N \in Nat /\ DOMAIN Schedule = 1 .. N  BY ScheduleIs
<1>5. Holds(heap, Items(DOMAIN Schedule)) /\ (Timed => Heap(heap))
  <2>1. FirstMessages(N) = Items(DOMAIN Schedule)  BY <1>4 DEF FirstMessages, Items
  <2> QED BY <2>1, StartupHolds
<1>6. Waiting = DOMAIN Schedule
  <2>1. DOMAIN Schedule \in SUBSET DOMAIN Schedule  OBVIOUS
  <2> HIDE DEF Init
  <2> QED BY <1>5, <2>1, WaitingIs DEF Waiting
<1>7. QueueInv  BY <1>5, <1>6 DEF QueueInv
<1>8. PortInv
  <2>1. \A S : <<>> \in Seq(S)  OBVIOUS
  <2>2. /\ input_bytes \in [Input -> Seq(0 .. 255)] /\ received \in [Input -> Seq(0 .. 255)]
        /\ source \in [Input -> Seq(Origin)]
    BY <1>1, <2>1
  <2> QED BY <1>1, <1>2, <2>1, <2>2 DEF PortInv
<1>9. WireInv  BY <1>1 DEF WireInv
<1>10. KeyInv
  <2>1. \A p \in Input : Taken(p) = 0  BY <1>1 DEF Taken
  <2>2. \A p \in Input : KeysStand(p, <<>>, <<>>, <<>>, 0)  BY DEF KeysStand
  <2> QED BY <1>1, <1>2, <2>1, <2>2 DEF KeyInv
<1>11. ASSUME Timed PROVE TimedInv
  <2>1. Sent = {}  BY <1>6 DEF Sent
  <2>2. ScriptStands(<<>>, <<>>, {})  BY DEF ScriptStands
  <2>3. "console" \in Input  BY InputAssumption
  <2>4. Entered("console") = <<>> /\ source["console"] = <<>>  BY <1>1, <1>2, <2>3
  <2> QED BY <1>5, <1>11, <2>1, <2>2, <2>4 DEF TimedInv
<1> QED BY <1>3, <1>7, <1>8, <1>9, <1>10, <1>11 DEF IInv

-----------------------------------------------------------------------------
(***************************************************************************)
(* Every step keeps it.                                                    *)
(***************************************************************************)
LEMMA ShapeStep == ShapeInv /\ [Next]_vars => ShapeInv'
<1> SUFFICES ASSUME ShapeInv, [Next]_vars PROVE ShapeInv'
  OBVIOUS
<1> USE DEF ShapeInv, LoopPCs
<1>0. MaxClock \in Nat /\ \A t \in 0 .. clock : t \in 0 .. clock + 1  BY InputAssumption
<1>1. CASE PollScheduled  BY <1>0, <1>1 DEF PollScheduled, host, guest, ports
<1>2. CASE DeliverDue  BY <1>2 DEF DeliverDue, host, guest
<1>3. CASE NoneDue  BY <1>3 DEF NoneDue, host, guest
<1>4. CASE PollInputs  BY <1>4 DEF PollInputs, host, guest
<1>5. ASSUME NEW p \in Input, HandleEvent(p) PROVE ShapeInv'
  <2>1. /\ events' = [events EXCEPT ![p] = {}]
        /\ UNCHANGED <<pc, clock, now, ready, closed, typed>>
    BY <1>5 DEF HandleEvent, guest
  <2>2. events' \in [Input -> SUBSET EventBits]  BY <2>1
  <2>3. registered' \in SUBSET Input /\ wire' \in [Input -> Seq(KeyBytes)]
    <3>1. CASE Reading(p)
      <4>1. /\ registered' = registered /\ wire' = [wire EXCEPT ![p] = Tail(@)] /\ wire[p] # <<>>
        BY <1>5, <3>1 DEF HandleEvent, HandleKey, TakeKey, Reading
      <4>2. Tail(wire[p]) \in Seq(KeyBytes)  BY <4>1
      <4> QED BY <4>1, <4>2
    <3>2. CASE ~Reading(p)
      <4>1. registered' = registered \ {p} /\ wire' = wire
        BY <1>5, <3>2 DEF HandleEvent, HandleKey, Forget
      <4> QED BY <4>1
    <3> QED BY <3>1, <3>2
  <2> QED BY <2>1, <2>2, <2>3
<1>6. CASE EventsHandled  BY <1>6 DEF EventsHandled, host, guest
<1>7. CASE EndOfChunk  BY <1>7 DEF EndOfChunk, host, guest
<1>8. ASSUME NEW p \in Input, ReadControl(p) PROVE ShapeInv'
  <2>1. ready' = [ready EXCEPT ![p] = input_bytes[p] # <<>>] /\ ready \in [Input -> BOOLEAN]
    BY <1>8 DEF ReadControl
  <2>2. ready' \in [Input -> BOOLEAN]  BY <2>1, Zenon
  <2> QED BY <1>8, <2>2 DEF ReadControl, host
<1>9. ASSUME NEW p \in Input, ReadData(p) PROVE ShapeInv'
  BY <1>9 DEF ReadData, host
<1>10. CASE Tick  BY <1>0, <1>10 DEF Tick, host, guest
<1>11. ASSUME NEW p \in Input, HangUp(p) PROVE ShapeInv'
  BY <1>11 DEF HangUp, guest
<1>12. ASSUME NEW p \in Input, NEW b \in KeyBytes, TypeKey(p, b) PROVE ShapeInv'
  <2>1. Append(wire[p], b) \in Seq(KeyBytes) /\ Append(typed[p], b) \in Seq(KeyBytes)  OBVIOUS
  <2>2. /\ wire' = [wire EXCEPT ![p] = Append(wire[p], b)]
        /\ typed' = [typed EXCEPT ![p] = Append(typed[p], b)]
    BY <1>12 DEF TypeKey
  <2> QED BY <1>12, <2>1, <2>2 DEF TypeKey, guest
<1>13. CASE UNCHANGED vars  BY <1>13 DEF vars, host, guest
<1> QED
  BY <1>1, <1>2, <1>3, <1>4, <1>5, <1>6, <1>7, <1>8, <1>9, <1>10, <1>11, <1>12, <1>13
  DEF Next, Loop, Guest, World

\* What the other parts look at changes in few actions.
LEMMA Quiet ==
  ASSUME [Next]_vars
  PROVE  \/ UNCHANGED <<heap, ready, received, ports, wire, typed>>
         \/ DeliverDue
         \/ \E p \in Input : (pc = "events" /\ Reading(p) /\ HandleEvent(p)) \/ ReadControl(p) \/ ReadData(p)
         \/ \E p \in Input, b \in KeyBytes : TypeKey(p, b)
<1>1. CASE PollScheduled  BY <1>1 DEF PollScheduled, host, guest
<1>2. CASE DeliverDue  BY <1>2
<1>3. CASE NoneDue  BY <1>3 DEF NoneDue, host, guest
<1>4. CASE PollInputs  BY <1>4 DEF PollInputs, host, guest
<1>5. ASSUME NEW p \in Input, HandleEvent(p), ~Reading(p)
      PROVE  UNCHANGED <<heap, ready, received, ports, wire, typed>>
  BY <1>5 DEF HandleEvent, HandleKey, Forget, guest
<1>6. CASE EventsHandled  BY <1>6 DEF EventsHandled, host, guest
<1>7. CASE EndOfChunk  BY <1>7 DEF EndOfChunk, host, guest
<1>8. CASE Tick  BY <1>8 DEF Tick, host, guest
<1>9. ASSUME NEW p \in Input, HangUp(p)
      PROVE  UNCHANGED <<heap, ready, received, ports, wire, typed>>
  BY <1>9 DEF HangUp, guest
<1>10. CASE UNCHANGED vars  BY <1>10 DEF vars, host, guest
<1>11. \A p \in Input : HandleEvent(p) => pc = "events"  BY DEF HandleEvent
<1> QED
  BY <1>1, <1>2, <1>3, <1>4, <1>5, <1>6, <1>7, <1>8, <1>9, <1>10, <1>11 DEF Next, Loop, Guest, World

\* poll pops and delivers the first message of the queue.
LEMMA Delivers ==
  ASSUME ShapeInv, QueueInv, PortInv, DeliverDue
  PROVE  LET i == heap[1].sequence
             tags == [a \in 1 .. Len(Schedule[i].message) |-> Source("script", i)]
         IN  /\ i \in Waiting /\ Waiting' = Waiting \ {i} /\ QueueInv'
             /\ heap[1] = Schedule[i] /\ Schedule[i].message \in Text
             /\ PortInv'
             /\ Grows(Entered("console"), Schedule[i].message, Entered("console")')
             /\ Grows(source["console"], tags, source'["console"])
             /\ \A q \in Input \ {"console"} : Entered(q)' = Entered(q) /\ source'[q] = source[q]
<1> DEFINE i == heap[1].sequence
           m == Schedule[i].message
<1>1. Waiting \in SUBSET DOMAIN Schedule /\ Holds(heap, Items(Waiting)) /\ heap # <<>>
  BY DEF QueueInv, DeliverDue, HeadIsDue
<1>2. heap \in Seq(Item) /\ 1 \in 1 .. Len(heap)  BY <1>1 DEF Holds
<1>3. i \in Waiting /\ heap[1] = Schedule[i]  BY <1>1, <1>2, WaitingIs
<1>4. Schedule[i] \in Item  BY <1>1, <1>3, ScheduleIs
<1>5. m \in Text /\ i \in Nat  BY <1>2, <1>3, <1>4 DEF Item
<1>6. Holds(heap', Items(Waiting) \ {heap[1]})  BY <1>1, PopHolds DEF DeliverDue
<1>7. Items(Waiting) \ {heap[1]} = Items(Waiting \ {i})
  <2>1. \A j \in Waiting : Schedule[j] = Schedule[i] => j = i  BY <1>1, <1>3, ScheduleIs
  <2> QED BY <1>3, <2>1 DEF Items
<1>8. Waiting \ {i} \in SUBSET DOMAIN Schedule  BY <1>1
<1>9. Waiting' = Waiting \ {i}
  <2>1. Holds(heap', Items(Waiting \ {i}))  BY <1>6, <1>7
  <2>2. {heap'[k].sequence : k \in DOMAIN heap'} = Waiting \ {i}  BY <1>8, <2>1, WaitingIs
  <2> QED BY <2>2 DEF Waiting
<1>10. QueueInv'  BY <1>6, <1>7, <1>8, <1>9 DEF QueueInv
<1>11. /\ "console" \in Input /\ m \in Seq(PortBytes("console"))
       /\ Source("script", i) \in Origin
  BY <1>5, InputAssumption DEF PortBytes, Text, Source, Origin
<1>12. Queue("console", m, Source("script", i)) /\ UNCHANGED <<received, ready>>
  BY <1>3 DEF DeliverDue, guest
<1>13. /\ PortInv'
       /\ Grows(Entered("console"), m, Entered("console")')
       /\ Grows(source["console"], [a \in 1 .. Len(m) |-> Source("script", i)], source'["console"])
       /\ \A q \in Input \ {"console"} : Entered(q)' = Entered(q) /\ source'[q] = source[q]
  <2> HIDE DEF m, i
  <2> QED BY <1>11, <1>12, Queued
<1> QED BY <1>3, <1>5, <1>9, <1>10, <1>13

LEMMA WireEnds ==
  ASSUME ShapeInv, WireInv, NEW p \in Input
  PROVE  /\ Taken(p) \in Nat /\ Len(wire[p]) \in Nat /\ Len(typed[p]) = Taken(p) + Len(wire[p])
         /\ wire[p] \in Seq(KeyBytes) /\ typed[p] \in Seq(KeyBytes)
         /\ \A i \in 1 .. Len(wire[p]) : wire[p][i] = typed[p][Taken(p) + i]
BY DEF ShapeInv, WireInv, Taken

\* stream.read(1) takes the next byte that was typed, and it enters the port.
LEMMA Takes ==
  ASSUME ShapeInv, WireInv, PortInv, NEW p \in Input, Reading(p), HandleEvent(p)
  PROVE  LET b == Transform(p, typed[p][Taken(p) + 1])
         IN  /\ wire' = [wire EXCEPT ![p] = Tail(wire[p])] /\ wire[p] # <<>>
             /\ Taken(p)' = Taken(p) + 1
             /\ \A q \in Input \ {p} : Taken(q)' = Taken(q) /\ wire'[q] = wire[q]
             /\ UNCHANGED <<heap, typed>>
             /\ PortInv'
             /\ Grows(Entered(p), <<b>>, Entered(p)')
             /\ Grows(source[p], <<Source("keys", Taken(p) + 1)>>, source'[p])
             /\ \A q \in Input \ {p} : Entered(q)' = Entered(q) /\ source'[q] = source[q]
<1> DEFINE b == Transform(p, typed[p][Taken(p) + 1])
           o == Source("keys", Taken(p) + 1)
<1>1. /\ wire' = [wire EXCEPT ![p] = Tail(@)] /\ wire[p] # <<>>
      /\ Queue(p, <<Transform(p, Head(wire[p]))>>, o)
      /\ UNCHANGED <<heap, typed, received, ready>>
  BY DEF HandleEvent, HandleKey, TakeKey, Reading, guest
<1>2. wire \in [Input -> Seq(KeyBytes)]  BY DEF ShapeInv
<1>3. /\ Len(wire[p]) \in Nat /\ Len(wire[p]) >= 1 /\ Head(wire[p]) = wire[p][1]
      /\ Len(Tail(wire[p])) = Len(wire[p]) - 1
  BY <1>1, <1>2
<1>4. /\ wire' = [wire EXCEPT ![p] = Tail(wire[p])] /\ wire'[p] = Tail(wire[p])
      /\ \A q \in Input \ {p} : wire'[q] = wire[q]
  BY <1>1, <1>2
<1>5. Taken(p) \in Nat /\ Len(typed[p]) = Taken(p) + Len(wire[p]) /\ typed[p] \in Seq(KeyBytes)
      /\ wire[p][1] = typed[p][Taken(p) + 1]
  BY <1>3, WireEnds
<1>6. Taken(p)' = Taken(p) + 1
  <2>1. Taken(p)' = Len(typed[p]) - (Len(wire[p]) - 1)  BY <1>1, <1>3, <1>4 DEF Taken
  <2> QED BY <1>3, <1>5, <2>1
<1>7. \A q \in Input \ {p} : Taken(q)' = Taken(q)  BY <1>1, <1>4 DEF Taken
<1>8. typed[p][Taken(p) + 1] \in 0 .. 255
  <2>1. Taken(p) + 1 \in 1 .. Len(typed[p])  BY <1>3, <1>5
  <2>2. typed[p][Taken(p) + 1] \in KeyBytes  BY <1>5, <2>1
  <2> QED BY <2>2, InputAssumption
<1>9. b \in PortBytes(p)
  <2>1. \A x \in 0 .. 255 : x % 128 \in 0 .. 127  OBVIOUS
  <2>2. \A x \in 0 .. 255 : Transform(p, x) \in PortBytes(p)
    BY <2>1 DEF Transform, Normalize, PortBytes
  <2> QED BY <1>8, <2>2
<1>10. o \in Origin  BY <1>5 DEF Source, Origin
<1>11. Queue(p, <<b>>, o)  BY <1>1, <1>3, <1>5
<1>12. [i \in 1 .. Len(<<b>>) |-> o] = <<o>>  OBVIOUS
<1>13. <<b>> \in Seq(PortBytes(p))  BY <1>9
<1>14. /\ PortInv' /\ Grows(Entered(p), <<b>>, Entered(p)')
       /\ Grows(source[p], [i \in 1 .. Len(<<b>>) |-> o], source'[p])
       /\ \A q \in Input \ {p} : Entered(q)' = Entered(q) /\ source'[q] = source[q]
  <2> HIDE DEF b, o
  <2> QED BY <1>1, <1>10, <1>11, <1>13, Queued
<1> QED BY <1>1, <1>4, <1>6, <1>7, <1>12, <1>14

\* The guest takes the first byte of a queue.
LEMMA GuestTakes ==
  ASSUME ShapeInv, PortInv, NEW p \in Input, ReadData(p)
  PROVE  PortInv' /\ UNCHANGED <<heap, wire, typed, source>> /\ \A q \in Input : Entered(q)' = Entered(q)
<1>1. ready[p] /\ input_bytes[p] # <<>>  BY DEF ReadData, PortInv
<1>2. /\ input_bytes \in [Input -> Seq(0 .. 255)] /\ received \in [Input -> Seq(0 .. 255)]
      /\ source \in [Input -> Seq(Origin)] /\ ready \in [Input -> BOOLEAN]
  BY DEF PortInv, ShapeInv
<1>3. /\ received' = [received EXCEPT ![p] = Append(received[p], Head(input_bytes[p]))]
      /\ input_bytes' = [input_bytes EXCEPT ![p] = Tail(input_bytes[p])]
      /\ ready' = [ready EXCEPT ![p] = FALSE]
      /\ UNCHANGED <<heap, wire, typed, source>>
  BY <1>1 DEF ReadData, RestOf, host
<1>4. /\ received'[p] = Append(received[p], Head(input_bytes[p])) /\ input_bytes'[p] = Tail(input_bytes[p])
      /\ ready'[p] = FALSE
      /\ \A q \in Input \ {p} : received'[q] = received[q] /\ input_bytes'[q] = input_bytes[q] /\ ready'[q] = ready[q]
  BY <1>2, <1>3
<1>5. \A q \in Input : Entered(q)' = Entered(q)
  <2>1. Append(received[p], Head(input_bytes[p])) \o Tail(input_bytes[p]) = received[p] \o input_bytes[p]
    BY <1>1, <1>2, Moved
  <2>2. Entered(p)' = Entered(p)  BY <1>4, <2>1 DEF Entered
  <2>3. \A q \in Input \ {p} : Entered(q)' = Entered(q)  BY <1>4 DEF Entered
  <2> QED BY <2>2, <2>3
<1>6. \A S : input_bytes[p] \in Seq(S) /\ received[p] \in Seq(S) =>
              /\ Tail(input_bytes[p]) \in Seq(S) /\ Append(received[p], Head(input_bytes[p])) \in Seq(S)
  <2> SUFFICES ASSUME NEW S, input_bytes[p] \in Seq(S), received[p] \in Seq(S)
               PROVE  /\ Tail(input_bytes[p]) \in Seq(S) /\ Append(received[p], Head(input_bytes[p])) \in Seq(S)
    OBVIOUS
  <2>1. Head(input_bytes[p]) \in S  BY <1>1
  <2> QED BY <1>1, <2>1
<1>7. /\ Tail(input_bytes[p]) \in Seq(0 .. 255)
      /\ Append(received[p], Head(input_bytes[p])) \in Seq(0 .. 255)
  BY <1>2, <1>6
<1>8. input_bytes' \in [Input -> Seq(0 .. 255)] /\ received' \in [Input -> Seq(0 .. 255)]
  BY <1>2, <1>3, <1>7
<1>9. ASSUME NEW q \in Input
      PROVE  /\ input_bytes'[q] \in Seq(PortBytes(q)) /\ received'[q] \in Seq(PortBytes(q))
             /\ ready'[q] => input_bytes'[q] # <<>>
             /\ Len(source'[q]) = Len(Entered(q)')
  <2>1. input_bytes[q] \in Seq(PortBytes(q)) /\ received[q] \in Seq(PortBytes(q))
        /\ Len(source[q]) = Len(Entered(q)) /\ (ready[q] => input_bytes[q] # <<>>)
    BY DEF PortInv
  <2>2. Len(source'[q]) = Len(Entered(q)')  BY <1>3, <1>5, <2>1
  <2>3. CASE q = p  BY <1>4, <1>6, <2>1, <2>2, <2>3
  <2>4. CASE q # p  BY <1>4, <2>1, <2>2, <2>4
  <2> QED BY <2>3, <2>4
<1>10. PortInv'
  <2>1. source' \in [Input -> Seq(Origin)]  BY <1>2, <1>3
  <2> QED BY <1>8, <1>9, <2>1 DEF PortInv, PortBytes
<1> QED BY <1>3, <1>5, <1>10

LEMMA GuestIsTold ==
  ASSUME ShapeInv, PortInv, NEW p \in Input, ReadControl(p)
  PROVE  PortInv' /\ UNCHANGED <<heap, wire, typed, received, ports>>
<1>1. /\ ready' = [ready EXCEPT ![p] = input_bytes[p] # <<>>]
      /\ UNCHANGED <<heap, wire, typed, received, ports>>
  BY DEF ReadControl, host
<1>2. \A q \in Input : ready'[q] => input_bytes[q] # <<>>  BY <1>1 DEF PortInv, ShapeInv
<1>3. \A q \in Input : Entered(q)' = Entered(q)  BY <1>1 DEF Entered, ports
<1>4. UNCHANGED <<input_bytes, source, received>>  BY <1>1 DEF ports
<1> QED BY <1>1, <1>2, <1>3, <1>4 DEF PortInv, PortBytes

LEMMA TypedGrows ==
  ASSUME ShapeInv, WireInv, NEW p \in Input, NEW b \in KeyBytes, TypeKey(p, b)
  PROVE  /\ WireInv' /\ \A q \in Input : Taken(q)' = Taken(q)
         /\ \A q \in Input : \A n \in 1 .. Taken(q) : typed'[q][n] = typed[q][n]
         /\ UNCHANGED <<heap, ready, received, ports>>
<1>1. /\ wire' = [wire EXCEPT ![p] = Append(wire[p], b)]
      /\ typed' = [typed EXCEPT ![p] = Append(typed[p], b)]
      /\ UNCHANGED <<heap, ready, received, ports>>
  BY DEF TypeKey, guest
<1>2. wire \in [Input -> Seq(KeyBytes)] /\ typed \in [Input -> Seq(KeyBytes)]  BY DEF ShapeInv
<1>3. /\ wire'[p] = Append(wire[p], b) /\ typed'[p] = Append(typed[p], b)
      /\ \A q \in Input \ {p} : wire'[q] = wire[q] /\ typed'[q] = typed[q]
  BY <1>1, <1>2
<1>4. \A q \in Input : /\ Taken(q) \in Nat /\ Len(wire[q]) \in Nat /\ Len(typed[q]) = Taken(q) + Len(wire[q])
                       /\ wire[q] \in Seq(KeyBytes) /\ typed[q] \in Seq(KeyBytes)
                       /\ \A i \in 1 .. Len(wire[q]) : wire[q][i] = typed[q][Taken(q) + i]
  BY WireEnds
<1>5. ASSUME NEW q \in Input
      PROVE  /\ Taken(q)' = Taken(q) /\ \A n \in 1 .. Taken(q) : typed'[q][n] = typed[q][n]
             /\ Len(wire'[q]) <= Len(typed'[q])
             /\ \A i \in 1 .. Len(wire'[q]) : wire'[q][i] = typed'[q][Taken(q) + i]
  <2>1. CASE q # p
    <3>1. wire'[q] = wire[q] /\ typed'[q] = typed[q]  BY <1>3, <2>1
    <3>2. Taken(q)' = Taken(q)  BY <3>1 DEF Taken
    <3> QED BY <1>4, <3>1, <3>2
  <2>2. CASE q = p
    <3> DEFINE w == wire[p]
               y == typed[p]
               t == Taken(p)
    <3>1. /\ t \in Nat /\ Len(w) \in Nat /\ Len(y) = t + Len(w) /\ w \in Seq(KeyBytes) /\ y \in Seq(KeyBytes)
          /\ \A i \in 1 .. Len(w) : w[i] = y[t + i]
      BY <1>4
    <3>2. wire'[p] = Append(w, b) /\ typed'[p] = Append(y, b)  BY <1>3
    <3> HIDE DEF w, y, t
    <3>3. Len(Append(w, b)) = Len(w) + 1 /\ Len(Append(y, b)) = Len(y) + 1  BY <3>1
    <3>4. Taken(p)' = t
      <4>1. Taken(p)' = Len(y) + 1 - (Len(w) + 1)  BY <3>2, <3>3 DEF Taken
      <4> QED BY <3>1, <4>1
    <3>5. \A n \in 1 .. t : Append(y, b)[n] = y[n]  BY <3>1
    <3>6. ASSUME NEW i \in 1 .. Len(w) + 1 PROVE Append(w, b)[i] = Append(y, b)[t + i]
      <4>1. CASE i = Len(w) + 1
        <5>1. t + i = Len(y) + 1  BY <3>1, <4>1
        <5> QED BY <3>1, <4>1, <5>1
      <4>2. CASE i # Len(w) + 1
        <5>1. i \in 1 .. Len(w) /\ t + i \in 1 .. Len(y)  BY <3>1, <4>2
        <5> QED BY <3>1, <5>1
      <4> QED BY <4>1, <4>2
    <3>7. Len(w) + 1 <= Len(y) + 1  BY <3>1
    <3> QED BY <2>2, <3>2, <3>3, <3>4, <3>5, <3>6, <3>7 DEF w, y, t
  <2> QED BY <2>1, <2>2
<1>6. WireInv'
  <2> HIDE DEF Taken
  <2> QED BY <1>5 DEF WireInv
<1> QED BY <1>1, <1>5, <1>6

LEMMA IInvStep == IInv /\ [Next]_vars => IInv'
<1> SUFFICES ASSUME IInv, [Next]_vars PROVE IInv'
  OBVIOUS
<1>1. ShapeInv /\ QueueInv /\ PortInv /\ WireInv /\ KeyInv  BY DEF IInv
<1>2. ShapeInv'  BY <1>1, ShapeStep
<1>3. \A p \in Input : /\ Taken(p) \in Nat /\ Len(source[p]) = Len(Entered(p))
                       /\ KeysStand(p, Entered(p), source[p], typed[p], Taken(p))
  BY <1>1, WireEnds, PortsAre DEF KeyInv
<1>4. CASE UNCHANGED <<heap, ready, received, ports, wire, typed>>
  <2>1. UNCHANGED <<heap, ready, received, input_bytes, source, wire, typed>>  BY <1>4 DEF ports
  <2>2. Waiting' = Waiting  BY <2>1 DEF Waiting
  <2>3. QueueInv'  BY <1>1, <2>1, <2>2 DEF QueueInv
  <2>4. \A p \in Input : Entered(p)' = Entered(p) /\ Taken(p)' = Taken(p)  BY <2>1 DEF Entered, Taken
  <2>5. PortInv'  BY <1>1, <2>1, <2>4 DEF PortInv, PortBytes
  <2>6. WireInv'
    <3> HIDE DEF Taken
    <3> QED BY <1>1, <2>1, <2>4 DEF WireInv
  <2>7. KeyInv'  BY <1>1, <2>1, <2>4 DEF KeyInv
  <2> QED BY <1>2, <2>3, <2>5, <2>6, <2>7 DEF IInv
<1>5. CASE DeliverDue
  <2> DEFINE i == heap[1].sequence
             m == Schedule[i].message
             tags == [a \in 1 .. Len(m) |-> Source("script", i)]
  <2>1. /\ QueueInv' /\ PortInv'
        /\ Grows(Entered("console"), m, Entered("console")') /\ Grows(source["console"], tags, source'["console"])
        /\ \A q \in Input \ {"console"} : Entered(q)' = Entered(q) /\ source'[q] = source[q]
    BY <1>1, <1>5, Delivers
  <2>2. UNCHANGED <<wire, typed>> /\ \A q \in Input : Taken(q)' = Taken(q)
    BY <1>5 DEF DeliverDue, host, Taken
  <2>3. WireInv'
    <3> HIDE DEF Taken
    <3> QED BY <1>1, <2>2 DEF WireInv
  <2>4. \A a \in 1 .. Len(tags) : tags[a].from = "script"
    <3>1. Len(m) \in Nat  BY <2>1 DEF Grows
    <3>2. Len(tags) = Len(m)  BY <3>1
    <3> QED BY <3>2 DEF Source
  <2> HIDE DEF m, tags
  <2>5. KeysStand("console", Entered("console")', source'["console"], typed["console"], Taken("console"))
    <3>1. "console" \in Input  BY InputAssumption
    <3> QED BY <1>3, <2>1, <2>4, <3>1, KeysStandStill
  <2>6. KeyInv'  BY <1>3, <2>1, <2>2, <2>5 DEF KeyInv
  <2> QED BY <1>2, <2>1, <2>3, <2>6 DEF IInv
<1>6. ASSUME NEW p \in Input, Reading(p), HandleEvent(p) PROVE IInv'
  <2> DEFINE b == Transform(p, typed[p][Taken(p) + 1])
             o == Source("keys", Taken(p) + 1)
  <2>1. /\ wire' = [wire EXCEPT ![p] = Tail(wire[p])] /\ wire[p] # <<>>
        /\ Taken(p)' = Taken(p) + 1
        /\ \A q \in Input \ {p} : Taken(q)' = Taken(q) /\ wire'[q] = wire[q]
        /\ UNCHANGED <<heap, typed>>
        /\ PortInv'
        /\ Grows(Entered(p), <<b>>, Entered(p)')
        /\ Grows(source[p], <<o>>, source'[p])
        /\ \A q \in Input \ {p} : Entered(q)' = Entered(q) /\ source'[q] = source[q]
    BY <1>1, <1>6, Takes
  <2>2. Waiting' = Waiting  BY <2>1 DEF Waiting
  <2>3. QueueInv'  BY <1>1, <2>1, <2>2 DEF QueueInv
  <2>4. ASSUME NEW q \in Input
        PROVE  /\ Len(wire'[q]) <= Len(typed'[q])
               /\ \A i \in 1 .. Len(wire'[q]) : wire'[q][i] = typed'[q][Taken(q)' + i]
    <3>1. /\ Taken(q) \in Nat /\ Len(wire[q]) \in Nat /\ Len(typed[q]) = Taken(q) + Len(wire[q])
          /\ wire[q] \in Seq(KeyBytes)
          /\ \A i \in 1 .. Len(wire[q]) : wire[q][i] = typed[q][Taken(q) + i]
      BY <1>1, WireEnds
    <3>2. CASE q = p
      <4>1. wire'[p] = Tail(wire[p]) /\ typed' = typed  BY <1>1, <2>1 DEF ShapeInv
      <4>2. /\ Len(Tail(wire[p])) = Len(wire[p]) - 1
            /\ \A i \in 1 .. Len(wire[p]) - 1 : Tail(wire[p])[i] = wire[p][i + 1]
        BY <2>1, <3>1, <3>2
      <4>3. \A i \in 1 .. Len(wire[p]) - 1 : /\ i + 1 \in 1 .. Len(wire[p])
                                             /\ Taken(p) + (i + 1) = (Taken(p) + 1) + i
        BY <3>1, <3>2
      <4>4. Len(Tail(wire[p])) <= Len(typed[p])  BY <3>1, <3>2, <4>2
      <4>5. \A i \in 1 .. Len(Tail(wire[p])) : Tail(wire[p])[i] = typed[p][(Taken(p) + 1) + i]
        <5> HIDE DEF Taken
        <5> QED BY <3>1, <3>2, <4>2, <4>3
      <4> HIDE DEF Taken
      <4> QED BY ONLY <2>1, <3>2, <4>1, <4>4, <4>5
    <3>3. CASE q # p
      <4>1. wire'[q] = wire[q] /\ typed'[q] = typed[q] /\ Taken(q)' = Taken(q)  BY <2>1, <3>3
      <4> QED BY <3>1, <4>1
    <3> QED BY <3>2, <3>3
  <2>5. WireInv'
    <3> HIDE DEF Taken
    <3> QED BY <2>4 DEF WireInv
  <2>6. KeysStand(p, Entered(p)', source'[p], typed[p], Taken(p) + 1)
    <3> HIDE DEF o
    <3> QED BY <1>3, <2>1, KeyStands DEF o
  <2> HIDE DEF b, o
  <2>7. KeyInv'  BY <1>3, <2>1, <2>6 DEF KeyInv
  <2> QED BY <1>2, <2>1, <2>3, <2>5, <2>7 DEF IInv
<1>7. ASSUME NEW p \in Input, ReadControl(p) \/ ReadData(p) PROVE IInv'
  <2>1. PortInv' /\ UNCHANGED <<heap, wire, typed, source>> /\ \A q \in Input : Entered(q)' = Entered(q)
    <3>1. CASE ReadControl(p)
      <4>1. PortInv' /\ UNCHANGED <<heap, wire, typed, received, input_bytes, source>>
        BY <1>1, <3>1, GuestIsTold DEF ports
      <4> QED BY <4>1 DEF Entered
    <3>2. CASE ReadData(p)  BY <1>1, <3>2, GuestTakes
    <3> QED BY <1>7, <3>1, <3>2
  <2>2. Waiting' = Waiting  BY <2>1 DEF Waiting
  <2>3. QueueInv'  BY <1>1, <2>1, <2>2 DEF QueueInv
  <2>4. \A q \in Input : Taken(q)' = Taken(q)  BY <2>1 DEF Taken
  <2>5. WireInv'
    <3> HIDE DEF Taken
    <3> QED BY <1>1, <2>1, <2>4 DEF WireInv
  <2>6. KeyInv'  BY <1>1, <2>1, <2>4 DEF KeyInv
  <2> QED BY <1>2, <2>1, <2>3, <2>5, <2>6 DEF IInv
<1>8. ASSUME NEW p \in Input, NEW b \in KeyBytes, TypeKey(p, b) PROVE IInv'
  <2>1. /\ WireInv' /\ \A q \in Input : Taken(q)' = Taken(q)
        /\ \A q \in Input : \A n \in 1 .. Taken(q) : typed'[q][n] = typed[q][n]
        /\ UNCHANGED <<heap, ready, received, input_bytes, source>>
    BY <1>1, <1>8, TypedGrows DEF ports
  <2>2. Waiting' = Waiting  BY <2>1 DEF Waiting
  <2>3. QueueInv'  BY <1>1, <2>1, <2>2 DEF QueueInv
  <2>4. \A q \in Input : Entered(q)' = Entered(q)  BY <2>1 DEF Entered
  <2>5. PortInv'  BY <1>1, <2>1, <2>4 DEF PortInv, PortBytes
  <2>6. \A q \in Input : KeysStand(q, Entered(q), source[q], typed'[q], Taken(q))
    BY <1>3, <2>1, KeysStandAsTyped
  <2>7. KeyInv'  BY <2>1, <2>4, <2>6 DEF KeyInv
  <2> QED BY <1>2, <2>1, <2>3, <2>5, <2>7 DEF IInv
<1> QED BY <1>4, <1>5, <1>6, <1>7, <1>8, Quiet

\* The inductive invariant holds for any script, streams, keys, number of keys and time.
THEOREM Invariance == Spec => []IInv
<1> QED BY InitInv, IInvStep, PTL DEF Spec

-----------------------------------------------------------------------------
(***************************************************************************)
(* What follows for any script.                                            *)
(***************************************************************************)
\* The type invariant: the queue is a list of messages, the guest at the console never
\* sees an eighth bit, the one at the aux port sees all eight.
THEOREM TypeCorrect == Spec => []TypeOK
<1>1. IInv => TypeOK
  <2> SUFFICES ASSUME IInv PROVE TypeOK
    OBVIOUS
  <2>1. heap \in Seq(Item)  BY DEF IInv, QueueInv, Holds
  <2>2. ShapeInv /\ PortInv  BY DEF IInv
  <2>3. ASSUME NEW p \in Input
        PROVE  /\ input_bytes[p] \in Seq(PortBytes(p)) /\ received[p] \in Seq(PortBytes(p))
               /\ wire[p] \in Seq(KeyBytes) /\ typed[p] \in Seq(KeyBytes)
               /\ source[p] \in Seq([from : {"keys", "script"}, nth : Nat])
    BY <2>2 DEF ShapeInv, PortInv, Origin
  <2> QED BY <2>1, <2>2, <2>3 DEF TypeOK, ShapeInv
<1> QED BY Invariance, <1>1, PTL

\* Each byte the host wrote to a stream enters its port once and in order, transformed
\* as the port's input is, among the bytes of any script, whatever its deadlines, and
\* across hangups; what has not been read is the end of what was written.
THEOREM KeysArriveInOrder == Spec => []KeysInOrder
<1>1. IInv => KeysInOrder
  <2> SUFFICES ASSUME IInv, NEW p \in Input
               PROVE  /\ Len(source[p]) = Len(Entered(p))
                      /\ wire[p] = SubSeq(typed[p], Taken(p) + 1, Len(typed[p]))
                      /\ \A n \in 1 .. Taken(p) : \E a \in From(p, "keys") : source[p][a].nth = n
                      /\ \A a \in From(p, "keys") :
                           /\ source[p][a].nth \in 1 .. Taken(p)
                           /\ Entered(p)[a] = Transform(p, typed[p][source[p][a].nth])
                      /\ \A a, b \in From(p, "keys") : a < b => source[p][a].nth < source[p][b].nth
    BY DEF KeysInOrder
  <2>1. ShapeInv /\ PortInv /\ WireInv /\ KeyInv  BY DEF IInv
  <2>2. Len(source[p]) = Len(Entered(p))  BY <2>1, PortsAre
  <2>3. wire[p] = SubSeq(typed[p], Taken(p) + 1, Len(typed[p]))
    <3> DEFINE w == wire[p]
               y == typed[p]
               t == Taken(p)
    <3>1. /\ t \in Nat /\ Len(w) \in Nat /\ Len(y) = t + Len(w) /\ w \in Seq(KeyBytes) /\ y \in Seq(KeyBytes)
          /\ \A i \in 1 .. Len(w) : y[t + i] = w[i]
      BY <2>1, WireEnds
    <3> HIDE DEF w, y, t
    <3>2. SubSeq(y, t + 1, t + Len(w)) = w
      <4>1. t + Len(w) <= Len(y)  BY <3>1
      <4> QED BY <3>1, <4>1, Part
    <3> QED BY <3>1, <3>2 DEF w, y, t
  <2>4. From(p, "keys") = {a \in 1 .. Len(source[p]) : source[p][a].from = "keys"}
    <3>1. source[p] \in Seq(Origin)  BY <2>1, PortsAre
    <3>2. DOMAIN source[p] = 1 .. Len(source[p])  BY <3>1
    <3> QED BY <3>2 DEF From
  <2>5. KeysStand(p, Entered(p), source[p], typed[p], Taken(p))  BY <2>1 DEF KeyInv
  <2> HIDE DEF From, Entered, Taken
  <2>6. /\ \A n \in 1 .. Taken(p) : \E a \in From(p, "keys") : source[p][a].nth = n
        /\ \A a \in From(p, "keys") :
             /\ source[p][a].nth \in 1 .. Taken(p)
             /\ Entered(p)[a] = Transform(p, typed[p][source[p][a].nth])
        /\ \A a, b \in From(p, "keys") : a < b => source[p][a].nth < source[p][b].nth
    BY <2>4, <2>5 DEF KeysStand
  <2> QED BY <2>2, <2>3, <2>6
<1> QED BY Invariance, <1>1, PTL

-----------------------------------------------------------------------------
(***************************************************************************)
(* What follows for a script whose delays are numbers.                     *)
(***************************************************************************)
LEMMA TimedStep == Timed /\ IInv /\ TimedInv /\ [Next]_vars => TimedInv'
<1> SUFFICES ASSUME Timed, IInv, TimedInv, [Next]_vars PROVE TimedInv'
  OBVIOUS
<1>1. /\ Heap(heap) /\ \A i \in Sent : AtMost(Schedule[i].deadline, now)
      /\ \A i \in Sent, j \in Waiting : Before(i, j)
      /\ ScriptStands(Entered("console"), source["console"], Sent)
      /\ pc = "inputs" => ~HeadIsDue
  BY DEF TimedInv
<1>2. ShapeInv /\ QueueInv /\ PortInv /\ WireInv  BY DEF IInv
<1>3. /\ \A i \in DOMAIN Schedule : /\ Schedule[i].deadline \in Nat /\ Schedule[i].sequence = i /\ i \in Nat
                                    /\ Len(Schedule[i].message) \in Nat /\ Schedule[i] \in Timely
      /\ Sent \in SUBSET DOMAIN Schedule /\ Waiting \in SUBSET DOMAIN Schedule
  <2>1. ASSUME NEW i \in DOMAIN Schedule
        PROVE  /\ Schedule[i].deadline \in Nat /\ Schedule[i].sequence = i /\ i \in Nat
               /\ Len(Schedule[i].message) \in Nat /\ Schedule[i] \in Timely
    <3>1. Schedule[i] \in Item /\ Schedule[i] \in Timely /\ Schedule[i].sequence = i /\ i \in Nat
      BY ScheduleIs
    <3>2. Schedule[i].message \in Text  BY <3>1 DEF Item
    <3>3. Schedule[i].deadline \in Nat  BY <3>1 DEF Timely, Item, Time
    <3>4. Len(Schedule[i].message) \in Nat  BY <3>2 DEF Text
    <3> QED BY <3>1, <3>3, <3>4
  <2> QED BY <1>2, <2>1 DEF Sent, QueueInv
<1>4. now \in Nat /\ now' \in Nat /\ now <= now'
  <2>1. ShapeInv'  BY <1>2, ShapeStep
  <2>2. now \in 0 .. clock /\ now' \in 0 .. clock' /\ clock \in Nat /\ clock' \in Nat
    BY <1>2, <2>1, InputAssumption DEF ShapeInv
  <2>3. now' = now \/ now' = clock
    BY DEF Next, Loop, Guest, World, PollScheduled, DeliverDue, NoneDue, PollInputs, HandleEvent,
           EventsHandled, ReadControl, ReadData, EndOfChunk, HangUp, TypeKey, Tick, vars
  <2> QED BY <2>2, <2>3
<1>5. \A i \in Sent : AtMost(Schedule[i].deadline, now')  BY <1>1, <1>3, <1>4 DEF AtMost, NaN
<1>6. pc' = "inputs" => ~HeadIsDue'
  <2>1. CASE NoneDue  BY <2>1 DEF NoneDue, HeadIsDue
  <2>2. CASE pc' = "inputs" /\ ~NoneDue
    <3>1. pc = "inputs" /\ UNCHANGED <<now, heap>>
      BY <2>2 DEF Next, Loop, Guest, World, PollScheduled, DeliverDue, PollInputs, HandleEvent,
           EventsHandled, ReadControl, ReadData, EndOfChunk, HangUp, TypeKey, Tick, vars
    <3> QED BY <1>1, <3>1 DEF HeadIsDue
  <2> QED BY <2>1, <2>2
<1>7. ASSUME UNCHANGED heap, ScriptStands(Entered("console")', source'["console"], Sent)
      PROVE  TimedInv'
  <2>1. Waiting' = Waiting /\ Sent' = Sent  BY <1>7 DEF Waiting, Sent
  <2> QED BY <1>1, <1>5, <1>6, <1>7, <2>1 DEF TimedInv
<1>8. "console" \in Input  BY InputAssumption
<1>9. CASE UNCHANGED <<heap, ready, received, ports, wire, typed>>
  <2>1. UNCHANGED <<heap, received, input_bytes, source>>  BY <1>9 DEF ports
  <2>2. Entered("console")' = Entered("console")  BY <2>1 DEF Entered
  <2> QED BY <1>1, <1>7, <2>1, <2>2
<1>10. CASE DeliverDue
  <2> DEFINE i == heap[1].sequence
             m == Schedule[i].message
             tags == [a \in 1 .. Len(m) |-> Source("script", i)]
  <2>1. /\ i \in Waiting /\ Waiting' = Waiting \ {i} /\ heap[1] = Schedule[i]
        /\ Grows(Entered("console"), m, Entered("console")')
        /\ Grows(source["console"], tags, source'["console"])
    BY <1>2, <1>10, Delivers
  <2>2. /\ heap' = Pop(heap) /\ heap # <<>> /\ AtMost(heap[1].deadline, now) /\ now' = now
    BY <1>10 DEF DeliverDue, HeadIsDue
  <2>3. Items(Waiting) \in SUBSET Timely /\ Holds(heap, Items(Waiting))
    BY <1>2, <1>3 DEF Items, QueueInv
  <2>4. Heap(heap')  BY <1>1, <2>2, <2>3, PopMakesHeap
  <2>5. Sent' = Sent \cup {i}  BY <1>3, <2>1 DEF Sent
  <2>6. i \in DOMAIN Schedule /\ i \notin Sent  BY <1>3, <2>1 DEF Sent
  <2>7. \A j \in Waiting \ {i} : Before(i, j)
    <3> SUFFICES ASSUME NEW j \in Waiting \ {i} PROVE Before(i, j)
      OBVIOUS
    <3>1. PICK k \in 1 .. Len(heap) : heap[k] = Schedule[j]  BY <1>2, WaitingIs DEF QueueInv
    <3>2. ~Less(heap[k], heap[1])  BY <1>1, <2>3, RootIsLeast
    <3>3. ~Less(Schedule[j], Schedule[i])  BY <2>1, <3>1, <3>2
    <3>4. /\ Schedule[i].deadline \in Nat /\ Schedule[j].deadline \in Nat /\ i \in Nat /\ j \in Nat
          /\ Schedule[i].sequence = i /\ Schedule[j].sequence = j
      BY <1>3, <2>6
    <3> HIDE DEF i
    <3>5. j # i  OBVIOUS
    <3> QED BY <3>3, <3>4, <3>5 DEF Less, Before, NaN
  <2>8. /\ \A j \in Waiting' : Before(i, j)
        /\ \A j \in Sent, l \in Waiting' : Before(j, l)
    BY <1>1, <2>1, <2>7
  <2>9. \A j \in Sent', l \in Waiting' : Before(j, l)  BY <2>5, <2>8
  <2>10. \A j \in Sent' : AtMost(Schedule[j].deadline, now')  BY <1>5, <2>1, <2>2, <2>5
  <2>11. ScriptStands(Entered("console")', source'["console"], Sent')
    <3>1. Len(m) \in Nat  BY <2>1 DEF Grows
    <3>2. Len(tags) = Len(m) /\ \A a \in 1 .. Len(tags) : tags[a].from = "script" /\ tags[a].nth = i
      BY <3>1 DEF Source
    <3>3. \A j \in Sent : Before(j, i) /\ Len(Schedule[j].message) \in Nat  BY <1>1, <1>3, <2>1
    <3>4. Len(Entered("console")) = Len(source["console"])  BY <1>2, <1>8, PortsAre
    <3>5. ScriptStands(Entered("console")', source'["console"], Sent \cup {i})
      <4> HIDE DEF i, tags
      <4> QED BY <1>1, <2>1, <2>6, <3>2, <3>3, <3>4, MessageStands
    <3> QED BY <2>5, <3>5
  <2> QED BY <1>6, <2>4, <2>9, <2>10, <2>11 DEF TimedInv
<1>11. ASSUME NEW p \in Input, Reading(p), HandleEvent(p) PROVE TimedInv'
  <2> DEFINE b == Transform(p, typed[p][Taken(p) + 1])
             o == Source("keys", Taken(p) + 1)
  <2>1. /\ UNCHANGED heap
        /\ Grows(Entered(p), <<b>>, Entered(p)') /\ Grows(source[p], <<o>>, source'[p])
        /\ \A q \in Input \ {p} : Entered(q)' = Entered(q) /\ source'[q] = source[q]
    BY <1>2, <1>11, Takes
  <2>2. Len(Entered(p)) = Len(source[p])  BY <1>2, PortsAre
  <2>3. \A a \in 1 .. Len(<<o>>) : <<o>>[a].from = "keys"  BY DEF Source
  <2>4. \A j \in Sent : Len(Schedule[j].message) \in Nat  BY <1>3
  <2> HIDE DEF b, o
  <2>5. CASE p = "console"
    <3>1. ScriptStands(Entered("console")', source'["console"], Sent)
      BY <1>1, <2>1, <2>2, <2>3, <2>4, <2>5, ScriptStandsStill
    <3> QED BY <1>7, <2>1, <3>1
  <2>6. CASE p # "console"
    <3>1. Entered("console")' = Entered("console") /\ source'["console"] = source["console"]
      BY <1>8, <2>1, <2>6
    <3> QED BY <1>1, <1>7, <2>1, <3>1
  <2> QED BY <2>5, <2>6
<1>12. ASSUME NEW p \in Input, ReadControl(p) \/ ReadData(p) PROVE TimedInv'
  <2>1. UNCHANGED <<heap, source>> /\ Entered("console")' = Entered("console")
    <3>1. CASE ReadControl(p)
      <4>1. UNCHANGED <<heap, received, input_bytes, source>>  BY <1>2, <3>1, GuestIsTold DEF ports
      <4> QED BY <4>1 DEF Entered
    <3>2. CASE ReadData(p)  BY <1>2, <1>8, <3>2, GuestTakes
    <3> QED BY <1>12, <3>1, <3>2
  <2> QED BY <1>1, <1>7, <2>1
<1>13. ASSUME NEW p \in Input, NEW b \in KeyBytes, TypeKey(p, b) PROVE TimedInv'
  <2>1. UNCHANGED <<heap, received, input_bytes, source>>  BY <1>13 DEF TypeKey, guest, ports
  <2>2. Entered("console")' = Entered("console")  BY <2>1 DEF Entered
  <2> QED BY <1>1, <1>7, <2>1, <2>2
<1> QED BY <1>9, <1>10, <1>11, <1>12, <1>13, Quiet

\* For a script whose delays are numbers, the queue stays a heap, and what has been
\* sent was due and came before all that waits.
THEOREM TimedInvariance == Timed => (Spec => []TimedInv)
<1> SUFFICES ASSUME Timed PROVE Spec => []TimedInv
  OBVIOUS
<1>1. Init => TimedInv  BY InitInv
<1>2. IInv /\ TimedInv /\ [Next]_vars => TimedInv'  BY TimedStep
<1> QED BY <1>1, <1>2, Invariance, PTL DEF Spec

\* For such a script, of any length, messages arrive whole and in the order of their
\* deadlines, then of their calls of schedule_at; a key comes between two of them.
THEOREM ScriptArrivesInOrder == Timed => (Spec => []ScriptInOrder)
<1> SUFFICES ASSUME Timed PROVE Spec => []ScriptInOrder
  OBVIOUS
<1>1. IInv /\ TimedInv => ScriptInOrder
  <2> SUFFICES ASSUME IInv, TimedInv PROVE ScriptInOrder
    OBVIOUS
  <2> DEFINE s == Entered("console")
             o == source["console"]
             script == {a \in 1 .. Len(o) : o[a].from = "script"}
  <2>1. s \in Seq(0 .. 127) /\ o \in Seq(Origin) /\ Len(o) = Len(s)
    <3>1. PortInv /\ "console" \in Input  BY InputAssumption DEF IInv
    <3> QED BY <3>1, PortsAre DEF PortBytes
  <2>2. From("console", "script") = script
    <3>1. DOMAIN o = 1 .. Len(o)  BY <2>1
    <3> QED BY <3>1 DEF From
  <2>3. /\ \A i \in Sent : Stands(i, s, o)
        /\ \A a \in script : o[a].nth \in Sent
        /\ \A a, b \in script : a < b => o[a].nth = o[b].nth \/ Before(o[a].nth, o[b].nth)
    BY DEF TimedInv, ScriptStands
  <2>4. ASSUME NEW i \in Sent
        PROVE  \E k \in 0 .. Len(o) - Len(Schedule[i].message) : StandsAfter(k, i)
    <3> DEFINE m == Schedule[i].message
    <3>1. m \in Seq(0 .. 127) /\ Len(m) \in Nat
      <4>1. i \in 1 .. Len(Schedule)  BY ScheduleIs DEF Sent
      <4>2. m \in Text  BY <4>1, ScheduleIs DEF Item
      <4> QED BY <4>2 DEF Text
    <3>2. PICK k \in 0 .. Len(o) - Len(m) :
             /\ \A a \in 1 .. Len(m) : s[k + a] = m[a]
             /\ \A a \in 1 .. Len(o) : o[a].from = "script" /\ o[a].nth = i <=> a \in k + 1 .. k + Len(m)
      BY <2>3 DEF Stands
    <3> HIDE DEF s, o, m
    <3>3. SubSeq(s, k + 1, k + Len(m)) = m
      <4>1. k \in Nat /\ k + Len(m) <= Len(s)  BY <2>1, <3>1
      <4> QED BY <2>1, <3>1, <3>2, <4>1, Part
    <3>4. {a \in script : o[a].nth = i} = k + 1 .. k + Len(m)
      <4>1. Len(o) \in Nat  BY <2>1
      <4>2. k + 1 .. k + Len(m) \subseteq 1 .. Len(o)  BY <3>1, <4>1
      <4> QED BY <3>2, <4>2
    <3> QED BY <2>2, <3>3, <3>4 DEF StandsAfter, s, o, m
  <2> HIDE DEF script, s
  <2> QED BY <2>2, <2>3, <2>4 DEF ScriptInOrder
<1> QED BY <1>1, Invariance, TimedInvariance, PTL

\* For such a script, when poll returns exactly the messages whose deadline has not
\* come are waiting.  Without the hypothesis this is what ConsoleInputNaN refutes.
THEOREM DueAreDelivered == Timed => (Spec => []DueExactly)
<1> SUFFICES ASSUME Timed PROVE Spec => []DueExactly
  OBVIOUS
<1>1. IInv /\ TimedInv => DueExactly
  <2> SUFFICES ASSUME IInv, TimedInv, pc = "inputs"
               PROVE  Waiting = {i \in DOMAIN Schedule : ~AtMost(Schedule[i].deadline, now)}
    BY DEF DueExactly
  <2>1. /\ Waiting \in SUBSET DOMAIN Schedule /\ Holds(heap, Items(Waiting))
        /\ Heap(heap) /\ ~HeadIsDue /\ now \in Nat
        /\ \A i \in Sent : AtMost(Schedule[i].deadline, now)
    BY InputAssumption DEF IInv, QueueInv, TimedInv, ShapeInv
  <2>2. \A i \in DOMAIN Schedule : Schedule[i] \in Timely /\ Schedule[i].deadline \in Nat
    <3>1. \A i \in DOMAIN Schedule : Schedule[i] \in Timely  BY ScheduleIs
    <3> QED BY <3>1 DEF Timely, Item, Time
  <2>3. ASSUME NEW i \in Waiting PROVE ~AtMost(Schedule[i].deadline, now)
    <3>1. PICK k \in 1 .. Len(heap) : heap[k] = Schedule[i]  BY <2>1, WaitingIs
    <3>2. Items(Waiting) \in SUBSET Timely  BY <2>1, <2>2 DEF Items
    <3>3. ~Less(Schedule[i], heap[1])  BY <2>1, <3>1, <3>2, RootIsLeast
    <3>4. heap \in Seq(Item) /\ heap # <<>> /\ 1 \in 1 .. Len(heap)  BY <2>1, <3>1 DEF Holds
    <3>5. heap[1].sequence \in Waiting /\ heap[1] = Schedule[heap[1].sequence]  BY <2>1, <3>4, WaitingIs
    <3>6. heap[1].deadline \in Nat /\ Schedule[i].deadline \in Nat  BY <2>1, <2>2, <3>5
    <3>7. ~(heap[1].deadline <= now)  BY <2>1, <3>4, <3>6 DEF HeadIsDue, AtMost, NaN
    <3>8. heap[1].deadline <= Schedule[i].deadline  BY <3>3, <3>6 DEF Less, NaN
    <3> QED BY <2>1, <3>6, <3>7, <3>8 DEF AtMost
  <2> QED BY <2>1, <2>3 DEF Sent
<1> QED BY <1>1, Invariance, TimedInvariance, PTL
=============================================================================
