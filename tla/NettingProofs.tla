---------------------------- MODULE NettingProofs ----------------------------
(***************************************************************************)
(* Proofs about the loop of greedy_match, for every list of obligations,   *)
(* of any length, between any banks: what is paid and what is left add up  *)
(* to the positions at every iteration; when the loop exits on one side,   *)
(* the other is paid out too; and the transfers are the overlaps of the    *)
(* debts and the credits laid end to end, each once.                       *)
(***************************************************************************)
EXTENDS NettingLoop, NettingLemmas

(* The inductive invariant: what Matching says of the accounts, and the    *)
(* positions.                                                              *)
LoopInvariant ==
  /\ obligations \in Seq(Flow(Bank))
  /\ Matching(loop, Bank)
  /\ PositionsPreserved

LEMMA LoopInit == Init => LoopInvariant
<1> SUFFICES ASSUME Init PROVE LoopInvariant
  OBVIOUS
<1>1. obligations \in Seq(Flow(Bank))
  <2> DEFINE Row == {Obligation(from, to, amount) : from, to \in Bank, amount \in Amounts}
  <2>1. PICK n \in 0 .. MaxObligations : obligations \in [1 .. n -> Row]
    BY DEF Init, ObligationList
  <2>2. Row \subseteq Flow(Bank)
    BY NettingLoopAssumption DEF Obligation, Flow
  <2>3. n \in Nat
    BY NettingLoopAssumption
  <2> HIDE DEF Row
  <2>4. obligations \in [1 .. n -> Flow(Bank)]
    BY <2>1, <2>2
  <2> QED  BY <2>3, <2>4, FunctionIsSeq
<1>2. loop = GreedyInit(CalculateNetPositions(obligations))
  BY DEF Init
<1>3. Matching(loop, Bank)
  BY <1>1, <1>2, StartMatches
<1>4. PositionsPreserved
  BY <1>1, <1>2, StartDue DEF PositionsPreserved
<1> QED  BY <1>1, <1>3, <1>4 DEF LoopInvariant

LEMMA LoopStep == LoopInvariant /\ [Next]_vars => LoopInvariant'
<1> SUFFICES ASSUME LoopInvariant, [Next]_vars PROVE LoopInvariant'
  OBVIOUS
<1>1. CASE Iterate
  <2>1. /\ Unfinished(loop) /\ loop' = GreedyStep(loop) /\ obligations' = obligations
        /\ Matching(loop, Bank) /\ obligations \in Seq(Flow(Bank))
        /\ \A bank \in Bank :
             NetOf(loop.transfers, bank) + StillDue(loop, bank) = NetOf(obligations, bank)
    BY <1>1 DEF Iterate, LoopInvariant, PositionsPreserved
  <2>2. Matching(loop', Bank)
    BY <2>1, StepMatches
  <2>3. \A bank \in Bank :
          NetOf(loop'.transfers, bank) + StillDue(loop', bank) = NetOf(obligations', bank)
    BY <2>1, StepKeepsPositions
  <2> QED  BY <2>1, <2>2, <2>3 DEF LoopInvariant, PositionsPreserved
<1>2. CASE UNCHANGED vars
  BY <1>2 DEF vars, LoopInvariant, PositionsPreserved
<1> QED  BY <1>1, <1>2 DEF Next

LEMMA LoopHolds == Spec => []LoopInvariant
BY LoopInit, LoopStep, PTL DEF Spec

(* greedy_match neither creates nor loses money: at every iteration the    *)
(* transfers made and what is left on the accounts give each bank its net  *)
(* position.                                                               *)
THEOREM PositionsKept == Spec => []PositionsPreserved
<1>1. LoopInvariant => PositionsPreserved
  BY DEF LoopInvariant
<1> QED  BY <1>1, LoopHolds, PTL

(* The loop looks at one index at a time and exits on the first side that  *)
(* is passed, yet no bank is left with a debt or a credit, and N banks get *)
(* at most N - 1 transfers, real ones.                                     *)
THEOREM PaidOut == Spec => []PaidOutInFewTransfers
<1>1. ASSUME LoopInvariant PROVE PaidOutInFewTransfers
  <2> SUFFICES ASSUME Finished PROVE PaidOutInFewTransfers
    BY DEF PaidOutInFewTransfers
  <2>1. Matching(loop, Bank) /\ ~ Unfinished(loop)
    BY <1>1 DEF LoopInvariant, Finished
  <2>2. /\ loop.d = Len(loop.debtors) + 1 /\ loop.c = Len(loop.creditors) + 1
        /\ \A bank : StillDue(loop, bank) = 0
    BY <2>1, BothPaidOut
  <2>3. \A i \in DOMAIN loop.transfers : /\ loop.transfers[i].amount > 0
                                         /\ loop.transfers[i].from # loop.transfers[i].to
    BY <2>1 DEF Matching, RealTransfers
  <2>4. loop.transfers # <<>> => Len(loop.transfers) < (loop.d - 1) + (loop.c - 1)
    BY <2>1 DEF Matching, FewTransfers
  <2>5. Len(loop.debtors) \in Nat /\ Len(loop.creditors) \in Nat
    BY <2>1, SeqDomain DEF Matching, LoopState
  <2>6. (loop.d - 1) + (loop.c - 1) = Len(loop.debtors) + Len(loop.creditors)
    BY <2>2, <2>5
  <2> QED  BY <2>2, <2>3, <2>4, <2>6 DEF PaidOutInFewTransfers
<1> QED  BY <1>1, LoopHolds, PTL

-----------------------------------------------------------------------------
(* The interval match *)

(* The accounts of a side laid end to end: p[k] is where the k-th starts.  *)
Laid(p, side) ==
  /\ p \in [1 .. Len(side) + 1 -> Nat]
  /\ p[1] = 0
  /\ \A k \in DOMAIN side : p[k + 1] = p[k] + side[k].left

(* The k-th account of a side stands for a position and has its Start.     *)
LaidAs(p, side, order, positions, sign) ==
  /\ Laid(p, side)
  /\ order \in Bijection(1 .. Len(side), SideOf(positions, sign))
  /\ \A k \in DOMAIN side :
       /\ side[k].bank = positions[order[k]].bank
       /\ side[k].left = Sizes(positions, sign)[order[k]]
       /\ Start(positions, sign, order[k]) = p[k]

(* What lies before an account of the sorted side: the accounts listed     *)
(* before it.                                                              *)
LEMMA BeforeListed ==
  ASSUME NEW B, NEW owed, NEW positions, PositionsOf(positions, owed, B),
         NEW sign \in {-1, 1}, NEW n, n = Cardinality(SideOf(positions, sign)),
         NEW order, order = Sorted(SideOf(positions, sign), Decreasing(positions, sign)),
         NEW k \in 1 .. n
  PROVE  LET size == Sizes(positions, sign)
         IN  {j \in DOMAIN positions :
                /\ size[j] > 0
                /\ \/ size[j] > size[order[k]]
                   \/ size[j] = size[order[k]] /\ j < order[k]} = {order[j] : j \in 1 .. k - 1}
<1> DEFINE S == SideOf(positions, sign)
           R == Decreasing(positions, sign)
           size == Sizes(positions, sign)
           e == order[k]
           Before == {j \in DOMAIN positions :
                        /\ size[j] > 0
                        /\ \/ size[j] > size[e]
                           \/ size[j] = size[e] /\ j < e}
<1>1. /\ n \in Nat /\ order \in Bijection(1 .. n, S)
      /\ \A i, j \in 1 .. n : i < j => <<order[i], order[j]>> \in R
      /\ Orders(R, S)
  BY DecreasingOrders, SortedLists
<1>2. /\ order \in [1 .. n -> S]
      /\ \A i \in S : \E j \in 1 .. n : order[j] = i
  BY <1>1 DEF Bijection, Injection, Surjection
<1>3. S \subseteq DOMAIN positions /\ e \in S
  BY <1>2 DEF SideOf
<1>4. /\ \A j \in DOMAIN positions : size[j] = sign * positions[j].net
      /\ \A j \in DOMAIN positions : j \in S <=> size[j] > 0
      /\ \A j \in DOMAIN positions : positions[j].net \in Int
  BY DEF Sizes, SideOf, PositionsOf
<1>5. ASSUME NEW j \in DOMAIN positions
      PROVE  positions[j].net = positions[e].net <=> size[j] = size[e]
  <2>1. /\ positions[j].net \in Int /\ positions[e].net \in Int
        /\ size[j] = sign * positions[j].net /\ size[e] = sign * positions[e].net
    BY <1>3, <1>4
  <2> HIDE DEF size, e
  <2>2. CASE sign = 1
    BY <2>1, <2>2
  <2>3. CASE sign = -1
    BY <2>1, <2>3
  <2> QED  BY <2>2, <2>3
<1>6. \A j \in DOMAIN positions :
        <<j, e>> \in R <=> size[j] > size[e] \/ (size[j] = size[e] /\ j < e)
  BY <1>3, <1>4, <1>5 DEF Decreasing
<1> HIDE DEF size
<1>7. \A j \in DOMAIN positions : j \in Before <=> j \in S /\ <<j, e>> \in R
  BY <1>4, <1>6
<1> HIDE DEF S, R
<1>8. ASSUME NEW i \in 1 .. n PROVE <<order[i], e>> \in R <=> i < k
  <2>1. order[i] \in S /\ order[i] \in S /\ i \in Int /\ k \in Int
    BY <1>1, <1>2
  <2>2. i < k => <<order[i], e>> \in R
    BY <1>1
  <2>3. CASE i = k
    BY <1>1, <1>3, <2>1, <2>3 DEF Orders
  <2>4. CASE k < i
    <3>1. <<e, order[i]>> \in R
      BY <1>1, <2>4
    <3>2. <<order[i], e>> \notin R
      BY <1>1, <1>3, <2>1, <3>1 DEF Orders
    <3> QED  BY <2>1, <2>4, <3>2
  <2> QED  BY <2>1, <2>2, <2>3, <2>4
<1> HIDE DEF e, Before
<1>9. Before \subseteq {order[j] : j \in 1 .. k - 1}
  <2> SUFFICES ASSUME NEW x \in Before PROVE x \in {order[j] : j \in 1 .. k - 1}
    OBVIOUS
  <2>1. x \in S /\ <<x, e>> \in R
    BY <1>7 DEF Before
  <2>2. PICK i \in 1 .. n : order[i] = x
    BY <1>2, <2>1
  <2>3. i < k
    BY <1>8, <2>1, <2>2
  <2>4. i \in 1 .. k - 1
    BY <1>1, <2>3
  <2> QED  BY <2>2, <2>4
<1>10. {order[j] : j \in 1 .. k - 1} \subseteq Before
  <2> SUFFICES ASSUME NEW i \in 1 .. k - 1 PROVE order[i] \in Before
    OBVIOUS
  <2>1. i \in 1 .. n /\ i < k
    BY <1>1
  <2>2. order[i] \in S /\ <<order[i], e>> \in R
    BY <1>2, <1>8, <2>1
  <2>3. order[i] \in DOMAIN positions
    BY <1>3, <2>2
  <2> QED  BY <1>7, <2>2, <2>3
<1> QED  BY <1>9, <1>10 DEF Before, e, size

(* A sorted side laid end to end: each account starts where the definition *)
(* of Start says.                                                          *)
LEMMA SideLaid ==
  ASSUME NEW B, NEW owed, NEW positions, PositionsOf(positions, owed, B),
         NEW sign \in {-1, 1}, NEW side, side = Side(positions, sign),
         NEW order, order = Sorted(SideOf(positions, sign), Decreasing(positions, sign))
  PROVE  \E p : LaidAs(p, side, order, positions, sign)
<1> DEFINE S == SideOf(positions, sign)
           n == Cardinality(S)
           size == Sizes(positions, sign)
           Q(k) == {order[j] : j \in 1 .. k - 1}
           p == [k \in 1 .. n + 1 |-> SumFunctionOnSet(size, Q(k))]
<1>1. /\ n \in Nat /\ DOMAIN order = 1 .. n /\ order \in Bijection(1 .. n, S) /\ IsFiniteSet(S)
  BY DecreasingOrders, SortedLists
<1>2. /\ order \in [1 .. n -> S]
      /\ \A i, j \in 1 .. n : order[i] = order[j] => i = j
  BY <1>1 DEF Bijection, Injection, IsInjective
<1>3. /\ \A j \in DOMAIN positions : size[j] = sign * positions[j].net
      /\ \A j \in S : j \in DOMAIN positions /\ size[j] > 0 /\ size[j] \in Int
  <2>1. /\ \A j \in DOMAIN positions : size[j] = sign * positions[j].net
        /\ \A j \in S : j \in DOMAIN positions /\ sign * positions[j].net > 0
    BY DEF Sizes, SideOf
  <2>2. ASSUME NEW j \in DOMAIN positions PROVE sign * positions[j].net \in Int
    <3>1. positions[j].net \in Int
      BY DEF PositionsOf
    <3>2. CASE sign = 1
      BY <3>1, <3>2
    <3>3. CASE sign = -1
      BY <3>1, <3>3
    <3> QED  BY <3>2, <3>3
  <2> HIDE DEF size, S
  <2> QED  BY <2>1, <2>2
<1>4. /\ DOMAIN side = 1 .. n
      /\ side = [k \in 1 .. n |-> [bank |-> positions[order[k]].bank,
                                   left |-> sign * positions[order[k]].net]]
  BY <1>1 DEF Side
<1> HIDE DEF size, S, n
<1>5. \A k \in 1 .. n : /\ order[k] \in S
                        /\ side[k].bank = positions[order[k]].bank
                        /\ side[k].left = size[order[k]]
  BY <1>2, <1>3, <1>4
<1>6. Len(side) = n
  <2>1. side \in [1 .. n -> {side[k] : k \in 1 .. n}]
    BY <1>4
  <2> QED  BY <1>1, <2>1, FunctionIsSeq
<1>7. ASSUME NEW k \in 1 .. n + 1
      PROVE  Q(k) \subseteq S /\ IsFiniteSet(Q(k)) /\ \A x \in Q(k) : size[x] \in Nat
  <2>1. Q(k) \subseteq S
    BY <1>1, <1>2
  <2>2. IsFiniteSet(Q(k))
    <3> HIDE DEF Q
    <3> QED  BY <1>1, <2>1, FS_Subset
  <2> HIDE DEF Q
  <2> QED  BY <1>3, <2>1, <2>2
<1>8. p \in [1 .. n + 1 -> Nat]
  <2>1. ASSUME NEW k \in 1 .. n + 1 PROVE SumFunctionOnSet(size, Q(k)) \in Nat
    <3> DEFINE q == Q(k)
    <3>1. IsFiniteSet(q) /\ \A x \in q : size[x] \in Nat
      BY <1>7
    <3> HIDE DEF q
    <3>2. SumFunctionOnSet(size, q) \in Nat
      BY <3>1, SumNotNegative
    <3> QED  BY <3>2 DEF q
  <2> HIDE DEF Q
  <2> QED  BY <2>1
<1>9. p[1] = 0
  <2>1. Q(1) = {} /\ 1 \in 1 .. n + 1
    BY <1>1
  <2> HIDE DEF Q
  <2> QED  BY <2>1, SumOfNothing
<1>10. ASSUME NEW k \in 1 .. n PROVE p[k + 1] = p[k] + size[order[k]]
  <2>1. k \in 1 .. n + 1 /\ k + 1 \in 1 .. n + 1
    BY <1>1
  <2>2. Q(k + 1) = Q(k) \cup {order[k]}
    <3>1. 1 .. (k + 1) - 1 = (1 .. k - 1) \cup {k}
      BY <1>1
    <3> QED  BY <3>1
  <2>3. order[k] \notin Q(k)
    <3> SUFFICES ASSUME NEW j \in 1 .. k - 1, order[j] = order[k] PROVE FALSE
      OBVIOUS
    <3>1. j \in 1 .. n /\ j # k
      BY <1>1
    <3> QED  BY <1>2, <3>1
  <2> DEFINE q == Q(k)
             x == order[k]
  <2>4. IsFiniteSet(q) /\ x \notin q /\ \A y \in q \cup {x} : size[y] \in Int
    <3>1. size[x] \in Int
      BY <1>3, <1>5
    <3>2. IsFiniteSet(q) /\ x \notin q /\ \A y \in q : size[y] \in Int
      BY <1>7, <2>1, <2>3
    <3> HIDE DEF q, x
    <3> QED  BY <3>1, <3>2
  <2> HIDE DEF q, x
  <2>5. SumFunctionOnSet(size, q \cup {x}) = SumFunctionOnSet(size, q) + size[x]
    BY <2>4, SumAdd
  <2>6. p[k] = SumFunctionOnSet(size, q)
    BY <2>1 DEF q
  <2>7. p[k + 1] = SumFunctionOnSet(size, q \cup {x})
    BY <2>1, <2>2 DEF q, x
  <2> QED  BY <2>5, <2>6, <2>7 DEF x
<1>11. ASSUME NEW k \in 1 .. n PROVE Start(positions, sign, order[k]) = p[k]
  <2>1. {j \in DOMAIN positions :
           /\ size[j] > 0
           /\ \/ size[j] > size[order[k]]
              \/ size[j] = size[order[k]] /\ j < order[k]} = Q(k)
    BY BeforeListed DEF S, n, size
  <2>2. Start(positions, sign, order[k]) = SumFunctionOnSet(size, Q(k))
    BY <2>1 DEF Start, size
  <2>3. k \in 1 .. n + 1
    BY <1>1
  <2> QED  BY <2>2, <2>3
<1> HIDE DEF p
<1>12. Laid(p, side)
  BY <1>4, <1>5, <1>6, <1>8, <1>9, <1>10 DEF Laid
<1>13. LaidAs(p, side, order, positions, sign)
  BY <1>1, <1>4, <1>5, <1>6, <1>11, <1>12 DEF LaidAs, S, size
<1> QED  BY <1>13

(* What lies further on the line starts no earlier. *)
LEMMA LaidRises ==
  ASSUME NEW B, NEW side \in Seq(Account(B)), NEW p, Laid(p, side),
         NEW i \in 1 .. Len(side) + 1, NEW j \in 1 .. Len(side) + 1, i <= j
  PROVE  p[i] <= p[j]
<1> DEFINE n == Len(side)
           Bad == {k \in 1 .. n + 1 : i <= k /\ p[k] < p[i]}
<1>1. /\ n \in Nat /\ DOMAIN side = 1 .. n
      /\ \A k \in 1 .. n : side[k].left \in Nat
      /\ p \in [1 .. n + 1 -> Nat]
      /\ \A k \in 1 .. n : p[k + 1] = p[k] + side[k].left
  <2>1. n \in Nat /\ DOMAIN side = 1 .. n /\ \A k \in DOMAIN side : side[k] \in Account(B)
    BY SeqDomain
  <2>2. \A k \in DOMAIN side : side[k].left \in Nat
    BY <2>1 DEF Account
  <2> QED  BY <2>1, <2>2 DEF Laid
<1> HIDE DEF n
<1> SUFFICES ASSUME Bad # {} PROVE FALSE
  <2>1. j \notin Bad => p[i] <= p[j]
    BY <1>1 DEF n
  <2> HIDE DEF Bad
  <2> QED  BY <2>1
<1>2. PICK k \in Bad : \A m \in Bad : k <= m
  <2>1. Bad \subseteq Nat
    BY <1>1
  <2> HIDE DEF Bad
  <2> QED  BY <2>1, Least
<1>3. /\ k \in 1 .. n + 1 /\ i <= k /\ p[k] < p[i] /\ i \in 1 .. n + 1
  BY <1>2 DEF n
<1>4. k # i /\ i < k
  BY <1>1, <1>3
<1>5. k - 1 \in 1 .. n /\ k - 1 \in 1 .. n + 1 /\ i <= k - 1 /\ k - 1 < k
  BY <1>1, <1>3, <1>4
<1>6. p[k - 1] >= p[i]
  <2>1. k - 1 \notin Bad
    BY <1>1, <1>2, <1>5
  <2> QED  BY <1>1, <1>3, <1>5, <2>1
<1>7. p[(k - 1) + 1] = p[k - 1] + side[k - 1].left /\ (k - 1) + 1 = k
  BY <1>1, <1>3, <1>5
<1>8. /\ p[k] \in Nat /\ p[k - 1] \in Nat /\ p[i] \in Nat /\ side[k - 1].left \in Nat
  BY <1>1, <1>3, <1>5
<1>9. p[k] = p[k - 1] + side[k - 1].left
  BY <1>7
<1> QED  BY <1>3, <1>6, <1>8, <1>9

(* How far two stretches of the line overlap. *)
Common(p, q, i, j) == Min({p[i + 1], q[j + 1]}) - Max({p[i], q[j]})

LEMMA MinMax ==
  ASSUME NEW a \in Int, NEW b \in Int
  PROVE  /\ Min({a, b}) = IF a <= b THEN a ELSE b
         /\ Max({a, b}) = IF a <= b THEN b ELSE a
<1>1. Min({a, b}) = CHOOSE x \in {a, b} : \A y \in {a, b} : x <= y
  BY DEF Min
<1>2. Max({a, b}) = CHOOSE x \in {a, b} : \A y \in {a, b} : x >= y
  BY DEF Max
<1>3. \A x : x \in {a, b} /\ (\A y \in {a, b} : x <= y) <=> x = IF a <= b THEN a ELSE b
  OBVIOUS
<1>4. \A x : x \in {a, b} /\ (\A y \in {a, b} : x >= y) <=> x = IF a <= b THEN b ELSE a
  OBVIOUS
<1> QED  BY <1>1, <1>2, <1>3, <1>4

(* Where the loop stands, up to now both sides have come equally far and   *)
(* at least one of the two accounts is untouched: the smaller rest is the  *)
(* overlap of the two.                                                     *)
LEMMA RestIsCommon ==
  ASSUME NEW a \in Nat, NEW a2 \in Nat, NEW b \in Nat, NEW b2 \in Nat,
         NEW x \in Nat, NEW y \in Nat, a2 - x = b2 - y, a2 - x >= a, b2 - y >= b,
         a2 - x = a \/ b2 - y = b
  PROVE  Min({a2, b2}) - Max({a, b}) = IF x <= y THEN x ELSE y
<1>1. /\ Min({a2, b2}) = IF a2 <= b2 THEN a2 ELSE b2
      /\ Max({a, b}) = IF a <= b THEN b ELSE a
  <2>1. a \in Int /\ a2 \in Int /\ b \in Int /\ b2 \in Int
    OBVIOUS
  <2>2. Min({a2, b2}) = IF a2 <= b2 THEN a2 ELSE b2
    BY ONLY <2>1, MinMax
  <2>3. Max({a, b}) = IF a <= b THEN b ELSE a
    BY ONLY <2>1, MinMax
  <2> QED  BY <2>2, <2>3
<1> DEFINE least == Min({a2, b2})
           most == Max({a, b})
<1> HIDE DEF least, most
<1>2. most = a2 - x
  <2>1. most = IF a <= b THEN b ELSE a
    BY <1>1 DEF most
  <2> QED  BY <2>1
<1>3. least = IF x <= y THEN a2 ELSE b2
  <2>1. least = IF a2 <= b2 THEN a2 ELSE b2
    BY <1>1 DEF least
  <2>2. a2 <= b2 <=> x <= y
    OBVIOUS
  <2> QED  BY <2>1, <2>2
<1>4. least - most = IF x <= y THEN x ELSE y
  BY <1>2, <1>3
<1> QED  BY <1>4 DEF least, most

LEMMA NothingCommon ==
  ASSUME NEW a \in Nat, NEW a2 \in Nat, NEW b \in Nat, NEW b2 \in Nat, a2 <= b \/ b2 <= a
  PROVE  ~ (Min({a2, b2}) - Max({a, b}) > 0)
<1>1. /\ Min({a2, b2}) = IF a2 <= b2 THEN a2 ELSE b2
      /\ Max({a, b}) = IF a <= b THEN b ELSE a
  <2>1. a \in Int /\ a2 \in Int /\ b \in Int /\ b2 \in Int
    OBVIOUS
  <2>2. Min({a2, b2}) = IF a2 <= b2 THEN a2 ELSE b2
    BY ONLY <2>1, MinMax
  <2>3. Max({a, b}) = IF a <= b THEN b ELSE a
    BY ONLY <2>1, MinMax
  <2> QED  BY <2>2, <2>3
<1> DEFINE least == Min({a2, b2})
           most == Max({a, b})
<1> HIDE DEF least, most
<1>2. least \in Nat /\ most \in Nat /\ least <= a2 /\ least <= b2 /\ most >= a /\ most >= b
  BY <1>1 DEF least, most
<1>3. ~ (least - most > 0)
  BY <1>2
<1> QED  BY <1>3 DEF least, most

(* A pair of accounts that lie next to each other on the two lines, and    *)
(* the pairs that the loop has passed when it is at d and c.               *)
Due(start, p, q, pair) ==
  NetTransfer(start.debtors[pair[1]].bank, start.creditors[pair[2]].bank,
              Common(p, q, pair[1], pair[2]))

Passed(start, p, q, d, c) ==
  {pair \in (DOMAIN start.debtors) \X (DOMAIN start.creditors) :
     (pair[1] < d \/ pair[2] < c) /\ Common(p, q, pair[1], pair[2]) > 0}

(* The accounts after the index are as at the start.                       *)
Untouched(accounts, first, d) ==
  /\ DOMAIN accounts = DOMAIN first
  /\ \A i \in DOMAIN first :
       /\ accounts[i].bank = first[i].bank
       /\ accounts[i].left <= first[i].left
       /\ i > d => accounts[i].left = first[i].left

(* Where the loop is on both lines: equally far, and at the beginning of   *)
(* one of the two accounts.                                                *)
Meeting(now, start, p, q) ==
  LET x == now.debtors[now.d].left
      y == now.creditors[now.c].left
  IN  /\ x = start.debtors[now.d].left \/ y = start.creditors[now.c].left
      /\ p[now.d + 1] - x = q[now.c + 1] - y

Distinct(list) == \A k, m \in DOMAIN list : list[k] = list[m] => k = m

(* What is added to Matching to see which transfers are made: one for each *)
(* pair that was passed and overlaps.                                      *)
InLine(now, start, p, q) ==
  /\ Untouched(now.debtors, start.debtors, now.d)
  /\ Untouched(now.creditors, start.creditors, now.c)
  /\ Unfinished(now) => Meeting(now, start, p, q)
  /\ ToSet(now.transfers) = {Due(start, p, q, pair) : pair \in Passed(start, p, q, now.d, now.c)}
  /\ Distinct(now.transfers)

(* Two sides on two lines; a bank has one account.                         *)
Lines(start, p, q, B) ==
  /\ start.debtors \in Seq(Account(B)) /\ start.creditors \in Seq(Account(B))
  /\ Laid(p, start.debtors) /\ Laid(q, start.creditors)
  /\ \A i, j \in DOMAIN start.debtors : start.debtors[i].bank = start.debtors[j].bank => i = j
  /\ \A i, j \in DOMAIN start.creditors : start.creditors[i].bank = start.creditors[j].bank => i = j

(* The next transfer is the overlap of the pair at hand. *)
LEMMA NextTransfer ==
  ASSUME NEW B, NEW start, NEW p, NEW q, Lines(start, p, q, B),
         NEW now, Matching(now, B), Unfinished(now), InLine(now, start, p, q)
  PROVE  LET x == now.debtors[now.d].left
             y == now.creditors[now.c].left
         IN  /\ Common(p, q, now.d, now.c) = IF x <= y THEN x ELSE y
             /\ x \in Nat /\ y \in Nat /\ x > 0 /\ y > 0
             /\ now.d \in DOMAIN start.debtors /\ now.c \in DOMAIN start.creditors
             /\ p[now.d] \in Nat /\ p[now.d + 1] \in Nat
             /\ q[now.c] \in Nat /\ q[now.c + 1] \in Nat
             /\ p[now.d + 1] - x = q[now.c + 1] - y
<1> DEFINE d == now.d
           c == now.c
           x == now.debtors[d].left
           y == now.creditors[c].left
<1>1. /\ d \in DOMAIN now.debtors /\ c \in DOMAIN now.creditors
      /\ x \in Nat /\ y \in Nat /\ x > 0 /\ y > 0
  <2> DEFINE amount == IF x <= y THEN x ELSE y
  <2>1. /\ d \in DOMAIN now.debtors /\ c \in DOMAIN now.creditors
        /\ x \in Nat /\ y \in Nat /\ amount > 0
    BY StepPays
  <2> HIDE DEF x, y, d, c
  <2> QED  BY <2>1
<1>2. /\ DOMAIN now.debtors = DOMAIN start.debtors
      /\ DOMAIN now.creditors = DOMAIN start.creditors
      /\ now.debtors[d].left <= start.debtors[d].left
      /\ now.creditors[c].left <= start.creditors[c].left
      /\ x = start.debtors[d].left \/ y = start.creditors[c].left
      /\ p[d + 1] - x = q[c + 1] - y
  BY <1>1 DEF InLine, Untouched, Meeting
<1>3. /\ p \in [1 .. Len(start.debtors) + 1 -> Nat]
      /\ q \in [1 .. Len(start.creditors) + 1 -> Nat]
      /\ p[d + 1] = p[d] + start.debtors[d].left
      /\ q[c + 1] = q[c] + start.creditors[c].left
  BY <1>1, <1>2 DEF Lines, Laid
<1>4. /\ start.debtors[d].left \in Nat /\ start.creditors[c].left \in Nat
      /\ d \in 1 .. Len(start.debtors) /\ c \in 1 .. Len(start.creditors)
      /\ Len(start.debtors) \in Nat /\ Len(start.creditors) \in Nat
  <2>1. /\ start.debtors[d] \in Account(B) /\ start.creditors[c] \in Account(B)
        /\ d \in 1 .. Len(start.debtors) /\ c \in 1 .. Len(start.creditors)
        /\ Len(start.debtors) \in Nat /\ Len(start.creditors) \in Nat
    BY <1>1, <1>2, SeqDomain DEF Lines
  <2> QED  BY <2>1 DEF Account
<1> HIDE DEF x, y, d, c
<1>5. p[d] \in Nat /\ p[d + 1] \in Nat /\ q[c] \in Nat /\ q[c + 1] \in Nat
  <2>1. /\ d \in 1 .. Len(start.debtors) + 1 /\ d + 1 \in 1 .. Len(start.debtors) + 1
        /\ c \in 1 .. Len(start.creditors) + 1 /\ c + 1 \in 1 .. Len(start.creditors) + 1
    BY <1>4
  <2> QED  BY <1>3, <2>1
<1>6. Min({p[d + 1], q[c + 1]}) - Max({p[d], q[c]}) = IF x <= y THEN x ELSE y
  <2> DEFINE a == p[d]
             a2 == p[d + 1]
             b == q[c]
             b2 == q[c + 1]
             u == start.debtors[d].left
             v == start.creditors[c].left
  <2>1. /\ a \in Nat /\ a2 \in Nat /\ b \in Nat /\ b2 \in Nat /\ u \in Nat /\ v \in Nat
        /\ x \in Nat /\ y \in Nat /\ x <= u /\ y <= v /\ (x = u \/ y = v)
        /\ a2 = a + u /\ b2 = b + v /\ a2 - x = b2 - y
    BY <1>1, <1>2, <1>3, <1>4, <1>5 DEF x, y
  <2> HIDE DEF a, a2, b, b2, u, v
  <2>2. a2 - x >= a /\ b2 - y >= b /\ (a2 - x = a \/ b2 - y = b)
    BY <2>1
  <2>3. Min({a2, b2}) - Max({a, b}) = IF x <= y THEN x ELSE y
    BY <2>1, <2>2, RestIsCommon
  <2> QED  BY <2>3 DEF a, a2, b, b2
<1> QED  BY <1>1, <1>2, <1>5, <1>6 DEF x, y, d, c, Common

(* One iteration passes one more pair that overlaps: the one at hand.      *)
LEMMA PassedGrows ==
  ASSUME NEW B, NEW start, NEW p, NEW q, Lines(start, p, q, B),
         NEW now, Matching(now, B), Unfinished(now), InLine(now, start, p, q),
         NEW next, next = GreedyStep(now)
  PROVE  Passed(start, p, q, next.d, next.c) =
           Passed(start, p, q, now.d, now.c) \cup {<<now.d, now.c>>}
<1> DEFINE d == now.d
           c == now.c
           x == now.debtors[d].left
           y == now.creditors[c].left
           n == Len(start.debtors)
           m == Len(start.creditors)
           amount == IF x <= y THEN x ELSE y
<1>1. /\ Common(p, q, d, c) = amount
      /\ x \in Nat /\ y \in Nat /\ x > 0 /\ y > 0
      /\ d \in DOMAIN start.debtors /\ c \in DOMAIN start.creditors
      /\ p[d] \in Nat /\ p[d + 1] \in Nat /\ q[c] \in Nat /\ q[c + 1] \in Nat
      /\ p[d + 1] - x = q[c + 1] - y
  BY NextTransfer
<1>2. /\ next.d = (IF amount = x THEN d + 1 ELSE d)
      /\ next.c = (IF amount = y THEN c + 1 ELSE c)
  BY StepPays
<1>3. /\ n \in Nat /\ m \in Nat /\ DOMAIN start.debtors = 1 .. n /\ DOMAIN start.creditors = 1 .. m
      /\ p \in [1 .. n + 1 -> Nat] /\ q \in [1 .. m + 1 -> Nat]
  BY SeqDomain DEF Lines, Laid
<1> HIDE DEF x, y, d, c, n, m
<1>9. /\ d \in 1 .. n /\ c \in 1 .. m /\ n \in Nat /\ m \in Nat /\ d \in Nat /\ c \in Nat
  <2>1. d \in 1 .. n /\ c \in 1 .. m /\ n \in Nat /\ m \in Nat
    BY <1>1, <1>3
  <2> QED  BY <2>1
<1>4. /\ next.d = (IF x <= y THEN d + 1 ELSE d)
      /\ next.c = (IF y <= x THEN c + 1 ELSE c)
  BY <1>1, <1>2
<1>5. /\ p[d + 1] <= q[c + 1] <=> x <= y
      /\ q[c + 1] <= p[d + 1] <=> y <= x
  <2> DEFINE a == p[d + 1]
             b == q[c + 1]
  <2>1. a \in Nat /\ b \in Nat /\ x \in Nat /\ y \in Nat /\ a - x = b - y
    BY <1>1
  <2> HIDE DEF a, b
  <2>2. (a <= b <=> x <= y) /\ (b <= a <=> y <= x)
    BY <2>1
  <2> QED  BY <2>2 DEF a, b
<1>6. ASSUME NEW j \in 1 .. m, j > c, x <= y PROVE ~ (Common(p, q, d, j) > 0)
  <2>1. d \in 1 .. n /\ c \in 1 .. m /\ c + 1 \in 1 .. m + 1 /\ c + 1 <= j /\ j \in 1 .. m + 1
        /\ j + 1 \in 1 .. m + 1
    BY <1>6, <1>9
  <2>2. q[c + 1] <= q[j]
    <3>1. start.creditors \in Seq(Account(B)) /\ Laid(q, start.creditors)
      BY DEF Lines
    <3> QED  BY <2>1, <3>1, LaidRises DEF m
  <2>3. p[d] \in Nat /\ p[d + 1] \in Nat /\ q[j] \in Nat /\ q[j + 1] \in Nat /\ q[c + 1] \in Nat
    BY <1>1, <1>3, <2>1
  <2>4. p[d + 1] <= q[j]
    BY <1>5, <1>6, <2>2, <2>3
  <2> QED  BY <2>3, <2>4, NothingCommon DEF Common
<1>7. ASSUME NEW i \in 1 .. n, i > d, y <= x PROVE ~ (Common(p, q, i, c) > 0)
  <2>1. c \in 1 .. m /\ d \in 1 .. n /\ d + 1 \in 1 .. n + 1 /\ d + 1 <= i /\ i \in 1 .. n + 1
        /\ i + 1 \in 1 .. n + 1
    BY <1>7, <1>9
  <2>2. p[d + 1] <= p[i]
    <3>1. start.debtors \in Seq(Account(B)) /\ Laid(p, start.debtors)
      BY DEF Lines
    <3> QED  BY <2>1, <3>1, LaidRises DEF n
  <2>3. q[c] \in Nat /\ q[c + 1] \in Nat /\ p[i] \in Nat /\ p[i + 1] \in Nat /\ p[d + 1] \in Nat
    BY <1>1, <1>3, <2>1
  <2>4. q[c + 1] <= p[i]
    BY <1>5, <1>7, <2>2, <2>3
  <2> QED  BY <2>3, <2>4, NothingCommon DEF Common
<1>8. ASSUME NEW i \in 1 .. n, NEW j \in 1 .. m, Common(p, q, i, j) > 0
      PROVE  (i < next.d \/ j < next.c) <=> (i < d \/ j < c) \/ (i = d /\ j = c)
  <2>1. i \in Nat /\ j \in Nat /\ d \in Nat /\ c \in Nat
    BY <1>9
  <2>2. x <= y => ~ (i = d /\ j > c)
    BY <1>6, <1>8
  <2>3. y <= x => ~ (j = c /\ i > d)
    BY <1>7, <1>8
  <2> QED  BY <1>1, <1>4, <2>1, <2>2, <2>3
<1>10. Common(p, q, d, c) > 0
  BY <1>1
<1>11. /\ Passed(start, p, q, next.d, next.c) =
            {pair \in (1 .. n) \X (1 .. m) :
               (pair[1] < next.d \/ pair[2] < next.c) /\ Common(p, q, pair[1], pair[2]) > 0}
       /\ Passed(start, p, q, d, c) =
            {pair \in (1 .. n) \X (1 .. m) :
               (pair[1] < d \/ pair[2] < c) /\ Common(p, q, pair[1], pair[2]) > 0}
  BY <1>3 DEF Passed
<1> DEFINE before == Passed(start, p, q, d, c)
           later == Passed(start, p, q, next.d, next.c)
<1>12. ASSUME NEW i \in 1 .. n, NEW j \in 1 .. m
       PROVE  <<i, j>> \in later <=> <<i, j>> \in before \cup {<<d, c>>}
  <2>1. /\ <<i, j>> \in later <=> (i < next.d \/ j < next.c) /\ Common(p, q, i, j) > 0
        /\ <<i, j>> \in before <=> (i < d \/ j < c) /\ Common(p, q, i, j) > 0
    BY <1>11
  <2>2. <<i, j>> = <<d, c>> <=> i = d /\ j = c
    OBVIOUS
  <2> HIDE DEF before, later
  <2> QED  BY <1>8, <1>10, <2>1, <2>2
<1>13. later \subseteq (1 .. n) \X (1 .. m) /\ before \subseteq (1 .. n) \X (1 .. m)
  BY <1>11
<1>14. <<d, c>> \in (1 .. n) \X (1 .. m)
  BY <1>9
<1> HIDE DEF before, later
<1>15. later = before \cup {<<d, c>>}
  <2>1. \A pair \in (1 .. n) \X (1 .. m) : pair = <<pair[1], pair[2]>> /\ pair[1] \in 1 .. n /\ pair[2] \in 1 .. m
    OBVIOUS
  <2> DEFINE P == (1 .. n) \X (1 .. m)
  <2>2. \A pair \in P : pair \in later <=> pair \in before \cup {<<d, c>>}
    BY <1>12, <2>1
  <2> HIDE DEF P
  <2> QED  BY <1>13, <1>14, <2>2 DEF P
<1> QED  BY <1>15 DEF before, later, d, c

(* Paying from the account at the index leaves the ones after it.          *)
LEMMA UntouchedStep ==
  ASSUME NEW B, NEW accounts, NEW after, NEW first, NEW i, NEW j, NEW a,
         Untouched(accounts, first, i), PaidOff(B, accounts, after, i, a), a \in Nat,
         accounts \in Seq(Account(B)), first \in Seq(Account(B)),
         i \in DOMAIN accounts, i \in Nat, j \in {i, i + 1}
  PROVE  Untouched(after, first, j)
<1>1. /\ DOMAIN accounts = DOMAIN first /\ DOMAIN after = DOMAIN accounts
      /\ \A k \in DOMAIN accounts : after[k].bank = accounts[k].bank
      /\ \A k \in DOMAIN accounts \ {i} : after[k].left = accounts[k].left
      /\ after[i].left = accounts[i].left - a
      /\ \A k \in DOMAIN first : /\ accounts[k].bank = first[k].bank
                                 /\ accounts[k].left <= first[k].left
                                 /\ k > i => accounts[k].left = first[k].left
  BY DEF Untouched, PaidOff
<1>2. /\ \A k \in DOMAIN accounts : k \in Nat /\ accounts[k] \in Account(B) /\ first[k] \in Account(B)
  BY <1>1, SeqDomain
<1>3. \A k \in DOMAIN accounts : accounts[k].left \in Nat /\ first[k].left \in Nat
  BY <1>2 DEF Account
<1>4. after[i].left <= first[i].left
  BY <1>1, <1>3
<1>5. ASSUME NEW k \in DOMAIN first
      PROVE  /\ after[k].bank = first[k].bank
             /\ after[k].left <= first[k].left
             /\ k > j => after[k].left = first[k].left
  <2>1. CASE k = i
    BY <1>1, <1>2, <1>4, <2>1
  <2>2. CASE k # i
    BY <1>1, <1>2, <1>3, <2>2
  <2> QED  BY <2>1, <2>2
<1> QED  BY <1>1, <1>5 DEF Untouched

(* A list with one more row. *)
LEMMA AppendedSet ==
  ASSUME NEW S, NEW list \in Seq(S), NEW row \in S
  PROVE  ToSet(Append(list, row)) = ToSet(list) \cup {row}
<1> DEFINE longer == Append(list, row)
           last == Len(list) + 1
<1>1. /\ DOMAIN longer = DOMAIN list \cup {last}
      /\ \A k \in DOMAIN list : longer[k] = list[k]
      /\ longer[last] = row
  BY AppendRow
<1> HIDE DEF longer, last
<1>2. ToSet(longer) = ToSet(list) \cup {row}
  BY <1>1 DEF ToSet
<1> QED  BY <1>2 DEF longer

LEMMA AppendedDistinct ==
  ASSUME NEW S, NEW list \in Seq(S), NEW row \in S, row \notin ToSet(list), Distinct(list)
  PROVE  Distinct(Append(list, row))
<1> DEFINE longer == Append(list, row)
           last == Len(list) + 1
<1>1. /\ DOMAIN longer = DOMAIN list \cup {last}
      /\ \A k \in DOMAIN list : longer[k] = list[k]
      /\ longer[last] = row
  BY AppendRow
<1> HIDE DEF longer, last
<1>2. \A k \in DOMAIN list : list[k] # row
  BY DEF ToSet
<1>3. \A k, m \in DOMAIN longer : longer[k] = longer[m] => k = m
  BY <1>1, <1>2 DEF Distinct
<1> QED  BY <1>3 DEF longer, Distinct

(* The account after it is as at the start, and follows it on the line. *)
Fresh(accounts, first, p, i) ==
  /\ first[i].left \in Nat
  /\ accounts[i].left = first[i].left
  /\ p[i + 1] = p[i] + first[i].left

LEMMA FreshAccount ==
  ASSUME NEW B, NEW accounts, NEW after, NEW first, NEW i, NEW a, NEW p,
         Untouched(accounts, first, i), PaidOff(B, accounts, after, i, a),
         first \in Seq(Account(B)), Laid(p, first), i \in Nat, i + 1 \in DOMAIN first
  PROVE  Fresh(after, first, p, i + 1)
<1>1. first[i + 1] \in Account(B)
  BY SeqDomain
<1>2. first[i + 1].left \in Nat
  BY <1>1 DEF Account
<1>3. i + 1 > i /\ i + 1 # i
  OBVIOUS
<1>4. after[i + 1].left = first[i + 1].left
  BY <1>3 DEF Untouched, PaidOff
<1>5. p[(i + 1) + 1] = p[i + 1] + first[i + 1].left
  BY DEF Laid
<1> QED  BY <1>2, <1>4, <1>5 DEF Fresh

(* ... and adds the transfer between its banks. *)
LEMMA LineStep ==
  ASSUME NEW B, NEW start, NEW p, NEW q, Lines(start, p, q, B),
         NEW now, Matching(now, B), Unfinished(now), InLine(now, start, p, q),
         NEW next, next = GreedyStep(now)
  PROVE  InLine(next, start, p, q)
<1> DEFINE d == now.d
           c == now.c
           x == now.debtors[d].left
           y == now.creditors[c].left
           amount == IF x <= y THEN x ELSE y
           row == NetTransfer(now.debtors[d].bank, now.creditors[c].bank, amount)
<1>1. /\ Common(p, q, d, c) = amount
      /\ x \in Nat /\ y \in Nat /\ x > 0 /\ y > 0
      /\ d \in DOMAIN start.debtors /\ c \in DOMAIN start.creditors
      /\ p[d] \in Nat /\ p[d + 1] \in Nat /\ q[c] \in Nat /\ q[c + 1] \in Nat
      /\ p[d + 1] - x = q[c + 1] - y
  BY NextTransfer
<1>2. /\ d \in DOMAIN now.debtors /\ c \in DOMAIN now.creditors
      /\ amount \in Nat /\ amount <= x /\ amount <= y
      /\ PaysOff(now.debtors, next.debtors, d, amount)
      /\ PaysOff(now.creditors, next.creditors, c, amount)
      /\ next.d = (IF amount = x THEN d + 1 ELSE d)
      /\ next.c = (IF amount = y THEN c + 1 ELSE c)
      /\ row \in Flow(B)
      /\ next.transfers = Append(now.transfers, row)
  BY StepPays
<1>3. /\ now.debtors \in Seq(Account(B)) /\ now.creditors \in Seq(Account(B))
      /\ now.transfers \in Seq(Flow(B)) /\ d \in Nat /\ c \in Nat
  BY DEF Matching, LoopState
<1>4. /\ Untouched(now.debtors, start.debtors, d) /\ Untouched(now.creditors, start.creditors, c)
      /\ x = start.debtors[d].left \/ y = start.creditors[c].left
      /\ ToSet(now.transfers) = {Due(start, p, q, pair) : pair \in Passed(start, p, q, d, c)}
      /\ Distinct(now.transfers)
  BY DEF InLine, Meeting
<1>5. /\ PaidOff(B, now.debtors, next.debtors, d, amount)
      /\ PaidOff(B, now.creditors, next.creditors, c, amount)
  <2> HIDE DEF x, y, d, c, amount
  <2>1. /\ PaysOff(now.debtors, next.debtors, d, amount) /\ amount <= now.debtors[d].left
        /\ PaysOff(now.creditors, next.creditors, c, amount) /\ amount <= now.creditors[c].left
    BY <1>2 DEF x, y
  <2> QED  BY <1>2, <1>3, <2>1, PayOff
<1>6. row = Due(start, p, q, <<d, c>>)
  BY <1>1, <1>4 DEF Due, Untouched
<1>7. Passed(start, p, q, next.d, next.c) = Passed(start, p, q, d, c) \cup {<<d, c>>}
  BY PassedGrows
<1> HIDE DEF x, y, d, c, row, amount
<1>9. /\ Untouched(next.debtors, start.debtors, next.d)
      /\ Untouched(next.creditors, start.creditors, next.c)
  <2>1. start.debtors \in Seq(Account(B)) /\ start.creditors \in Seq(Account(B))
    BY DEF Lines
  <2>2. next.d \in {d, d + 1} /\ next.c \in {c, c + 1}
    BY <1>2
  <2>3. Untouched(next.debtors, start.debtors, next.d)
    BY <1>2, <1>3, <1>4, <1>5, <2>1, <2>2, UntouchedStep
  <2>4. Untouched(next.creditors, start.creditors, next.c)
    BY <1>2, <1>3, <1>4, <1>5, <2>1, <2>2, UntouchedStep
  <2> QED  BY <2>3, <2>4
<1>10. ASSUME Unfinished(next) PROVE Meeting(next, start, p, q)
  <2>1. /\ DOMAIN next.debtors = DOMAIN start.debtors /\ DOMAIN next.creditors = DOMAIN start.creditors
        /\ next.debtors \in Seq(Account(B)) /\ next.creditors \in Seq(Account(B))
        /\ next.debtors[d].left = x - amount /\ next.creditors[c].left = y - amount
    BY <1>5, <1>9 DEF Untouched, PaidOff, x, y
  <2>2. next.d <= Len(next.debtors) /\ next.c <= Len(next.creditors)
    BY <1>10 DEF Unfinished
  <2>3. next.d \in Nat /\ next.c \in Nat /\ next.d >= 1 /\ next.c >= 1
    <3>1. d >= 1 /\ c >= 1
      BY <1>2, <1>3, SeqDomain
    <3> QED  BY <1>2, <1>3, <3>1
  <2>4. next.d \in DOMAIN start.debtors /\ next.c \in DOMAIN start.creditors
    BY <2>1, <2>2, <2>3, SeqDomain
  <2>5. /\ next.d = d + 1 => Fresh(next.debtors, start.debtors, p, d + 1)
        /\ next.c = c + 1 => Fresh(next.creditors, start.creditors, q, c + 1)
    <3>1. start.debtors \in Seq(Account(B)) /\ start.creditors \in Seq(Account(B))
          /\ Laid(p, start.debtors) /\ Laid(q, start.creditors)
      BY DEF Lines
    <3>2. next.d = d + 1 => Fresh(next.debtors, start.debtors, p, d + 1)
      BY <1>3, <1>4, <1>5, <2>4, <3>1, FreshAccount
    <3>3. next.c = c + 1 => Fresh(next.creditors, start.creditors, q, c + 1)
      BY <1>3, <1>4, <1>5, <2>4, <3>1, FreshAccount
    <3> QED  BY <3>2, <3>3
  <2> DEFINE x2 == next.debtors[next.d].left
             y2 == next.creditors[next.c].left
             u == start.debtors[next.d].left
             v == start.creditors[next.c].left
             a == p[d + 1]
             b == q[c + 1]
             a2 == p[next.d + 1]
             b2 == q[next.c + 1]
  <2>6. /\ next.d = d + 1 => u \in Nat /\ x2 = u /\ a2 = a + u
        /\ next.c = c + 1 => v \in Nat /\ y2 = v /\ b2 = b + v
        /\ next.d = d => x2 = x - amount /\ a2 = a
        /\ next.c = c => y2 = y - amount /\ b2 = b
    BY <2>1, <2>5 DEF Fresh
  <2>7. a \in Nat /\ b \in Nat /\ a - x = b - y
    BY <1>1
  <2>8. amount = IF x <= y THEN x ELSE y
    BY DEF amount
  <2> HIDE DEF x2, y2, u, v, a, b, a2, b2
  <2>9. /\ x2 = u \/ y2 = v
        /\ a2 - x2 = b2 - y2
    <3>1. CASE x < y
      <4>1. amount = x /\ next.d = d + 1 /\ next.c = c
        BY <1>1, <1>2, <2>8, <3>1
      <4>2. x2 = u /\ u \in Nat /\ a2 = a + u /\ y2 = y - x /\ b2 = b
        BY <1>3, <2>6, <4>1
      <4> QED  BY <1>1, <2>7, <4>2
    <3>2. CASE x > y
      <4>1. amount = y /\ next.d = d /\ next.c = c + 1
        BY <1>1, <1>2, <2>8, <3>2
      <4>2. y2 = v /\ v \in Nat /\ b2 = b + v /\ x2 = x - y /\ a2 = a
        BY <1>3, <2>6, <4>1
      <4> QED  BY <1>1, <2>7, <4>2
    <3>3. CASE x = y
      <4>1. next.d = d + 1 /\ next.c = c + 1
        BY <1>1, <1>2, <2>8, <3>3
      <4>2. x2 = u /\ y2 = v /\ u \in Nat /\ v \in Nat /\ a2 = a + u /\ b2 = b + v
        BY <2>6, <4>1
      <4> QED  BY <1>1, <2>7, <3>3, <4>2
    <3> QED  BY <1>1, <3>1, <3>2, <3>3
  <2> QED  BY <2>9 DEF Meeting, x2, y2, u, v, a2, b2
<1>11. ToSet(next.transfers) = ToSet(now.transfers) \cup {row}
  BY <1>2, <1>3, AppendedSet
<1>12. ToSet(next.transfers) = {Due(start, p, q, pair) : pair \in Passed(start, p, q, next.d, next.c)}
  BY <1>4, <1>6, <1>7, <1>11
<1>13. row \notin ToSet(now.transfers)
  <2>1. ASSUME NEW pair \in Passed(start, p, q, d, c), row = Due(start, p, q, pair) PROVE FALSE
    <3>1. /\ pair[1] \in DOMAIN start.debtors /\ pair[2] \in DOMAIN start.creditors
          /\ pair[1] < d \/ pair[2] < c
      BY DEF Passed
    <3>2. /\ start.debtors[d].bank = start.debtors[pair[1]].bank
          /\ start.creditors[c].bank = start.creditors[pair[2]].bank
      BY <1>6, <2>1 DEF Due, NetTransfer
    <3>3. pair[1] = d /\ pair[2] = c
      BY <1>1, <3>1, <3>2 DEF Lines
    <3> QED  BY <1>3, <3>1, <3>3
  <2> QED  BY <1>4, <2>1
<1>14. Distinct(next.transfers)
  BY <1>2, <1>3, <1>4, <1>13, AppendedDistinct
<1> QED  BY <1>9, <1>10, <1>12, <1>14 DEF InLine

(* Before the first iteration nothing is passed and nothing is paid. *)
LEMMA LineStart ==
  ASSUME NEW B, NEW start, NEW p, NEW q, Lines(start, p, q, B),
         start.d = 1, start.c = 1, start.transfers = <<>>
  PROVE  InLine(start, start, p, q)
<1>1. ASSUME NEW accounts \in Seq(Account(B)), NEW d PROVE Untouched(accounts, accounts, d)
  <2>1. \A i \in DOMAIN accounts : accounts[i] \in Account(B)
    BY SeqDomain
  <2>2. \A i \in DOMAIN accounts : accounts[i].left \in Nat
    BY <2>1 DEF Account
  <2> QED  BY <2>2 DEF Untouched
<1>2. start.debtors \in Seq(Account(B)) /\ start.creditors \in Seq(Account(B))
  BY DEF Lines
<1>3. Untouched(start.debtors, start.debtors, start.d) /\ Untouched(start.creditors, start.creditors, start.c)
  BY <1>1, <1>2
<1>4. ASSUME Unfinished(start) PROVE Meeting(start, start, p, q)
  <2>1. /\ Len(start.debtors) \in Nat /\ DOMAIN start.debtors = 1 .. Len(start.debtors)
        /\ Len(start.creditors) \in Nat /\ DOMAIN start.creditors = 1 .. Len(start.creditors)
    BY <1>2, SeqDomain
  <2>2. 1 \in DOMAIN start.debtors /\ 1 \in DOMAIN start.creditors
    BY <1>4, <2>1 DEF Unfinished
  <2> DEFINE x == start.debtors[1].left
             y == start.creditors[1].left
  <2>3. p[1 + 1] = p[1] + x /\ q[1 + 1] = q[1] + y /\ p[1] = 0 /\ q[1] = 0
    BY <2>2 DEF Lines, Laid
  <2>4. x \in Nat /\ y \in Nat
    <3>1. start.debtors[1] \in Account(B) /\ start.creditors[1] \in Account(B)
      BY <1>2, <2>2, SeqDomain
    <3> QED  BY <3>1 DEF Account
  <2> HIDE DEF x, y
  <2>5. p[1 + 1] - x = q[1 + 1] - y
    BY <2>3, <2>4
  <2> QED  BY <2>5 DEF Meeting, x, y
<1>5. Passed(start, p, q, start.d, start.c) = {}
  <2>1. ASSUME NEW pair \in Passed(start, p, q, start.d, start.c) PROVE FALSE
    <3>1. /\ pair[1] \in DOMAIN start.debtors /\ pair[2] \in DOMAIN start.creditors
          /\ pair[1] < 1 \/ pair[2] < 1
      BY DEF Passed
    <3>2. pair[1] \in 1 .. Len(start.debtors) /\ pair[2] \in 1 .. Len(start.creditors)
      BY <1>2, <3>1, SeqDomain
    <3> QED  BY <3>1, <3>2
  <2> QED  BY <2>1
<1>6. ToSet(start.transfers) = {} /\ Distinct(start.transfers)
  BY DEF ToSet, Distinct
<1>7. ToSet(start.transfers) = {Due(start, p, q, pair) : pair \in Passed(start, p, q, start.d, start.c)}
  BY <1>5, <1>6
<1> QED  BY <1>3, <1>4, <1>6, <1>7 DEF InLine

(* When both sides are passed, the pairs passed are the ones whose         *)
(* intervals overlap.                                                      *)
LEMMA LineEnd ==
  ASSUME NEW B, NEW start, NEW p, NEW q, Lines(start, p, q, B),
         NEW now, InLine(now, start, p, q),
         now.d = Len(start.debtors) + 1, now.c = Len(start.creditors) + 1,
         NEW positions, NEW orderD, NEW orderC,
         LaidAs(p, start.debtors, orderD, positions, -1),
         LaidAs(q, start.creditors, orderC, positions, 1)
  PROVE  ToSet(now.transfers) = IntervalMatch(positions)
<1> DEFINE n == Len(start.debtors)
           m == Len(start.creditors)
           P == Passed(start, p, q, now.d, now.c)
           D == SideOf(positions, -1)
           C == SideOf(positions, 1)
           Debt == Sizes(positions, -1)
           Credit == Sizes(positions, 1)
           DueTo(x) == NetTransfer(positions[x[1]].bank, positions[x[2]].bank,
                                   Overlap(positions, x[1], x[2]))
           O == {x \in (DOMAIN positions) \X (DOMAIN positions) : Overlap(positions, x[1], x[2]) > 0}
<1>1. /\ n \in Nat /\ m \in Nat /\ DOMAIN start.debtors = 1 .. n /\ DOMAIN start.creditors = 1 .. m
  BY SeqDomain DEF Lines
<1>2. /\ orderD \in [1 .. n -> D] /\ \A x \in D : \E i \in 1 .. n : orderD[i] = x
      /\ orderC \in [1 .. m -> C] /\ \A x \in C : \E j \in 1 .. m : orderC[j] = x
  BY DEF LaidAs, Bijection, Injection, Surjection
<1>3. /\ D \subseteq DOMAIN positions /\ C \subseteq DOMAIN positions
      /\ \A x \in DOMAIN positions : (x \in D <=> Debt[x] > 0) /\ (x \in C <=> Credit[x] > 0)
  BY DEF SideOf, Sizes
<1>4. /\ \A i \in 1 .. n : /\ start.debtors[i].bank = positions[orderD[i]].bank
                           /\ start.debtors[i].left = Debt[orderD[i]]
                           /\ Start(positions, -1, orderD[i]) = p[i]
                           /\ p[i + 1] = p[i] + start.debtors[i].left
      /\ \A j \in 1 .. m : /\ start.creditors[j].bank = positions[orderC[j]].bank
                           /\ start.creditors[j].left = Credit[orderC[j]]
                           /\ Start(positions, 1, orderC[j]) = q[j]
                           /\ q[j + 1] = q[j] + start.creditors[j].left
  BY <1>1 DEF LaidAs, Laid
<1>5. ASSUME NEW i \in 1 .. n, NEW j \in 1 .. m
      PROVE  /\ Overlap(positions, orderD[i], orderC[j]) = Common(p, q, i, j)
             /\ Due(start, p, q, <<i, j>>) = DueTo(<<orderD[i], orderC[j]>>)
             /\ <<i, j>> \in P <=> <<orderD[i], orderC[j]>> \in O
  <2>1. Debt[orderD[i]] > 0 /\ Credit[orderC[j]] > 0
    BY <1>2, <1>3
  <2>2. End(positions, -1, orderD[i]) = p[i + 1] /\ End(positions, 1, orderC[j]) = q[j + 1]
    BY <1>4 DEF End
  <2>3. Overlap(positions, orderD[i], orderC[j]) = Common(p, q, i, j)
    BY <1>4, <2>1, <2>2 DEF Overlap, Common
  <2>4. Due(start, p, q, <<i, j>>) = DueTo(<<orderD[i], orderC[j]>>)
    BY <1>4, <2>3 DEF Due
  <2>5. i < now.d /\ j < now.c
    BY <1>1
  <2>6. <<i, j>> \in P <=> Common(p, q, i, j) > 0
    BY <1>1, <2>5 DEF Passed
  <2>7. <<orderD[i], orderC[j]>> \in O <=> Overlap(positions, orderD[i], orderC[j]) > 0
    BY <1>2, <1>3
  <2> QED  BY <2>3, <2>4, <2>6, <2>7
<1>6. ToSet(now.transfers) = {Due(start, p, q, x) : x \in P}
  BY DEF InLine
<1>7. IntervalMatch(positions) = {DueTo(x) : x \in O}
  BY DEF IntervalMatch
<1>8. \A x \in P : \E i \in 1 .. n, j \in 1 .. m : x = <<i, j>>
  BY <1>1 DEF Passed
<1>9. \A x \in O : \E i \in 1 .. n, j \in 1 .. m : x = <<orderD[i], orderC[j]>>
  <2> SUFFICES ASSUME NEW x \in O PROVE \E i \in 1 .. n, j \in 1 .. m : x = <<orderD[i], orderC[j]>>
    OBVIOUS
  <2>1. x[1] \in DOMAIN positions /\ x[2] \in DOMAIN positions /\ x = <<x[1], x[2]>>
        /\ Overlap(positions, x[1], x[2]) > 0
    OBVIOUS
  <2>2. Debt[x[1]] > 0 /\ Credit[x[2]] > 0
    BY <2>1 DEF Overlap
  <2>3. x[1] \in D /\ x[2] \in C
    BY <1>3, <2>1, <2>2
  <2> QED  BY <1>2, <2>1, <2>3
<1> HIDE DEF n, m, P, D, C, Debt, Credit, O
<1>10. {Due(start, p, q, x) : x \in P} \subseteq {DueTo(x) : x \in O}
  <2> HIDE DEF DueTo
  <2>1. ASSUME NEW x \in P PROVE \E y \in O : Due(start, p, q, x) = DueTo(y)
    <3>1. PICK i \in 1 .. n, j \in 1 .. m : x = <<i, j>>
      BY <1>8
    <3>2. /\ <<orderD[i], orderC[j]>> \in O
          /\ Due(start, p, q, x) = DueTo(<<orderD[i], orderC[j]>>)
      BY <1>5, <3>1
    <3> QED  BY <3>2
  <2> QED  BY <2>1
<1>11. {DueTo(x) : x \in O} \subseteq {Due(start, p, q, x) : x \in P}
  <2> HIDE DEF DueTo
  <2>1. ASSUME NEW y \in O PROVE \E x \in P : Due(start, p, q, x) = DueTo(y)
    <3>1. PICK i \in 1 .. n, j \in 1 .. m : y = <<orderD[i], orderC[j]>>
      BY <1>9
    <3>2. <<i, j>> \in P /\ Due(start, p, q, <<i, j>>) = DueTo(y)
      BY <1>5, <3>1
    <3> QED  BY <3>2
  <2> QED  BY <2>1
<1> QED  BY <1>6, <1>7, <1>10, <1>11

(* Where the loop starts, for the obligations at hand, and the order in    *)
(* which it goes through a side.                                           *)
First == GreedyInit(CalculateNetPositions(obligations))

OrderOf(positions, sign) == Sorted(SideOf(positions, sign), Decreasing(positions, sign))

LaidBy(p, side, positions, sign) == LaidAs(p, side, OrderOf(positions, sign), positions, sign)

(* The two lines, and the loop on them; the loop is one of the turns that  *)
(* greedy_match takes from the same start.                                 *)
OnLines(now, start, positions) ==
  \E p, q : /\ LaidBy(p, start.debtors, positions, -1)
            /\ LaidBy(q, start.creditors, positions, 1)
            /\ InLine(now, start, p, q)

Turned(now, start) == \E k \in 0 .. Count(start) : now = AllTurns(start)[k]

LineInvariant ==
  /\ LoopInvariant
  /\ OnLines(loop, First, CalculateNetPositions(obligations))
  /\ Turned(loop, First)

(* A bank has one account on a side. *)
LEMMA OneAccount ==
  ASSUME NEW B, NEW owed, NEW positions, PositionsOf(positions, owed, B), NEW sign,
         NEW p, NEW side, NEW order, LaidAs(p, side, order, positions, sign),
         NEW i \in DOMAIN side, NEW j \in DOMAIN side, side[i].bank = side[j].bank,
         side \in Seq(Account(B))
  PROVE  i = j
<1>1. /\ order \in [1 .. Len(side) -> SideOf(positions, sign)]
      /\ \A x, y \in 1 .. Len(side) : order[x] = order[y] => x = y
  BY DEF LaidAs, Bijection, Injection, IsInjective
<1>2. i \in 1 .. Len(side) /\ j \in 1 .. Len(side)
  BY SeqDomain
<1>3. order[i] \in DOMAIN positions /\ order[j] \in DOMAIN positions
  BY <1>1, <1>2 DEF SideOf
<1>4. positions[order[i]].bank = positions[order[j]].bank
  BY DEF LaidAs
<1>5. order[i] = order[j]
  BY <1>3, <1>4 DEF PositionsOf
<1> QED  BY <1>1, <1>2, <1>5

(* The sides that the loop starts with, whatever they are laid along. *)
LEMMA StartLines ==
  ASSUME NEW B, NEW owed \in Seq(Flow(B)), NEW positions, positions = CalculateNetPositions(owed),
         NEW start, start = GreedyInit(positions)
  PROVE  /\ \E p : LaidBy(p, start.debtors, positions, -1)
         /\ \E q : LaidBy(q, start.creditors, positions, 1)
         /\ \A p, q : /\ LaidBy(p, start.debtors, positions, -1)
                      /\ LaidBy(q, start.creditors, positions, 1)
                      => Lines(start, p, q, B)
<1>1. PositionsOf(positions, owed, B)
  BY PositionsFound
<1>2. start.debtors = Side(positions, -1) /\ start.creditors = Side(positions, 1)
  BY DEF GreedyInit
<1>3. start.debtors \in Seq(Account(B)) /\ start.creditors \in Seq(Account(B))
  <2>1. Matching(start, B)
    BY StartMatches
  <2> QED  BY <2>1 DEF Matching, LoopState
<1>4. \E p : LaidBy(p, start.debtors, positions, -1)
  BY <1>1, <1>2, SideLaid DEF LaidBy, OrderOf
<1>5. \E q : LaidBy(q, start.creditors, positions, 1)
  BY <1>1, <1>2, SideLaid DEF LaidBy, OrderOf
<1>6. ASSUME NEW p, NEW q, LaidBy(p, start.debtors, positions, -1),
             LaidBy(q, start.creditors, positions, 1)
      PROVE  Lines(start, p, q, B)
  <2>1. Laid(p, start.debtors) /\ Laid(q, start.creditors)
    BY <1>6 DEF LaidBy, LaidAs
  <2>2. \A i, j \in DOMAIN start.debtors : start.debtors[i].bank = start.debtors[j].bank => i = j
    BY <1>1, <1>3, <1>6, OneAccount DEF LaidBy
  <2>3. \A i, j \in DOMAIN start.creditors : start.creditors[i].bank = start.creditors[j].bank => i = j
    BY <1>1, <1>3, <1>6, OneAccount DEF LaidBy
  <2> QED  BY <1>3, <2>1, <2>2, <2>3 DEF Lines
<1> QED  BY <1>4, <1>5, <1>6

LEMMA LineInit == Init => LineInvariant
<1> SUFFICES ASSUME Init PROVE LineInvariant
  OBVIOUS
<1> DEFINE positions == CalculateNetPositions(obligations)
           start == First
<1>1. /\ LoopInvariant /\ loop = start /\ start = GreedyInit(positions)
      /\ obligations \in Seq(Flow(Bank))
  BY LoopInit DEF Init, First, LoopInvariant
<1>2. start.d = 1 /\ start.c = 1 /\ start.transfers = <<>>
  BY DEF First, GreedyInit
<1>3. /\ \E p : LaidBy(p, start.debtors, positions, -1)
      /\ \E q : LaidBy(q, start.creditors, positions, 1)
      /\ \A p, q : /\ LaidBy(p, start.debtors, positions, -1)
                   /\ LaidBy(q, start.creditors, positions, 1)
                   => Lines(start, p, q, Bank)
  BY <1>1, StartLines
<1> HIDE DEF start, positions
<1>4. OnLines(loop, start, positions)
  <2>1. PICK p : LaidBy(p, start.debtors, positions, -1)
    BY <1>3
  <2>2. PICK q : LaidBy(q, start.creditors, positions, 1)
    BY <1>3
  <2>3. InLine(start, start, p, q)
    BY <1>2, <1>3, <2>1, <2>2, LineStart
  <2> QED  BY <1>1, <2>1, <2>2, <2>3 DEF OnLines
<1>5. Turned(loop, start)
  <2>1. /\ Count(start) \in Nat /\ Turns(AllTurns(start), start, Count(start))
    BY <1>1, LastTurn DEF positions
  <2>2. 0 \in 0 .. Count(start)
    BY <2>1
  <2>3. AllTurns(start)[0] = start
    BY <2>1, <2>2, TurnsAt
  <2> QED  BY <1>1, <2>2, <2>3 DEF Turned
<1> QED  BY <1>1, <1>4, <1>5 DEF LineInvariant, start, positions

LEMMA LineKept == LineInvariant /\ [Next]_vars => LineInvariant'
<1> SUFFICES ASSUME LineInvariant, [Next]_vars PROVE LineInvariant'
  OBVIOUS
<1> DEFINE positions == CalculateNetPositions(obligations)
           start == First
<1>1. LoopInvariant /\ LoopInvariant'
  BY LoopStep DEF LineInvariant
<1>2. CASE Iterate
  <2>1. /\ Unfinished(loop) /\ loop' = GreedyStep(loop) /\ obligations' = obligations
        /\ Matching(loop, Bank) /\ obligations \in Seq(Flow(Bank))
    BY <1>1, <1>2 DEF Iterate, LoopInvariant
  <2>2. start = GreedyInit(positions)
    BY DEF First
  <2>3. \A p, q : /\ LaidBy(p, start.debtors, positions, -1)
                  /\ LaidBy(q, start.creditors, positions, 1)
                  => Lines(start, p, q, Bank)
    BY <2>1, <2>2, StartLines
  <2>4. OnLines(loop, start, positions) /\ Turned(loop, start)
    BY DEF LineInvariant
  <2>5. First' = start /\ CalculateNetPositions(obligations)' = positions
    BY <2>1 DEF First
  <2>6. /\ Count(start) \in Nat /\ Turns(AllTurns(start), start, Count(start))
        /\ ~ Unfinished(AllTurns(start)[Count(start)])
    BY <2>1, <2>2, LastTurn
  <2> HIDE DEF start, positions
  <2>7. OnLines(loop', start, positions)
    <3>1. PICK p, q : /\ LaidBy(p, start.debtors, positions, -1)
                      /\ LaidBy(q, start.creditors, positions, 1)
                      /\ InLine(loop, start, p, q)
      BY <2>4 DEF OnLines
    <3>2. Lines(start, p, q, Bank)
      BY <2>3, <3>1
    <3>3. InLine(loop', start, p, q)
      BY <2>1, <3>1, <3>2, LineStep
    <3> QED  BY <3>1, <3>3 DEF OnLines
  <2>8. Turned(loop', start)
    <3>1. PICK k \in 0 .. Count(start) : loop = AllTurns(start)[k]
      BY <2>4 DEF Turned
    <3>2. k # Count(start)
      BY <2>1, <2>6, <3>1
    <3>3. k + 1 \in 0 .. Count(start) /\ k + 1 # 0 /\ (k + 1) - 1 = k
      BY <2>6, <3>1, <3>2
    <3>4. AllTurns(start)[k + 1] = Turn(loop)
      BY <2>6, <3>1, <3>3, TurnsAt
    <3>5. loop' = AllTurns(start)[k + 1]
      BY <2>1, <3>4 DEF Turn
    <3> QED  BY <3>3, <3>5 DEF Turned
  <2> QED  BY <1>1, <2>5, <2>7, <2>8 DEF LineInvariant
<1>3. CASE UNCHANGED vars
  BY <1>3 DEF vars, LineInvariant, LoopInvariant, PositionsPreserved, First
<1> QED  BY <1>2, <1>3 DEF Next

LEMMA LineHolds == Spec => []LineInvariant
BY LineInit, LineKept, PTL DEF Spec

(* A list without duplicates is as long as the set of its elements. *)
LEMMA LengthOfDistinct ==
  ASSUME NEW S, NEW list \in Seq(S), Distinct(list)
  PROVE  Len(list) = Cardinality(ToSet(list))
<1>1. Len(list) \in Nat /\ DOMAIN list = 1 .. Len(list)
  BY SeqDomain
<1>2. list \in [1 .. Len(list) -> ToSet(list)]
  <2>1. list = [k \in DOMAIN list |-> list[k]]
    OBVIOUS
  <2>2. \A k \in DOMAIN list : list[k] \in ToSet(list)
    BY DEF ToSet
  <2> QED  BY <1>1, <2>1, <2>2
<1>3. \A x \in ToSet(list) : \E k \in 1 .. Len(list) : list[k] = x
  BY <1>1 DEF ToSet
<1>4. list \in Bijection(1 .. Len(list), ToSet(list))
  BY <1>1, <1>2, <1>3 DEF Distinct, Bijection, Injection, Surjection, IsInjective
<1>5. IsFiniteSet(1 .. Len(list)) /\ Cardinality(1 .. Len(list)) = Len(list)
  BY <1>1, FS_Interval
<1> QED  BY <1>4, <1>5, FS_Bijection DEF ExistsBijection

(* With no obligations there are no positions to match. *)
LEMMA NothingToMatch ==
  ASSUME NEW B, NEW positions, PositionsOf(positions, <<>>, B)
  PROVE  IntervalMatch(positions) = {}
<1>1. \A i \in DOMAIN positions : positions[i].net = 0
  BY NetOfNothing DEF PositionsOf
<1>2. \A i \in DOMAIN positions : ~ (Sizes(positions, 1)[i] > 0)
  BY <1>1 DEF Sizes
<1>3. \A i, j \in DOMAIN positions : ~ (Overlap(positions, i, j) > 0)
  BY <1>2 DEF Overlap
<1> QED  BY <1>3 DEF IntervalMatch

(* The loop and net_obligations both compute exactly the interval match,   *)
(* each transfer once: who pays whom, and how much, depends only on the    *)
(* net positions and on the order of the sorts in greedy_match.            *)
THEOREM MatchesTheIntervals == Spec => []MatchesIntervals
<1>1. ASSUME LineInvariant PROVE MatchesIntervals
  <2> DEFINE positions == CalculateNetPositions(obligations)
             start == First
  <2> SUFFICES ASSUME Finished
               PROVE  /\ NetObligations(obligations) = loop.transfers
                      /\ ToSet(loop.transfers) = IntervalMatch(positions)
                      /\ Len(loop.transfers) = Cardinality(IntervalMatch(positions))
    BY DEF MatchesIntervals
  <2>1. /\ Matching(loop, Bank) /\ ~ Unfinished(loop) /\ obligations \in Seq(Flow(Bank))
        /\ OnLines(loop, start, positions) /\ Turned(loop, start)
    BY <1>1 DEF LineInvariant, LoopInvariant, Finished
  <2>2. start = GreedyInit(positions)
    BY DEF First
  <2>3. PositionsOf(positions, obligations, Bank)
    BY <2>1, PositionsFound
  <2>4. \A p, q : /\ LaidBy(p, start.debtors, positions, -1)
                  /\ LaidBy(q, start.creditors, positions, 1)
                  => Lines(start, p, q, Bank)
    BY <2>1, <2>2, StartLines
  <2>5. /\ Count(start) \in Nat /\ Turns(AllTurns(start), start, Count(start))
        /\ obligations # <<>> =>
             NetObligations(obligations) = AllTurns(start)[Count(start)].transfers
    BY <2>1, <2>2, LastTurn
  <2> HIDE DEF start, positions
  <2>6. PICK p, q : /\ LaidBy(p, start.debtors, positions, -1)
                    /\ LaidBy(q, start.creditors, positions, 1)
                    /\ InLine(loop, start, p, q)
    BY <2>1 DEF OnLines
  <2>7. Lines(start, p, q, Bank)
    BY <2>4, <2>6
  <2>8. loop.d = Len(start.debtors) + 1 /\ loop.c = Len(start.creditors) + 1
    <3>1. loop.d = Len(loop.debtors) + 1 /\ loop.c = Len(loop.creditors) + 1
      BY <2>1, BothPaidOut
    <3>2. /\ loop.debtors \in Seq(Account(Bank)) /\ loop.creditors \in Seq(Account(Bank))
          /\ start.debtors \in Seq(Account(Bank)) /\ start.creditors \in Seq(Account(Bank))
          /\ DOMAIN loop.debtors = DOMAIN start.debtors
          /\ DOMAIN loop.creditors = DOMAIN start.creditors
      BY <2>1, <2>6, <2>7 DEF Matching, LoopState, Lines, InLine, Untouched
    <3>3. Len(loop.debtors) = Len(start.debtors) /\ Len(loop.creditors) = Len(start.creditors)
      BY <3>2
    <3> QED  BY <3>1, <3>3
  <2>9. ToSet(loop.transfers) = IntervalMatch(positions)
    BY <2>6, <2>7, <2>8, LineEnd DEF LaidBy
  <2>10. Len(loop.transfers) = Cardinality(IntervalMatch(positions))
    <3>1. loop.transfers \in Seq(Flow(Bank))
      BY <2>1 DEF Matching, LoopState
    <3>2. Distinct(loop.transfers)
      BY <2>6 DEF InLine
    <3> QED  BY <2>9, <3>1, <3>2, LengthOfDistinct
  <2>11. NetObligations(obligations) = loop.transfers
    <3>1. CASE obligations = <<>>
      <4>1. IntervalMatch(positions) = {}
        BY <2>3, <3>1, NothingToMatch
      <4>2. loop.transfers \in Seq(Flow(Bank)) /\ ToSet(loop.transfers) = {}
        BY <2>1, <2>9, <4>1 DEF Matching, LoopState
      <4>3. DOMAIN loop.transfers = {}
        BY <4>2 DEF ToSet
      <4>4. loop.transfers = <<>>
        <5>1. Len(loop.transfers) \in Nat /\ DOMAIN loop.transfers = 1 .. Len(loop.transfers)
          BY <4>2, SeqDomain
        <5>2. Len(loop.transfers) = 0
          <6> DEFINE n == Len(loop.transfers)
          <6>1. n \in Nat /\ 1 \notin 1 .. n
            BY <4>3, <5>1
          <6> HIDE DEF n
          <6>2. n = 0
            BY <6>1
          <6> QED  BY <6>2 DEF n
        <5> QED  BY <4>2, <5>2
      <4> QED  BY <3>1, <4>4 DEF NetObligations
    <3>2. CASE obligations # <<>>
      <4>1. PICK k \in 0 .. Count(start) : loop = AllTurns(start)[k]
        BY <2>1 DEF Turned
      <4>2. AllTurns(start)[Count(start)] = loop
        BY <2>1, <2>5, <4>1, DoneStays
      <4> QED  BY <2>5, <3>2, <4>2
    <3> QED  BY <3>1, <3>2
  <2> QED  BY <2>9, <2>10, <2>11
<1> QED  BY <1>1, LineHolds, PTL
=============================================================================
