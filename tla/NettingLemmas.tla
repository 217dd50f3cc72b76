--------------------------- MODULE NettingLemmas ---------------------------
(***************************************************************************)
(* What the operators of Netting compute, for every list of obligations:   *)
(* what Sorted lists, what a list of transfers moves, what an iteration of *)
(* greedy_match keeps, and what net_obligations returns.                   *)
(***************************************************************************)
EXTENDS Netting, SeqLemmas

-----------------------------------------------------------------------------
(* A strict total order on S. *)
Orders(R, S) ==
  /\ \A x \in S : <<x, x>> \notin R
  /\ \A x, y, z \in S : <<x, y>> \in R /\ <<y, z>> \in R => <<x, z>> \in R
  /\ \A x, y \in S : x # y => <<x, y>> \in R \/ <<y, x>> \in R

(* A finite set can be listed in any such order: each element at the       *)
(* number of the elements before it, plus one.                             *)
LEMMA ListExists ==
  ASSUME NEW S, NEW R, IsFiniteSet(S), Orders(R, S)
  PROVE  \E list \in [1 .. Cardinality(S) -> S] :
           \A i, j \in DOMAIN list : i < j => <<list[i], list[j]>> \in R
<1> DEFINE n == Cardinality(S)
           Below(x) == {y \in S : <<y, x>> \in R}
           rank == [x \in S |-> Cardinality(Below(x))]
           I == {rank[x] : x \in S}
<1>1. n \in Nat
  BY FS_CardinalityType
<1>2. ASSUME NEW x \in S PROVE rank[x] \in 0 .. n - 1 /\ IsFiniteSet(Below(x))
  <2>1. x \notin Below(x) /\ Below(x) \subseteq S \ {x}
    BY DEF Orders
  <2>2. IsFiniteSet(S \ {x}) /\ Cardinality(S \ {x}) = n - 1
    BY FS_RemoveElement
  <2>3. IsFiniteSet(Below(x)) /\ Cardinality(Below(x)) <= n - 1
    <3> DEFINE p == Below(x)
               q == S \ {x}
    <3>1. p \in SUBSET q /\ IsFiniteSet(q) /\ Cardinality(q) = n - 1
      BY <2>1, <2>2
    <3> HIDE DEF p, q, n
    <3>2. IsFiniteSet(p) /\ Cardinality(p) <= n - 1
      BY <3>1, FS_Subset
    <3> QED  BY <3>2 DEF p
  <2>4. Cardinality(Below(x)) \in Nat
    BY <2>3, FS_CardinalityType
  <2> QED  BY <1>1, <2>3, <2>4
<1>3. ASSUME NEW x \in S, NEW y \in S, <<x, y>> \in R PROVE rank[x] < rank[y]
  <2>1. Below(x) \subseteq Below(y) /\ x \in Below(y) /\ x \notin Below(x)
    BY <1>3 DEF Orders
  <2>2. IsFiniteSet(Below(x)) /\ IsFiniteSet(Below(y))
    BY <1>2
  <2>3. /\ Cardinality(Below(x)) <= Cardinality(Below(y))
        /\ Cardinality(Below(x)) # Cardinality(Below(y))
    <3> DEFINE p == Below(x)
               q == Below(y)
    <3>1. p \in SUBSET q /\ p # q /\ IsFiniteSet(q)
      BY <2>1, <2>2
    <3> HIDE DEF p, q
    <3>2. Cardinality(p) <= Cardinality(q) /\ Cardinality(p) # Cardinality(q)
      BY <3>1, FS_Subset
    <3> QED  BY <3>2 DEF p, q
  <2>4. rank[x] <= rank[y] /\ rank[x] # rank[y]
    BY <2>3
  <2> QED  BY <2>4, <1>2
<1>4. \A x, y \in S : rank[x] = rank[y] => x = y
  <2> SUFFICES ASSUME NEW x \in S, NEW y \in S, rank[x] = rank[y], x # y PROVE FALSE
    OBVIOUS
  <2>1. rank[x] < rank[y] \/ rank[y] < rank[x]
    BY <1>3 DEF Orders
  <2>2. rank[x] \in Int /\ rank[y] \in Int
    BY <1>1, <1>2
  <2> HIDE DEF rank
  <2> QED  BY <2>1, <2>2
<1>5. I = 0 .. n - 1
  <2> HIDE DEF rank
  <2>1. I \subseteq 0 .. n - 1
    BY <1>2
  <2>2. IsFiniteSet(0 .. n - 1) /\ Cardinality(0 .. n - 1) = n
    BY <1>1, FS_Interval
  <2>3. IsFiniteSet(I)
    BY <2>1, <2>2, FS_Subset
  <2> DEFINE h == [x \in S |-> rank[x]]
  <2>4. h \in Bijection(S, I)
    BY <1>4 DEF Bijection, Injection, Surjection, IsInjective
  <2>5. Cardinality(I) = n
    BY <2>3, <2>4, FS_Bijection DEF ExistsBijection
  <2> QED  BY <2>1, <2>2, <2>5, FS_Subset
<1> DEFINE list == [k \in 1 .. n |-> CHOOSE x \in S : rank[x] = k - 1]
<1>6. ASSUME NEW k \in 1 .. n PROVE list[k] \in S /\ rank[list[k]] = k - 1
  <2>1. k - 1 \in 0 .. n - 1
    BY <1>1
  <2>2. k - 1 \in I
    BY <1>5, <2>1
  <2>3. \E x \in S : rank[x] = k - 1
    BY <2>2
  <2> QED  BY <2>3
<1> HIDE DEF rank
<1>7. ASSUME NEW i \in 1 .. n, NEW j \in 1 .. n, i < j PROVE <<list[i], list[j]>> \in R
  <2>1. rank[list[i]] = i - 1 /\ rank[list[j]] = j - 1 /\ list[i] \in S /\ list[j] \in S
    BY <1>6
  <2>2. i \in Int /\ j \in Int
    BY <1>1
  <2> HIDE DEF list
  <2>3. list[i] # list[j]
    BY <1>7, <2>1, <2>2
  <2>4. CASE <<list[j], list[i]>> \in R
    BY <1>3, <1>7, <2>1, <2>2, <2>4
  <2> QED  BY <2>1, <2>3, <2>4 DEF Orders
<1>8. list \in [1 .. n -> S] /\ DOMAIN list = 1 .. n
  BY <1>6
<1> HIDE DEF list
<1> QED  BY <1>7, <1>8

(* Sorted lists every element once, in the order. *)
LEMMA SortedLists ==
  ASSUME NEW S, NEW R, IsFiniteSet(S), Orders(R, S)
  PROVE  /\ Cardinality(S) \in Nat
         /\ DOMAIN Sorted(S, R) = 1 .. Cardinality(S)
         /\ Sorted(S, R) \in Bijection(1 .. Cardinality(S), S)
         /\ \A i, j \in 1 .. Cardinality(S) : i < j => <<Sorted(S, R)[i], Sorted(S, R)[j]>> \in R
<1> DEFINE list == Sorted(S, R)
           n == Cardinality(S)
<1>1. /\ list \in [1 .. n -> S]
      /\ \A i, j \in DOMAIN list : i < j => <<list[i], list[j]>> \in R
  BY ListExists DEF Sorted
<1>2. n \in Nat
  BY FS_CardinalityType
<1> HIDE DEF list, n
<1>3. \A i, j \in 1 .. n : i < j => <<list[i], list[j]>> \in R
  BY <1>1
<1>4. ASSUME NEW i \in 1 .. n, NEW j \in 1 .. n, i # j PROVE list[i] # list[j]
  <2>1. i < j \/ j < i
    BY <1>2, <1>4
  <2>2. <<list[i], list[j]>> \in R \/ <<list[j], list[i]>> \in R
    BY <1>3, <2>1
  <2>3. list[i] \in S
    BY <1>1
  <2> QED  BY <2>2, <2>3 DEF Orders
<1>5. IsFiniteSet(1 .. n) /\ Cardinality(1 .. n) = n
  BY <1>2, FS_Interval
<1>6. list \in Injection(1 .. n, S)
  BY <1>1, <1>4 DEF Injection, IsInjective
<1>7. list \in Surjection(1 .. n, S)
  <2> DEFINE Image == {list[i] : i \in 1 .. n}
             h == [i \in 1 .. n |-> list[i]]
  <2>1. h \in Bijection(1 .. n, Image)
    BY <1>4 DEF Bijection, Injection, Surjection, IsInjective
  <2>2. Image \subseteq S
    BY <1>1
  <2>3. IsFiniteSet(Image)
    BY <2>2, FS_Subset
  <2>4. Cardinality(Image) = n
    BY <1>5, <2>1, <2>3, FS_Bijection DEF ExistsBijection
  <2>5. Image = S
    BY <2>2, <2>4, FS_Subset DEF n
  <2> QED  BY <1>1, <2>5 DEF Surjection
<1> QED  BY <1>1, <1>2, <1>3, <1>6, <1>7 DEF list, n, Bijection

-----------------------------------------------------------------------------
(* Flows: what a list of obligations or transfers moves *)

Flow(B) == [from : B, to : B, amount : Nat]

LEMMA FlowTypes ==
  ASSUME NEW B, NEW flows \in Seq(Flow(B))
  PROVE  /\ IsFiniteSet(DOMAIN flows)
         /\ AmountsOf(flows) \in [DOMAIN flows -> Nat]
         /\ \A T \in SUBSET (DOMAIN flows) :
              IsFiniteSet(T) /\ SumFunctionOnSet(AmountsOf(flows), T) \in Nat
         /\ \A bank : /\ Paid(flows, bank) \in Nat
                      /\ Received(flows, bank) \in Nat
                      /\ NetOf(flows, bank) \in Int
<1>1. Len(flows) \in Nat /\ DOMAIN flows = 1 .. Len(flows) /\ \A i \in DOMAIN flows : flows[i] \in Flow(B)
  BY SeqDomain
<1>2. IsFiniteSet(DOMAIN flows)
  BY <1>1, FS_Interval
<1>3. AmountsOf(flows) \in [DOMAIN flows -> Nat]
  BY <1>1 DEF AmountsOf, Flow
<1>4. ASSUME NEW T \in SUBSET (DOMAIN flows)
      PROVE  IsFiniteSet(T) /\ SumFunctionOnSet(AmountsOf(flows), T) \in Nat
  BY <1>2, <1>3, FS_Subset, SumNotNegative
<1>5. ASSUME NEW bank
      PROVE  /\ Paid(flows, bank) \in Nat
             /\ Received(flows, bank) \in Nat
             /\ NetOf(flows, bank) \in Int
  <2>1. Paid(flows, bank) \in Nat
    BY <1>4 DEF Paid
  <2>2. Received(flows, bank) \in Nat
    BY <1>4 DEF Received
  <2> QED  BY <2>1, <2>2 DEF NetOf
<1> QED  BY <1>2, <1>3, <1>4, <1>5

LEMMA NetOfNothing ==
  ASSUME NEW bank
  PROVE  NetOf(<<>>, bank) = 0
<1>1. Paid(<<>>, bank) = 0
  <2>1. {i \in DOMAIN <<>> : (<<>>)[i].from = bank} = {}
    OBVIOUS
  <2> QED  BY <2>1, SumOfNothing DEF Paid
<1>2. Received(<<>>, bank) = 0
  <2>1. {i \in DOMAIN <<>> : (<<>>)[i].to = bank} = {}
    OBVIOUS
  <2> QED  BY <2>1, SumOfNothing DEF Received
<1> QED  BY <1>1, <1>2 DEF NetOf

(* A transfer more moves its amount, and nothing else. *)
LEMMA AmountsGrow ==
  ASSUME NEW B, NEW flows \in Seq(Flow(B)), NEW row \in Flow(B),
         NEW T \in SUBSET (DOMAIN flows)
  PROVE  LET next == Append(flows, row)
             new  == Len(flows) + 1
         IN  /\ SumFunctionOnSet(AmountsOf(next), T) = SumFunctionOnSet(AmountsOf(flows), T)
             /\ SumFunctionOnSet(AmountsOf(next), T \cup {new}) =
                  SumFunctionOnSet(AmountsOf(flows), T) + row.amount
<1> DEFINE next == Append(flows, row)
           new  == Len(flows) + 1
<1>1. /\ next \in Seq(Flow(B)) /\ DOMAIN next = DOMAIN flows \cup {new}
      /\ \A i \in DOMAIN flows : next[i] = flows[i]
      /\ next[new] = row /\ new \notin DOMAIN flows
  BY AppendRow, SeqDomain
<1>2. AmountsOf(next) \in [DOMAIN next -> Nat] /\ IsFiniteSet(T)
  BY <1>1, FlowTypes
<1>3. /\ \A i \in DOMAIN flows : AmountsOf(next)[i] = AmountsOf(flows)[i]
      /\ AmountsOf(next)[new] = row.amount
  BY <1>1 DEF AmountsOf
<1> HIDE DEF next, new
<1>4. SumFunctionOnSet(AmountsOf(next), T) = SumFunctionOnSet(AmountsOf(flows), T)
  BY <1>2, <1>3, SumSame
<1>5. SumFunctionOnSet(AmountsOf(next), T \cup {new}) =
        SumFunctionOnSet(AmountsOf(next), T) + AmountsOf(next)[new]
  <2>1. \A i \in T \cup {new} : AmountsOf(next)[i] \in Int
    BY <1>1, <1>2
  <2>2. new \notin T
    BY <1>1
  <2> QED  BY <1>2, <2>1, <2>2, SumAdd
<1> QED  BY <1>3, <1>4, <1>5 DEF next, new

LEMMA NetOfAppend ==
  ASSUME NEW B, NEW flows \in Seq(Flow(B)), NEW row \in Flow(B), NEW bank
  PROVE  NetOf(Append(flows, row), bank) =
           NetOf(flows, bank) + (IF row.to = bank THEN row.amount ELSE 0)
                              - (IF row.from = bank THEN row.amount ELSE 0)
<1> DEFINE next == Append(flows, row)
           new  == Len(flows) + 1
           Out == {i \in DOMAIN flows : flows[i].from = bank}
           In  == {i \in DOMAIN flows : flows[i].to = bank}
<1>1. /\ DOMAIN next = DOMAIN flows \cup {new}
      /\ \A i \in DOMAIN flows : next[i] = flows[i]
      /\ next[new] = row /\ new \notin DOMAIN flows
  BY AppendRow, SeqDomain
<1>2. Paid(next, bank) = Paid(flows, bank) + IF row.from = bank THEN row.amount ELSE 0
  <2>1. {i \in DOMAIN next : next[i].from = bank} =
          IF row.from = bank THEN Out \cup {new} ELSE Out
    <3> HIDE DEF next, new
    <3> QED  BY <1>1
  <2>2. Out \in SUBSET (DOMAIN flows)
    OBVIOUS
  <2>3. Paid(flows, bank) \in Nat
    BY FlowTypes
  <2>4. Paid(flows, bank) = SumFunctionOnSet(AmountsOf(flows), Out)
    BY DEF Paid
  <2> HIDE DEF Out
  <2>5. /\ SumFunctionOnSet(AmountsOf(next), Out) = SumFunctionOnSet(AmountsOf(flows), Out)
        /\ SumFunctionOnSet(AmountsOf(next), Out \cup {new}) =
             SumFunctionOnSet(AmountsOf(flows), Out) + row.amount
    BY <2>2, AmountsGrow
  <2>6. Paid(next, bank) = SumFunctionOnSet(AmountsOf(next), {i \in DOMAIN next : next[i].from = bank})
    BY DEF Paid
  <2> HIDE DEF next, new
  <2>7. CASE row.from = bank
    BY <2>1, <2>4, <2>5, <2>6, <2>7
  <2>8. CASE row.from # bank
    <3>1. Paid(next, bank) = Paid(flows, bank)
      BY <2>1, <2>4, <2>5, <2>6, <2>8
    <3>2. (IF row.from = bank THEN row.amount ELSE 0) = 0
      BY <2>8
    <3> QED  BY <2>3, <3>1, <3>2
  <2> QED  BY <2>7, <2>8
<1>3. Received(next, bank) = Received(flows, bank) + IF row.to = bank THEN row.amount ELSE 0
  <2>1. {i \in DOMAIN next : next[i].to = bank} =
          IF row.to = bank THEN In \cup {new} ELSE In
    <3> HIDE DEF next, new
    <3> QED  BY <1>1
  <2>2. In \in SUBSET (DOMAIN flows)
    OBVIOUS
  <2>3. Received(flows, bank) \in Nat
    BY FlowTypes
  <2>4. Received(flows, bank) = SumFunctionOnSet(AmountsOf(flows), In)
    BY DEF Received
  <2> HIDE DEF In
  <2>5. /\ SumFunctionOnSet(AmountsOf(next), In) = SumFunctionOnSet(AmountsOf(flows), In)
        /\ SumFunctionOnSet(AmountsOf(next), In \cup {new}) =
             SumFunctionOnSet(AmountsOf(flows), In) + row.amount
    BY <2>2, AmountsGrow
  <2>6. Received(next, bank) = SumFunctionOnSet(AmountsOf(next), {i \in DOMAIN next : next[i].to = bank})
    BY DEF Received
  <2> HIDE DEF next, new
  <2>7. CASE row.to = bank
    BY <2>1, <2>4, <2>5, <2>6, <2>7
  <2>8. CASE row.to # bank
    <3>1. Received(next, bank) = Received(flows, bank)
      BY <2>1, <2>4, <2>5, <2>6, <2>8
    <3>2. (IF row.to = bank THEN row.amount ELSE 0) = 0
      BY <2>8
    <3> QED  BY <2>3, <3>1, <3>2
  <2> QED  BY <2>7, <2>8
<1>4. Paid(flows, bank) \in Nat /\ Received(flows, bank) \in Nat /\ row.amount \in Nat
  BY FlowTypes DEF Flow
<1> HIDE DEF next
<1>5. NetOf(next, bank) = NetOf(flows, bank) + (IF row.to = bank THEN row.amount ELSE 0)
                                             - (IF row.from = bank THEN row.amount ELSE 0)
  BY <1>2, <1>3, <1>4 DEF NetOf
<1> QED  BY <1>5 DEF next

(* A listing of some of the rows of a table moves what those rows move. *)
LEMMA SumOfListed ==
  ASSUME NEW B, NEW rows \in Seq(Flow(B)), NEW some \in SUBSET (DOMAIN rows),
         NEW n \in Nat, NEW order \in Bijection(1 .. n, some), NEW T \in SUBSET some,
         NEW K \in SUBSET (1 .. n), \A k \in 1 .. n : k \in K <=> order[k] \in T
  PROVE  SumFunctionOnSet(AmountsOf([k \in 1 .. n |-> rows[order[k]]]), K) =
           SumFunctionOnSet(AmountsOf(rows), T)
<1> DEFINE flows == [k \in 1 .. n |-> rows[order[k]]]
           h == [k \in K |-> order[k]]
           f == AmountsOf(rows)
<1>1. /\ order \in [1 .. n -> some]
      /\ \A i, j \in 1 .. n : order[i] = order[j] => i = j
      /\ \A e \in some : \E k \in 1 .. n : order[k] = e
  BY DEF Bijection, Injection, Surjection, IsInjective
<1>2. h \in Bijection(K, T)
  <2>1. h \in [K -> T] /\ (\A i, j \in K : h[i] = h[j] => i = j)
        /\ \A e \in T : \E k \in K : h[k] = e
    BY <1>1
  <2> HIDE DEF h
  <2> QED  BY <2>1 DEF Bijection, Injection, Surjection, IsInjective
<1>3. IsFiniteSet(K) /\ IsFiniteSet(T)
  <2>1. IsFiniteSet(1 .. n) /\ IsFiniteSet(DOMAIN rows)
    BY FS_Interval, FlowTypes
  <2> QED  BY <2>1, FS_Subset
<1>4. \A e \in T : f[e] \in Int
  BY FlowTypes
<1> DEFINE g == AmountsOf(flows)
<1>5. Along(g, f, h, K)
  BY <1>1 DEF AmountsOf, Along
<1>6. SumFunctionOnSet(g, K) = SumFunctionOnSet(f, T)
  <2> HIDE DEF h, f, g
  <2> QED  BY <1>2, <1>3, <1>4, <1>5, SumReindex
<1> QED  BY <1>6

LEMMA NetOfListed ==
  ASSUME NEW B, NEW rows \in Seq(Flow(B)), NEW some \in SUBSET (DOMAIN rows),
         NEW n \in Nat, NEW order \in Bijection(1 .. n, some), NEW bank
  PROVE  NetOf([k \in 1 .. n |-> rows[order[k]]], bank) =
           SumFunctionOnSet(AmountsOf(rows), {e \in some : rows[e].to = bank}) -
           SumFunctionOnSet(AmountsOf(rows), {e \in some : rows[e].from = bank})
<1> DEFINE flows == [k \in 1 .. n |-> rows[order[k]]]
           Out == {k \in DOMAIN flows : flows[k].from = bank}
           In  == {k \in DOMAIN flows : flows[k].to = bank}
           From == {e \in some : rows[e].from = bank}
           To == {e \in some : rows[e].to = bank}
<1>1. order \in [1 .. n -> some] /\ DOMAIN flows = 1 .. n
  BY DEF Bijection, Injection
<1>2. /\ Out \in SUBSET (1 .. n) /\ In \in SUBSET (1 .. n)
      /\ From \in SUBSET some /\ To \in SUBSET some
  BY <1>1
<1>3. /\ \A k \in 1 .. n : k \in Out <=> order[k] \in From
      /\ \A k \in 1 .. n : k \in In <=> order[k] \in To
  BY <1>1
<1>4. /\ Paid(flows, bank) = SumFunctionOnSet(AmountsOf(flows), Out)
      /\ Received(flows, bank) = SumFunctionOnSet(AmountsOf(flows), In)
  BY DEF Paid, Received
<1> HIDE DEF Out, In, From, To
<1>5. /\ SumFunctionOnSet(AmountsOf(flows), Out) = SumFunctionOnSet(AmountsOf(rows), From)
      /\ SumFunctionOnSet(AmountsOf(flows), In) = SumFunctionOnSet(AmountsOf(rows), To)
  BY <1>2, <1>3, SumOfListed
<1> HIDE DEF flows
<1>6. NetOf(flows, bank) = SumFunctionOnSet(AmountsOf(rows), To) -
                           SumFunctionOnSet(AmountsOf(rows), From)
  BY <1>4, <1>5 DEF NetOf
<1> QED  BY <1>6 DEF flows, To, From

-----------------------------------------------------------------------------
(* Accounts: what a side of the market still owes, or is still owed *)

Account(B) == [bank : B, left : Nat]
TotalLeft(accounts) == SumFunctionOnSet(LeftsOf(accounts), DOMAIN accounts)

LEMMA AccountTypes ==
  ASSUME NEW B, NEW accounts \in Seq(Account(B))
  PROVE  /\ IsFiniteSet(DOMAIN accounts)
         /\ LeftsOf(accounts) \in [DOMAIN accounts -> Nat]
         /\ TotalLeft(accounts) \in Nat
         /\ \A bank : /\ IsFiniteSet({i \in DOMAIN accounts : accounts[i].bank = bank})
                      /\ Left(accounts, bank) \in Nat
<1>1. Len(accounts) \in Nat /\ DOMAIN accounts = 1 .. Len(accounts)
      /\ \A i \in DOMAIN accounts : accounts[i] \in Account(B)
  BY SeqDomain
<1>2. IsFiniteSet(DOMAIN accounts)
  BY <1>1, FS_Interval
<1>3. LeftsOf(accounts) \in [DOMAIN accounts -> Nat]
  BY <1>1 DEF LeftsOf, Account
<1>4. TotalLeft(accounts) \in Nat
  BY <1>2, <1>3, SumNotNegative DEF TotalLeft
<1>5. ASSUME NEW bank
      PROVE  /\ IsFiniteSet({i \in DOMAIN accounts : accounts[i].bank = bank})
             /\ Left(accounts, bank) \in Nat
  <2> DEFINE own == {i \in DOMAIN accounts : accounts[i].bank = bank}
  <2>1. own \in SUBSET (DOMAIN accounts)
    OBVIOUS
  <2>2. Left(accounts, bank) = SumFunctionOnSet(LeftsOf(accounts), own)
    BY DEF Left
  <2> HIDE DEF own
  <2>3. IsFiniteSet(own)
    BY <1>2, <2>1, FS_Subset
  <2>4. SumFunctionOnSet(LeftsOf(accounts), own) \in Nat
    BY <1>3, <2>1, <2>3, SumNotNegative
  <2> QED  BY <2>2, <2>3, <2>4 DEF own
<1> QED  BY <1>2, <1>3, <1>4, <1>5

(* Paying off part of one account. *)
PaysOff(accounts, next, d, amount) ==
  next = [accounts EXCEPT ![d].left = accounts[d].left - amount]

PaidOff(B, accounts, next, d, amount) ==
  /\ next \in Seq(Account(B)) /\ DOMAIN next = DOMAIN accounts
  /\ Len(next) = Len(accounts)
  /\ \A i \in DOMAIN accounts : next[i].bank = accounts[i].bank
  /\ \A i \in DOMAIN accounts \ {d} : next[i].left = accounts[i].left
  /\ next[d].left = accounts[d].left - amount
  /\ TotalLeft(next) = TotalLeft(accounts) - amount
  /\ \A bank : Left(next, bank) =
       Left(accounts, bank) - (IF accounts[d].bank = bank THEN amount ELSE 0)

LEMMA PayOff ==
  ASSUME NEW B, NEW accounts \in Seq(Account(B)), NEW d \in DOMAIN accounts,
         NEW amount \in Nat, amount <= accounts[d].left, NEW next,
         PaysOff(accounts, next, d, amount)
  PROVE  PaidOff(B, accounts, next, d, amount)
<1> DEFINE row == [accounts[d] EXCEPT !.left = accounts[d].left - amount]
<1>0. accounts[d] \in Account(B)
  BY SeqDomain
<1>1. row \in Account(B) /\ row.bank = accounts[d].bank /\ row.left = accounts[d].left - amount
  <2>1. row = [bank |-> accounts[d].bank, left |-> accounts[d].left - amount]
    BY <1>0 DEF Account
  <2>2. accounts[d].bank \in B /\ accounts[d].left \in Nat /\ accounts[d].left - amount \in Nat
    BY <1>0 DEF Account
  <2> HIDE DEF row
  <2> QED  BY <2>1, <2>2 DEF Account
<1>2. next = [accounts EXCEPT ![d] = row]
  BY DEF PaysOff
<1>3. next \in Seq(Account(B)) /\ DOMAIN next = DOMAIN accounts /\ Len(next) = Len(accounts)
  BY <1>1, <1>2, ReplaceRow
<1>4. /\ \A i \in DOMAIN accounts \ {d} : next[i] = accounts[i]
      /\ next[d] = row
  BY <1>2
<1>5. /\ \A i \in DOMAIN accounts : next[i].bank = accounts[i].bank
      /\ \A i \in DOMAIN accounts \ {d} : next[i].left = accounts[i].left
      /\ next[d].left = accounts[d].left - amount
  BY <1>1, <1>4
<1> DEFINE f == LeftsOf(accounts)
           g == LeftsOf(next)
<1>6. /\ f \in [DOMAIN accounts -> Nat] /\ g \in [DOMAIN accounts -> Nat]
      /\ IsFiniteSet(DOMAIN accounts)
  BY <1>3, AccountTypes
<1>7. /\ \A i \in DOMAIN accounts \ {d} : f[i] = g[i]
      /\ f[d] = accounts[d].left /\ g[d] = accounts[d].left - amount
  BY <1>3, <1>5 DEF LeftsOf
<1> HIDE DEF row
<1>8. TotalLeft(next) = TotalLeft(accounts) - amount
  <2>1. /\ TotalLeft(next) = SumFunctionOnSet(g, DOMAIN accounts)
        /\ TotalLeft(accounts) = SumFunctionOnSet(f, DOMAIN accounts)
    BY <1>3 DEF TotalLeft
  <2>2. TotalLeft(accounts) \in Nat /\ accounts[d].left \in Nat
    BY <1>0, AccountTypes DEF Account
  <2> HIDE DEF f, g
  <2>3. SumFunctionOnSet(g, DOMAIN accounts) =
          SumFunctionOnSet(f, DOMAIN accounts) + (g[d] - f[d])
    BY <1>6, <1>7, SumReplace
  <2> QED  BY <1>7, <2>1, <2>2, <2>3
<1>9. ASSUME NEW bank
      PROVE  Left(next, bank) =
               Left(accounts, bank) - (IF accounts[d].bank = bank THEN amount ELSE 0)
  <2> DEFINE own == {i \in DOMAIN accounts : accounts[i].bank = bank}
  <2>1. {i \in DOMAIN next : next[i].bank = bank} = own
    BY <1>3, <1>5
  <2>2. Left(next, bank) = SumFunctionOnSet(g, own)
    BY <2>1 DEF Left
  <2>3. Left(accounts, bank) = SumFunctionOnSet(f, own)
    BY DEF Left
  <2>4. IsFiniteSet(own) /\ own \subseteq DOMAIN accounts /\ Left(accounts, bank) \in Nat
    BY AccountTypes
  <2>5. d \in own <=> accounts[d].bank = bank
    OBVIOUS
  <2> HIDE DEF f, g, own
  <2>6. CASE d \in own
    <3>1. SumFunctionOnSet(g, own) = SumFunctionOnSet(f, own) + (g[d] - f[d])
      <4>1. /\ \A y \in own : f[y] \in Int /\ g[y] \in Int
            /\ \A y \in own \ {d} : f[y] = g[y]
        BY <1>6, <1>7, <2>4
      <4> QED  BY <2>4, <2>6, <4>1, SumReplace
    <3>2. accounts[d].left \in Nat
      BY <1>0 DEF Account
    <3>3. Left(next, bank) = Left(accounts, bank) - amount
      BY <1>7, <2>2, <2>3, <2>4, <3>1, <3>2
    <3> QED  BY <2>5, <2>6, <3>3
  <2>7. CASE d \notin own
    <3>1. \A i \in own : g[i] = f[i]
      BY <1>7, <2>4, <2>7
    <3>2. SumFunctionOnSet(g, own) = SumFunctionOnSet(f, own)
      BY <2>4, <3>1, SumSame
    <3>3. (IF accounts[d].bank = bank THEN amount ELSE 0) = 0
      BY <2>5, <2>7
    <3> QED  BY <2>2, <2>3, <2>4, <3>2, <3>3
  <2> QED  BY <2>6, <2>7
<1> QED  BY <1>3, <1>5, <1>8, <1>9 DEF PaidOff

-----------------------------------------------------------------------------
(* The loop of greedy_match *)

LoopState(B) == [debtors : Seq(Account(B)), creditors : Seq(Account(B)),
                 d : Nat, c : Nat, transfers : Seq(Flow(B))]

(* The accounts before the index are paid out, the others are not. *)
PaidOutBelow(accounts, i) ==
  /\ i \in 1 .. Len(accounts) + 1
  /\ \A j \in DOMAIN accounts : accounts[j].left = 0 <=> j < i

(* No bank is on both sides. *)
TwoSided(loop) ==
  \A i \in DOMAIN loop.debtors, j \in DOMAIN loop.creditors :
    loop.debtors[i].bank # loop.creditors[j].bank

RealTransfers(transfers) ==
  \A k \in DOMAIN transfers : transfers[k].amount > 0 /\ transfers[k].from # transfers[k].to

(* Each iteration moves an index, and the last one moves both. *)
FewTransfers(loop) ==
  IF Unfinished(loop) THEN Len(loop.transfers) <= (loop.d - 1) + (loop.c - 1)
  ELSE loop.transfers = <<>> \/ Len(loop.transfers) < (loop.d - 1) + (loop.c - 1)

(* What holds at every iteration. *)
Matching(loop, B) ==
  /\ loop \in LoopState(B)
  /\ PaidOutBelow(loop.debtors, loop.d)
  /\ PaidOutBelow(loop.creditors, loop.c)
  /\ TwoSided(loop)
  /\ TotalLeft(loop.debtors) = TotalLeft(loop.creditors)
  /\ RealTransfers(loop.transfers)
  /\ FewTransfers(loop)

(* A side that is passed has nothing left; a side that is not has. *)
LEMMA NothingLeft ==
  ASSUME NEW B, NEW accounts \in Seq(Account(B)), NEW i, PaidOutBelow(accounts, i)
  PROVE  TotalLeft(accounts) = 0 <=> i > Len(accounts)
<1>1. Len(accounts) \in Nat /\ DOMAIN accounts = 1 .. Len(accounts)
  BY SeqDomain
<1>2. i \in 1 .. Len(accounts) + 1
  BY DEF PaidOutBelow
<1>3. /\ LeftsOf(accounts) \in [DOMAIN accounts -> Nat]
      /\ IsFiniteSet(DOMAIN accounts)
  BY AccountTypes
<1>4. \A j \in DOMAIN accounts : LeftsOf(accounts)[j] = 0 <=> j < i
  BY DEF PaidOutBelow, LeftsOf
<1>5. ASSUME i > Len(accounts) PROVE TotalLeft(accounts) = 0
  <2>1. \A j \in DOMAIN accounts : LeftsOf(accounts)[j] = 0
    BY <1>1, <1>2, <1>4, <1>5
  <2> QED  BY <1>3, <2>1, SumOfZeros DEF TotalLeft
<1>6. ASSUME TotalLeft(accounts) = 0 PROVE i > Len(accounts)
  <2>1. \A j \in DOMAIN accounts : LeftsOf(accounts)[j] = 0
    BY <1>3, <1>6, SumNotNegative DEF TotalLeft
  <2>2. i \notin DOMAIN accounts
    BY <1>1, <1>2, <1>4, <2>1
  <2> QED  BY <1>1, <1>2, <2>2
<1> QED  BY <1>5, <1>6

(* When one side is passed, so is the other: nobody owes or is owed. *)
LEMMA BothPaidOut ==
  ASSUME NEW B, NEW loop, Matching(loop, B), ~ Unfinished(loop)
  PROVE  /\ loop.d = Len(loop.debtors) + 1 /\ loop.c = Len(loop.creditors) + 1
         /\ \A i \in DOMAIN loop.debtors : loop.debtors[i].left = 0
         /\ \A i \in DOMAIN loop.creditors : loop.creditors[i].left = 0
         /\ \A bank : StillDue(loop, bank) = 0
<1>1. /\ loop.debtors \in Seq(Account(B)) /\ loop.creditors \in Seq(Account(B))
      /\ PaidOutBelow(loop.debtors, loop.d) /\ PaidOutBelow(loop.creditors, loop.c)
      /\ TotalLeft(loop.debtors) = TotalLeft(loop.creditors)
  BY DEF Matching, LoopState
<1>2. /\ Len(loop.debtors) \in Nat /\ Len(loop.creditors) \in Nat
      /\ loop.d \in 1 .. Len(loop.debtors) + 1 /\ loop.c \in 1 .. Len(loop.creditors) + 1
  BY <1>1, SeqDomain DEF PaidOutBelow
<1>3. loop.d > Len(loop.debtors) \/ loop.c > Len(loop.creditors)
  BY <1>2 DEF Unfinished
<1>4. TotalLeft(loop.debtors) = 0 /\ TotalLeft(loop.creditors) = 0
  BY <1>1, <1>3, NothingLeft
<1>5. loop.d = Len(loop.debtors) + 1 /\ loop.c = Len(loop.creditors) + 1
  <2>1. loop.d > Len(loop.debtors) /\ loop.c > Len(loop.creditors)
    BY <1>1, <1>4, NothingLeft
  <2> QED  BY <1>2, <2>1
<1>6. ASSUME NEW accounts \in Seq(Account(B)), NEW i, PaidOutBelow(accounts, i),
             TotalLeft(accounts) = 0
      PROVE  /\ \A j \in DOMAIN accounts : accounts[j].left = 0
             /\ \A bank : Left(accounts, bank) = 0
  <2>1. /\ LeftsOf(accounts) \in [DOMAIN accounts -> Nat]
        /\ IsFiniteSet(DOMAIN accounts)
    BY AccountTypes
  <2>2. \A j \in DOMAIN accounts : LeftsOf(accounts)[j] = 0
    BY <1>6, <2>1, SumNotNegative DEF TotalLeft
  <2>3. \A j \in DOMAIN accounts : accounts[j].left = 0
    BY <2>2 DEF LeftsOf
  <2>4. ASSUME NEW bank PROVE Left(accounts, bank) = 0
    <3> DEFINE own == {j \in DOMAIN accounts : accounts[j].bank = bank}
    <3>1. IsFiniteSet(own) /\ own \subseteq DOMAIN accounts
      BY AccountTypes
    <3>2. Left(accounts, bank) = SumFunctionOnSet(LeftsOf(accounts), own)
      BY DEF Left
    <3> HIDE DEF own
    <3> QED  BY <2>2, <3>1, <3>2, SumOfZeros
  <2> QED  BY <2>3, <2>4
<1> QED  BY <1>1, <1>4, <1>5, <1>6 DEF StillDue

(* One iteration pays the smaller of the two amounts it looks at. *)
LEMMA StepPays ==
  ASSUME NEW B, NEW loop, Matching(loop, B), Unfinished(loop)
  PROVE  LET next   == GreedyStep(loop)
             debt   == loop.debtors[loop.d].left
             credit == loop.creditors[loop.c].left
             amount == IF debt <= credit THEN debt ELSE credit
         IN  /\ loop.d \in DOMAIN loop.debtors /\ loop.c \in DOMAIN loop.creditors
             /\ debt \in Nat /\ credit \in Nat
             /\ amount \in Nat /\ amount > 0 /\ amount <= debt /\ amount <= credit
             /\ PaysOff(loop.debtors, next.debtors, loop.d, amount)
             /\ PaysOff(loop.creditors, next.creditors, loop.c, amount)
             /\ next.d = (IF amount = debt THEN loop.d + 1 ELSE loop.d)
             /\ next.c = (IF amount = credit THEN loop.c + 1 ELSE loop.c)
             /\ NetTransfer(loop.debtors[loop.d].bank, loop.creditors[loop.c].bank, amount)
                  \in Flow(B)
             /\ next.transfers = Append(loop.transfers,
                  NetTransfer(loop.debtors[loop.d].bank, loop.creditors[loop.c].bank, amount))
<1> DEFINE debt   == loop.debtors[loop.d].left
           credit == loop.creditors[loop.c].left
           amount == IF debt <= credit THEN debt ELSE credit
<1>1. /\ loop.debtors \in Seq(Account(B)) /\ loop.creditors \in Seq(Account(B))
      /\ PaidOutBelow(loop.debtors, loop.d) /\ PaidOutBelow(loop.creditors, loop.c)
  BY DEF Matching, LoopState
<1>2. loop.d \in DOMAIN loop.debtors /\ loop.c \in DOMAIN loop.creditors
  BY <1>1, SeqDomain DEF PaidOutBelow, Unfinished
<1>3. loop.debtors[loop.d] \in Account(B) /\ loop.creditors[loop.c] \in Account(B)
  BY <1>1, <1>2, SeqDomain
<1>4. debt \in Nat /\ credit \in Nat
  BY <1>3 DEF Account
<1>5. debt # 0 /\ credit # 0
  <2>1. loop.d \in Nat /\ loop.c \in Nat
    BY DEF Matching, LoopState
  <2> QED  BY <1>1, <1>2, <2>1 DEF PaidOutBelow
<1>6. amount \in Nat /\ amount > 0 /\ amount <= debt /\ amount <= credit
  <2> HIDE DEF debt, credit
  <2> QED  BY <1>4, <1>5
<1>7. NetTransfer(loop.debtors[loop.d].bank, loop.creditors[loop.c].bank, amount) \in Flow(B)
  <2> HIDE DEF amount
  <2> QED  BY <1>3, <1>6 DEF Account, Flow, NetTransfer
<1> QED  BY <1>2, <1>4, <1>6, <1>7 DEF GreedyStep, PaysOff

(* ... which moves that much from what is still due to what is paid. *)
LEMMA StepKeepsPositions ==
  ASSUME NEW B, NEW loop, Matching(loop, B), Unfinished(loop), NEW bank
  PROVE  LET next == GreedyStep(loop)
         IN  NetOf(next.transfers, bank) + StillDue(next, bank) =
               NetOf(loop.transfers, bank) + StillDue(loop, bank)
<1> DEFINE next   == GreedyStep(loop)
           from   == loop.debtors[loop.d].bank
           to     == loop.creditors[loop.c].bank
           debt   == loop.debtors[loop.d].left
           credit == loop.creditors[loop.c].left
           amount == IF debt <= credit THEN debt ELSE credit
           out    == IF from = bank THEN amount ELSE 0
           in     == IF to = bank THEN amount ELSE 0
<1>1. /\ loop.debtors \in Seq(Account(B)) /\ loop.creditors \in Seq(Account(B))
      /\ loop.transfers \in Seq(Flow(B))
  BY DEF Matching, LoopState
<1>2. /\ loop.d \in DOMAIN loop.debtors /\ loop.c \in DOMAIN loop.creditors
      /\ amount \in Nat /\ amount <= debt /\ amount <= credit
      /\ PaysOff(loop.debtors, next.debtors, loop.d, amount)
      /\ PaysOff(loop.creditors, next.creditors, loop.c, amount)
      /\ NetTransfer(from, to, amount) \in Flow(B)
      /\ next.transfers = Append(loop.transfers, NetTransfer(from, to, amount))
  BY StepPays
<1> HIDE DEF next, amount
<1>7. /\ PaidOff(B, loop.debtors, next.debtors, loop.d, amount)
      /\ PaidOff(B, loop.creditors, next.creditors, loop.c, amount)
  BY <1>1, <1>2, PayOff
<1>3. Left(next.debtors, bank) = Left(loop.debtors, bank) - out
  BY <1>7 DEF PaidOff
<1>4. Left(next.creditors, bank) = Left(loop.creditors, bank) - in
  BY <1>7 DEF PaidOff
<1>5. NetOf(next.transfers, bank) = NetOf(loop.transfers, bank) + in - out
  <2> DEFINE row == NetTransfer(from, to, amount)
  <2>1. row.from = from /\ row.to = to /\ row.amount = amount /\ row \in Flow(B)
    BY <1>2 DEF NetTransfer
  <2> HIDE DEF row
  <2>2. NetOf(Append(loop.transfers, row), bank) =
          NetOf(loop.transfers, bank) + (IF row.to = bank THEN row.amount ELSE 0)
                                      - (IF row.from = bank THEN row.amount ELSE 0)
    BY <1>1, <2>1, NetOfAppend
  <2>3. next.transfers = Append(loop.transfers, row)
    BY <1>2 DEF row
  <2> HIDE DEF from, to
  <2> QED  BY <2>1, <2>2, <2>3
<1>6. /\ Left(loop.debtors, bank) \in Int /\ Left(loop.creditors, bank) \in Int
      /\ NetOf(loop.transfers, bank) \in Int /\ out \in Int /\ in \in Int
  <2>1. Left(loop.debtors, bank) \in Nat
    BY <1>1, AccountTypes
  <2>4. Left(loop.creditors, bank) \in Nat
    BY <1>1, AccountTypes
  <2>2. NetOf(loop.transfers, bank) \in Int
    BY <1>1, FlowTypes
  <2>3. out \in Int /\ in \in Int
    BY <1>2
  <2> QED  BY <2>1, <2>2, <2>3, <2>4
<1> HIDE DEF out, in
<1>8. NetOf(next.transfers, bank) + StillDue(next, bank) =
        NetOf(loop.transfers, bank) + StillDue(loop, bank)
  BY <1>3, <1>4, <1>5, <1>6 DEF StillDue
<1> QED  BY <1>8 DEF next

(* The amount is at least one of the two, so an index moves. *)
LEMMA StepMoves ==
  ASSUME NEW B, NEW loop, Matching(loop, B), Unfinished(loop)
  PROVE  LET next == GreedyStep(loop)
         IN  /\ next \in LoopState(B)
             /\ PaidOutBelow(next.debtors, next.d) /\ PaidOutBelow(next.creditors, next.c)
             /\ Len(next.debtors) = Len(loop.debtors) /\ Len(next.creditors) = Len(loop.creditors)
             /\ next.d \in {loop.d, loop.d + 1} /\ next.c \in {loop.c, loop.c + 1}
             /\ next.d + next.c > loop.d + loop.c
             /\ Len(next.transfers) = Len(loop.transfers) + 1
             /\ TotalLeft(next.debtors) = TotalLeft(next.creditors)
             /\ TwoSided(next) /\ RealTransfers(next.transfers)
<1> DEFINE next   == GreedyStep(loop)
           debt   == loop.debtors[loop.d].left
           credit == loop.creditors[loop.c].left
           amount == IF debt <= credit THEN debt ELSE credit
           row == NetTransfer(loop.debtors[loop.d].bank, loop.creditors[loop.c].bank, amount)
<1>1. /\ loop.debtors \in Seq(Account(B)) /\ loop.creditors \in Seq(Account(B))
      /\ loop.transfers \in Seq(Flow(B)) /\ loop.d \in Nat /\ loop.c \in Nat
      /\ PaidOutBelow(loop.debtors, loop.d) /\ PaidOutBelow(loop.creditors, loop.c)
      /\ TwoSided(loop) /\ RealTransfers(loop.transfers)
      /\ TotalLeft(loop.debtors) = TotalLeft(loop.creditors)
  BY DEF Matching, LoopState
<1>2. /\ loop.d \in DOMAIN loop.debtors /\ loop.c \in DOMAIN loop.creditors
      /\ debt \in Nat /\ credit \in Nat
      /\ amount \in Nat /\ amount > 0 /\ amount <= debt /\ amount <= credit
      /\ PaysOff(loop.debtors, next.debtors, loop.d, amount)
      /\ PaysOff(loop.creditors, next.creditors, loop.c, amount)
      /\ next.d = (IF amount = debt THEN loop.d + 1 ELSE loop.d)
      /\ next.c = (IF amount = credit THEN loop.c + 1 ELSE loop.c)
      /\ row \in Flow(B)
      /\ next.transfers = Append(loop.transfers, row)
  BY StepPays
<1>3. amount = debt \/ amount = credit
  OBVIOUS
<1>4. row.amount = amount /\ row.from = loop.debtors[loop.d].bank /\ row.to = loop.creditors[loop.c].bank
  BY DEF NetTransfer
<1>5. next = [debtors |-> next.debtors, creditors |-> next.creditors, d |-> next.d,
              c |-> next.c, transfers |-> next.transfers]
  BY DEF GreedyStep
<1> HIDE DEF next, amount, row
<1>6. /\ next.debtors \in Seq(Account(B)) /\ DOMAIN next.debtors = DOMAIN loop.debtors
      /\ Len(next.debtors) = Len(loop.debtors)
      /\ \A i \in DOMAIN loop.debtors : next.debtors[i].bank = loop.debtors[i].bank
      /\ \A i \in DOMAIN loop.debtors \ {loop.d} : next.debtors[i].left = loop.debtors[i].left
      /\ next.debtors[loop.d].left = debt - amount
      /\ TotalLeft(next.debtors) = TotalLeft(loop.debtors) - amount
  <2>1. PaidOff(B, loop.debtors, next.debtors, loop.d, amount)
    BY <1>1, <1>2, PayOff
  <2> QED  BY <2>1 DEF PaidOff
<1>7. /\ next.creditors \in Seq(Account(B)) /\ DOMAIN next.creditors = DOMAIN loop.creditors
      /\ Len(next.creditors) = Len(loop.creditors)
      /\ \A i \in DOMAIN loop.creditors : next.creditors[i].bank = loop.creditors[i].bank
      /\ \A i \in DOMAIN loop.creditors \ {loop.c} : next.creditors[i].left = loop.creditors[i].left
      /\ next.creditors[loop.c].left = credit - amount
      /\ TotalLeft(next.creditors) = TotalLeft(loop.creditors) - amount
  <2>1. PaidOff(B, loop.creditors, next.creditors, loop.c, amount)
    BY <1>1, <1>2, PayOff
  <2> QED  BY <2>1 DEF PaidOff
<1>8. /\ next.transfers \in Seq(Flow(B)) /\ Len(next.transfers) = Len(loop.transfers) + 1
      /\ RealTransfers(next.transfers)
  <2>1. /\ next.transfers \in Seq(Flow(B)) /\ Len(next.transfers) = Len(loop.transfers) + 1
        /\ DOMAIN next.transfers = DOMAIN loop.transfers \cup {Len(loop.transfers) + 1}
        /\ \A i \in DOMAIN loop.transfers : next.transfers[i] = loop.transfers[i]
        /\ next.transfers[Len(loop.transfers) + 1] = row
    <3>1. loop.transfers \in Seq(Flow(B)) /\ row \in Flow(B)
          /\ next.transfers = Append(loop.transfers, row)
      BY <1>1, <1>2
    <3> QED  BY <3>1, AppendRow
  <2>2. row.amount > 0 /\ row.from # row.to
    BY <1>1, <1>2, <1>4 DEF TwoSided
  <2>3. RealTransfers(next.transfers)
    BY <1>1, <2>1, <2>2 DEF RealTransfers
  <2> QED  BY <2>1, <2>3
<1>9. next.d \in Nat /\ next.c \in Nat /\ next \in LoopState(B)
  <2>1. next.d \in Nat /\ next.c \in Nat
    BY <1>1, <1>2
  <2> QED  BY <1>5, <1>6, <1>7, <1>8, <2>1 DEF LoopState
<1>10. PaidOutBelow(next.debtors, next.d)
  <2>1. Len(loop.debtors) \in Nat /\ DOMAIN loop.debtors = 1 .. Len(loop.debtors)
    BY <1>1, SeqDomain
  <2>2. next.d \in 1 .. Len(loop.debtors) + 1
    BY <1>1, <1>2, <2>1
  <2>3. ASSUME NEW j \in DOMAIN loop.debtors
        PROVE  next.debtors[j].left = 0 <=> j < next.d
    <3>1. j \in Nat /\ (loop.debtors[j].left = 0 <=> j < loop.d)
      BY <1>1, <2>1 DEF PaidOutBelow
    <3>2. CASE j = loop.d
      <4> HIDE DEF debt
      <4>1. debt - amount = 0 <=> amount = debt
        BY <1>2
      <4> QED  BY <1>1, <1>2, <1>6, <3>2, <4>1
    <3>3. CASE j # loop.d
      <4>1. next.debtors[j].left = loop.debtors[j].left
        BY <1>6, <3>3
      <4> QED  BY <1>1, <1>2, <3>1, <3>3, <4>1
    <3> QED  BY <3>2, <3>3
  <2> QED  BY <1>6, <2>2, <2>3 DEF PaidOutBelow
<1>11. PaidOutBelow(next.creditors, next.c)
  <2>1. Len(loop.creditors) \in Nat /\ DOMAIN loop.creditors = 1 .. Len(loop.creditors)
    BY <1>1, SeqDomain
  <2>2. next.c \in 1 .. Len(loop.creditors) + 1
    BY <1>1, <1>2, <2>1
  <2>3. ASSUME NEW j \in DOMAIN loop.creditors
        PROVE  next.creditors[j].left = 0 <=> j < next.c
    <3>1. j \in Nat /\ (loop.creditors[j].left = 0 <=> j < loop.c)
      BY <1>1, <2>1 DEF PaidOutBelow
    <3>2. CASE j = loop.c
      <4> HIDE DEF credit
      <4>1. credit - amount = 0 <=> amount = credit
        BY <1>2
      <4> QED  BY <1>1, <1>2, <1>7, <3>2, <4>1
    <3>3. CASE j # loop.c
      <4>1. next.creditors[j].left = loop.creditors[j].left
        BY <1>7, <3>3
      <4> QED  BY <1>1, <1>2, <3>1, <3>3, <4>1
    <3> QED  BY <3>2, <3>3
  <2> QED  BY <1>7, <2>2, <2>3 DEF PaidOutBelow
<1>12. TwoSided(next)
  BY <1>1, <1>6, <1>7 DEF TwoSided
<1>13. /\ next.d \in {loop.d, loop.d + 1} /\ next.c \in {loop.c, loop.c + 1}
       /\ next.d + next.c > loop.d + loop.c
  BY <1>1, <1>2, <1>3
<1>14. TotalLeft(next.debtors) = TotalLeft(next.creditors)
  BY <1>1, <1>6, <1>7
<1> QED  BY <1>6, <1>7, <1>8, <1>9, <1>10, <1>11, <1>12, <1>13, <1>14 DEF next

(* Every iteration keeps what holds at every iteration. *)
LEMMA StepMatches ==
  ASSUME NEW B, NEW loop, Matching(loop, B), Unfinished(loop)
  PROVE  Matching(GreedyStep(loop), B)
<1> DEFINE next == GreedyStep(loop)
<1>1. /\ next \in LoopState(B)
      /\ PaidOutBelow(next.debtors, next.d) /\ PaidOutBelow(next.creditors, next.c)
      /\ Len(next.debtors) = Len(loop.debtors) /\ Len(next.creditors) = Len(loop.creditors)
      /\ next.d \in {loop.d, loop.d + 1} /\ next.c \in {loop.c, loop.c + 1}
      /\ next.d + next.c > loop.d + loop.c
      /\ Len(next.transfers) = Len(loop.transfers) + 1
      /\ TotalLeft(next.debtors) = TotalLeft(next.creditors)
      /\ TwoSided(next) /\ RealTransfers(next.transfers)
  BY StepMoves
<1>2. /\ loop.d \in Nat /\ loop.c \in Nat /\ next.d \in Nat /\ next.c \in Nat
      /\ Len(loop.transfers) \in Nat
      /\ Len(loop.debtors) \in Nat /\ Len(loop.creditors) \in Nat
      /\ loop.d <= Len(loop.debtors) /\ loop.c <= Len(loop.creditors)
  BY <1>1, SeqDomain DEF Matching, LoopState, Unfinished
<1>3. Len(loop.transfers) <= (loop.d - 1) + (loop.c - 1)
  BY DEF Matching, FewTransfers
<1> HIDE DEF next
<1>4. /\ next.d \in {loop.d, loop.d + 1} /\ next.c \in {loop.c, loop.c + 1}
      /\ next.d + next.c > loop.d + loop.c
      /\ Len(next.transfers) = Len(loop.transfers) + 1
  BY <1>1
<1>5. Len(next.debtors) = Len(loop.debtors) /\ Len(next.creditors) = Len(loop.creditors)
  BY <1>1
<1>6. next.d \in Int /\ next.c \in Int /\ loop.d \in Int /\ loop.c \in Int
      /\ Len(loop.transfers) \in Int
  BY <1>2
<1>7. Len(next.transfers) <= (next.d - 1) + (next.c - 1)
  <2> DEFINE n == Len(loop.transfers)
             m == Len(next.transfers)
             x == loop.d
             y == loop.c
             p == next.d
             q == next.c
  <2>1. m = n + 1 /\ p + q > x + y /\ n <= (x - 1) + (y - 1)
    BY <1>4, <1>3
  <2>2. n \in Int /\ x \in Int /\ y \in Int /\ p \in Int /\ q \in Int
    BY <1>6
  <2> HIDE DEF n, m, x, y, p, q
  <2>3. m <= (p - 1) + (q - 1)
    BY ONLY <2>1, <2>2
  <2> QED  BY <2>3 DEF m, p, q
<1>8. ASSUME Unfinished(next) PROVE Matching(next, B)
  <2>2. FewTransfers(next)
    BY <1>8, <1>7 DEF FewTransfers
  <2> QED  BY ONLY <1>1, <2>2 DEF Matching
<1>9. ASSUME ~ Unfinished(next) PROVE Matching(next, B)
  <2> DEFINE empty == [debtors |-> next.debtors, creditors |-> next.creditors,
                       d |-> next.d, c |-> next.c, transfers |-> <<>>]
  <2>1. Matching(empty, B) /\ ~ Unfinished(empty)
    <3>1. /\ empty.debtors = next.debtors /\ empty.creditors = next.creditors
          /\ empty.d = next.d /\ empty.c = next.c /\ empty.transfers = <<>>
          /\ empty \in LoopState(B)
      BY <1>1 DEF LoopState
    <3> HIDE DEF empty
    <3>2. RealTransfers(<<>>) /\ TwoSided(empty) /\ ~ Unfinished(empty)
      BY <1>1, <1>9, <3>1 DEF RealTransfers, TwoSided, Unfinished
    <3>3. FewTransfers(empty)
      BY <3>1, <3>2 DEF FewTransfers
    <3> QED  BY <1>1, <3>1, <3>2, <3>3 DEF Matching
  <2>2. empty.d = Len(empty.debtors) + 1 /\ empty.c = Len(empty.creditors) + 1
    BY <2>1, BothPaidOut
  <2>3. next.d = Len(next.debtors) + 1 /\ next.c = Len(next.creditors) + 1
    BY <1>1, <2>2 DEF LoopState
  <2>4. Len(next.transfers) < (next.d - 1) + (next.c - 1)
    <3> DEFINE n == Len(loop.transfers)
               m == Len(next.transfers)
               x == loop.d
               y == loop.c
               p == next.d
               q == next.c
               u == Len(loop.debtors)
               v == Len(loop.creditors)
    <3>1. /\ m = n + 1 /\ n <= (x - 1) + (y - 1) /\ x <= u /\ y <= v
          /\ p = u + 1 /\ q = v + 1
      BY <1>4, <1>5, <1>2, <1>3, <2>3
    <3>2. n \in Int /\ x \in Int /\ y \in Int /\ u \in Int /\ v \in Int
      BY <1>2
    <3> HIDE DEF n, m, x, y, p, q, u, v
    <3>3. m < (p - 1) + (q - 1)
      BY ONLY <3>1, <3>2
    <3> QED  BY <3>3 DEF m, p, q
  <2>5. FewTransfers(next)
    BY <1>9, <2>4 DEF FewTransfers
  <2> QED  BY ONLY <1>1, <2>5 DEF Matching
<1> QED  BY <1>8, <1>9 DEF next

-----------------------------------------------------------------------------
(* Before the loop: the positions *)

LEMMA IncreasingOrders ==
  ASSUME NEW S, S \subseteq Int
  PROVE  Orders(Increasing(S), S)
BY DEF Orders, Increasing

(* Every bank of an obligation is met for the first time once, and the     *)
(* dict lists it there.                                                    *)
LEMMA BanksListed ==
  ASSUME NEW B, NEW obligations \in Seq(Flow(B)), NEW order,
         order = InsertionOrder(obligations)
  PROVE  \E n \in Nat :
           /\ order \in [1 .. n -> B] /\ DOMAIN order = 1 .. n
           /\ \A i, j \in 1 .. n : order[i] = order[j] => i = j
           /\ \A i \in DOMAIN obligations :
                /\ \E k \in 1 .. n : order[k] = obligations[i].from
                /\ \E k \in 1 .. n : order[k] = obligations[i].to
<1> DEFINE M == 1 .. 2 * Len(obligations)
           F == FirstMentions(obligations)
           list == Sorted(F, Increasing(F))
           n == Cardinality(F)
           At(m) == Mention(obligations, m)
<1>1. /\ Len(obligations) \in Nat /\ DOMAIN obligations = 1 .. Len(obligations)
      /\ \A i \in DOMAIN obligations : obligations[i] \in Flow(B)
  BY SeqDomain
<1>2. F \subseteq M /\ IsFiniteSet(F)
  <2>1. F \subseteq M
    BY DEF FirstMentions
  <2>2. IsFiniteSet(M)
    BY <1>1, FS_Interval
  <2> QED  BY <2>1, <2>2, FS_Subset
<1>3. ASSUME NEW m \in M PROVE At(m) \in B
  <2>1. m \in Nat /\ m >= 1 /\ m <= 2 * Len(obligations)
    BY <1>1
  <2>2. CASE m % 2 = 1
    <3>1. (m + 1) \div 2 \in 1 .. Len(obligations)
      BY <1>1, <2>1, <2>2
    <3> QED  BY <1>1, <2>2, <3>1 DEF Mention, Flow
  <2>3. CASE m % 2 # 1
    <3>1. m \div 2 \in 1 .. Len(obligations)
      BY <1>1, <2>1, <2>3
    <3> QED  BY <1>1, <2>3, <3>1 DEF Mention, Flow
  <2> QED  BY <2>2, <2>3
<1>4. ASSUME NEW m \in M PROVE \E k \in F : At(k) = At(m)
  <2> DEFINE same == {k \in M : At(k) = At(m)}
  <2>1. same \subseteq Nat /\ m \in same
    BY <1>1
  <2>2. PICK k \in same : \A j \in same : k <= j
    <3> HIDE DEF same
    <3> QED  BY <2>1, Least
  <2>3. k \in M /\ At(k) = At(m)
    OBVIOUS
  <2>4. ASSUME NEW j \in 1 .. k - 1, At(j) = At(k) PROVE FALSE
    <3>1. j \in M
      BY <1>1, <2>3
    <3>2. j \in same
      BY <2>3, <2>4, <3>1
    <3>3. k <= j
      BY <2>2, <3>2
    <3>4. k \in Nat /\ j \in Nat
      BY <1>1, <2>3, <3>1
    <3> QED  BY <3>3, <3>4
  <2>5. k \in F
    BY <2>3, <2>4 DEF FirstMentions
  <2> QED  BY <2>3, <2>5
<1>5. ASSUME NEW k \in F, NEW m \in F, At(k) = At(m) PROVE k = m
  <2>1. k \in Nat /\ m \in Nat /\ k >= 1 /\ m >= 1
    BY <1>1, <1>2
  <2>2. ~ (k < m)
    BY <1>5, <2>1 DEF FirstMentions
  <2>3. ~ (m < k)
    BY <1>5, <2>1 DEF FirstMentions
  <2> QED  BY <2>1, <2>2, <2>3
<1>6. n \in Nat /\ DOMAIN list = 1 .. n /\ list \in Bijection(1 .. n, F)
  <2>1. F \subseteq Int
    BY <1>1, <1>2
  <2> HIDE DEF F
  <2>2. Orders(Increasing(F), F)
    BY <2>1, IncreasingOrders
  <2> QED  BY <1>2, <2>2, SortedLists
<1>7. order = [i \in 1 .. n |-> At(list[i])]
  BY <1>6 DEF InsertionOrder
<1>8. /\ list \in [1 .. n -> F]
      /\ \A i, j \in 1 .. n : list[i] = list[j] => i = j
      /\ \A m \in F : \E i \in 1 .. n : list[i] = m
  BY <1>6 DEF Bijection, Injection, Surjection, IsInjective
<1> HIDE DEF At, list, F, n
<1>9. order \in [1 .. n -> B] /\ DOMAIN order = 1 .. n
  <2>1. \A i \in 1 .. n : At(list[i]) \in B
    BY <1>2, <1>3, <1>8
  <2> QED  BY <1>7, <2>1
<1>10. \A i, j \in 1 .. n : order[i] = order[j] => i = j
  BY <1>5, <1>7, <1>8
<1>11. \A m \in M : \E k \in 1 .. n : order[k] = At(m)
  <2> SUFFICES ASSUME NEW m \in M PROVE \E k \in 1 .. n : order[k] = At(m)
    OBVIOUS
  <2>1. PICK f \in F : At(f) = At(m)
    BY <1>4
  <2>2. PICK k \in 1 .. n : list[k] = f
    BY <1>8
  <2> QED  BY <1>7, <2>1, <2>2
<1>12. ASSUME NEW i \in DOMAIN obligations
       PROVE  /\ 2 * i - 1 \in M /\ At(2 * i - 1) = obligations[i].from
              /\ 2 * i \in M /\ At(2 * i) = obligations[i].to
  <2>1. i \in Nat /\ i >= 1 /\ i <= Len(obligations)
    BY <1>1
  <2>2. 2 * i - 1 \in M /\ 2 * i \in M
    BY <1>1, <2>1
  <2> DEFINE odd  == 2 * i - 1
             even == 2 * i
  <2>3. odd % 2 = 1 /\ (odd + 1) \div 2 = i /\ even % 2 # 1 /\ even \div 2 = i
    BY <2>1
  <2> HIDE DEF odd, even
  <2>4. At(odd) = obligations[i].from
    BY <2>3 DEF At, Mention
  <2>5. At(even) = obligations[i].to
    BY <2>3 DEF At, Mention
  <2> QED  BY <2>2, <2>4, <2>5 DEF odd, even
<1>13. ASSUME NEW i \in DOMAIN obligations
       PROVE  /\ \E k \in 1 .. n : order[k] = obligations[i].from
              /\ \E k \in 1 .. n : order[k] = obligations[i].to
  <2>1. PICK k \in 1 .. n : order[k] = obligations[i].from
    BY <1>11, <1>12
  <2>2. PICK m \in 1 .. n : order[m] = obligations[i].to
    BY <1>11, <1>12
  <2> QED  BY <2>1, <2>2
<1>14. n \in Nat
  BY <1>6
<1> QED  BY <1>9, <1>10, <1>13, <1>14

(* Each bank of an obligation has one position, the net of what it gets    *)
(* and what it pays.                                                       *)
PositionsOf(positions, obligations, B) ==
  /\ Len(positions) \in Nat /\ DOMAIN positions = 1 .. Len(positions)
  /\ \A i \in DOMAIN positions : /\ positions[i].bank \in B
                                 /\ positions[i].net \in Int
                                 /\ positions[i].net = NetOf(obligations, positions[i].bank)
  /\ \A i, j \in DOMAIN positions : positions[i].bank = positions[j].bank => i = j
  /\ \A x \in DOMAIN obligations :
       /\ \E i \in DOMAIN positions : positions[i].bank = obligations[x].from
       /\ \E i \in DOMAIN positions : positions[i].bank = obligations[x].to

LEMMA PositionsFound ==
  ASSUME NEW B, NEW obligations \in Seq(Flow(B))
  PROVE  PositionsOf(CalculateNetPositions(obligations), obligations, B)
<1> DEFINE order == InsertionOrder(obligations)
           net(bank) == NetOf(obligations, bank)
           positions == [i \in DOMAIN order |-> [bank |-> order[i], net |-> net(order[i])]]
<1>1. PICK n \in Nat :
           /\ order \in [1 .. n -> B] /\ DOMAIN order = 1 .. n
           /\ \A i, j \in 1 .. n : order[i] = order[j] => i = j
           /\ \A i \in DOMAIN obligations :
                /\ \E k \in 1 .. n : order[k] = obligations[i].from
                /\ \E k \in 1 .. n : order[k] = obligations[i].to
  BY BanksListed
<1>2. CalculateNetPositions(obligations) = positions
  BY DEF CalculateNetPositions
<1>3. \A bank : net(bank) \in Int
  BY FlowTypes
<1> HIDE DEF order, net
<1>4. DOMAIN positions = 1 .. n
  BY <1>1
<1>5. \A i \in 1 .. n : positions[i].bank = order[i] /\ positions[i].net = net(order[i])
  BY <1>1
<1>6. Len(positions) = n
  <2>1. positions \in [1 .. n -> [bank : B, net : Int]]
    BY <1>1, <1>3
  <2> HIDE DEF positions
  <2> QED  BY <2>1, FunctionIsSeq
<1> HIDE DEF positions
<1>7. \A i \in DOMAIN positions : /\ positions[i].bank \in B
                                  /\ positions[i].net \in Int
                                  /\ positions[i].net = NetOf(obligations, positions[i].bank)
  BY <1>1, <1>3, <1>4, <1>5 DEF net
<1>8. \A i, j \in DOMAIN positions : positions[i].bank = positions[j].bank => i = j
  BY <1>1, <1>4, <1>5
<1>9. ASSUME NEW x \in DOMAIN obligations
      PROVE  /\ \E i \in DOMAIN positions : positions[i].bank = obligations[x].from
             /\ \E i \in DOMAIN positions : positions[i].bank = obligations[x].to
  <2>1. PICK i \in 1 .. n : order[i] = obligations[x].from
    BY <1>1
  <2>2. PICK j \in 1 .. n : order[j] = obligations[x].to
    BY <1>1
  <2> QED  BY <1>4, <1>5, <2>1, <2>2
<1>10. PositionsOf(positions, obligations, B)
  BY <1>4, <1>6, <1>7, <1>8, <1>9 DEF PositionsOf
<1> QED  BY <1>2, <1>10

(* A bank of no obligation has nothing to pay or to get. *)
LEMMA NoPosition ==
  ASSUME NEW B, NEW obligations \in Seq(Flow(B)), NEW positions,
         PositionsOf(positions, obligations, B),
         NEW bank, \A i \in DOMAIN positions : positions[i].bank # bank
  PROVE  NetOf(obligations, bank) = 0
<1>1. /\ {x \in DOMAIN obligations : obligations[x].from = bank} = {}
      /\ {x \in DOMAIN obligations : obligations[x].to = bank} = {}
  BY DEF PositionsOf
<1>2. Paid(obligations, bank) = 0 /\ Received(obligations, bank) = 0
  BY <1>1, SumOfNothing DEF Paid, Received
<1> QED  BY <1>2 DEF NetOf

(* What position i brings to the side of the market that `sign` selects. *)
Share(positions, sign) ==
  [i \in DOMAIN positions |->
     IF sign * positions[i].net > 0 THEN sign * positions[i].net ELSE 0]

LEMMA Shares ==
  ASSUME NEW B, NEW obligations, NEW positions, PositionsOf(positions, obligations, B),
         NEW i \in DOMAIN positions
  PROVE  /\ Share(positions, -1)[i] \in Nat /\ Share(positions, 1)[i] \in Nat
         /\ Share(positions, 1)[i] - Share(positions, -1)[i] = positions[i].net
         /\ i \in SideOf(positions, 1) <=> positions[i].net > 0
         /\ i \in SideOf(positions, -1) <=> positions[i].net < 0
<1> DEFINE x == positions[i].net
<1>1. x \in Int
  BY DEF PositionsOf
<1>2. /\ Share(positions, -1)[i] = IF (-1) * x > 0 THEN (-1) * x ELSE 0
      /\ Share(positions, 1)[i] = IF 1 * x > 0 THEN 1 * x ELSE 0
      /\ i \in SideOf(positions, 1) <=> 1 * x > 0
      /\ i \in SideOf(positions, -1) <=> (-1) * x > 0
  <2>1. Share(positions, -1)[i] = IF (-1) * x > 0 THEN (-1) * x ELSE 0
    BY Zenon DEF Share
  <2>2. Share(positions, 1)[i] = IF 1 * x > 0 THEN 1 * x ELSE 0
    BY Zenon DEF Share
  <2>3. i \in SideOf(positions, 1) <=> 1 * x > 0
    BY Zenon DEF SideOf
  <2>4. i \in SideOf(positions, -1) <=> (-1) * x > 0
    BY Zenon DEF SideOf
  <2> QED  BY <2>1, <2>2, <2>3, <2>4
<1> HIDE DEF x
<1>3. (-1) * x = -x /\ 1 * x = x
  BY <1>1
<1>4. CASE x > 0
  BY <1>1, <1>2, <1>3, <1>4 DEF x
<1>5. CASE x <= 0
  BY <1>1, <1>2, <1>3, <1>5 DEF x
<1> QED  BY <1>1, <1>4, <1>5

(* sorted(..., reverse=True) with ties kept in the order of the dict. *)
LEMMA DecreasingOrders ==
  ASSUME NEW B, NEW obligations, NEW positions, PositionsOf(positions, obligations, B),
         NEW sign \in {-1, 1}
  PROVE  /\ IsFiniteSet(SideOf(positions, sign))
         /\ Orders(Decreasing(positions, sign), SideOf(positions, sign))
<1> DEFINE S == SideOf(positions, sign)
           R == Decreasing(positions, sign)
           size(i) == sign * positions[i].net
<1>1. /\ Len(positions) \in Nat /\ DOMAIN positions = 1 .. Len(positions)
      /\ \A i \in DOMAIN positions : positions[i].net \in Int
  BY DEF PositionsOf
<1>2. S \subseteq DOMAIN positions
  BY DEF SideOf
<1>3. IsFiniteSet(S)
  <2>1. IsFiniteSet(DOMAIN positions)
    BY <1>1, FS_Interval
  <2> HIDE DEF S
  <2> QED  BY <1>2, <2>1, FS_Subset
<1>4. ASSUME NEW i \in DOMAIN positions
      PROVE  i \in Int /\ size(i) \in Int
  <2>1. positions[i].net \in Int
    BY <1>1
  <2>2. sign = 1 => size(i) \in Int
    BY <2>1
  <2>3. sign = -1 => size(i) \in Int
    BY <2>1
  <2> QED  BY <1>1, <2>2, <2>3
<1>5. ASSUME NEW i \in DOMAIN positions, NEW j \in DOMAIN positions
      PROVE  positions[i].net = positions[j].net <=> size(i) = size(j)
  <2>1. positions[i].net \in Int /\ positions[j].net \in Int
    BY <1>1
  <2>2. CASE sign = 1
    BY <2>1, <2>2
  <2>3. CASE sign = -1
    BY <2>1, <2>3
  <2> QED  BY <2>2, <2>3
<1>6. \A i, j \in S : <<i, j>> \in R <=> size(i) > size(j) \/ (size(i) = size(j) /\ i < j)
  BY <1>2, <1>5 DEF Decreasing
<1>7. \A i \in S : i \in Int /\ size(i) \in Int
  BY <1>2, <1>4
<1> HIDE DEF S, R, size
<1>8. \A x \in S : <<x, x>> \notin R
  BY <1>6, <1>7
<1>9. \A x, y, z \in S : <<x, y>> \in R /\ <<y, z>> \in R => <<x, z>> \in R
  BY <1>6, <1>7
<1>10. \A x, y \in S : x # y => <<x, y>> \in R \/ <<y, x>> \in R
  BY <1>6, <1>7
<1> QED  BY <1>3, <1>8, <1>9, <1>10 DEF Orders, S, R

(* A side of the market lists each bank on it once, with what it owes or   *)
(* is owed.                                                                *)
LEMMA SideLists ==
  ASSUME NEW B, NEW obligations, NEW positions, PositionsOf(positions, obligations, B),
         NEW sign \in {-1, 1}, NEW side, side = Side(positions, sign)
  PROVE  /\ side \in Seq(Account(B))
         /\ \A k \in DOMAIN side :
              /\ side[k].left > 0
              /\ \E i \in SideOf(positions, sign) : side[k].bank = positions[i].bank
         /\ TotalLeft(side) = SumFunctionOnSet(Share(positions, sign), DOMAIN positions)
         /\ \A bank : Left(side, bank) =
              SumFunctionOnSet(Share(positions, sign),
                               {i \in DOMAIN positions : positions[i].bank = bank})
<1> DEFINE S == SideOf(positions, sign)
           n == Cardinality(S)
           order == Sorted(S, Decreasing(positions, sign))
           f == Share(positions, sign)
           g == LeftsOf(side)
<1>1. /\ Len(positions) \in Nat /\ DOMAIN positions = 1 .. Len(positions)
      /\ \A i \in DOMAIN positions : positions[i].bank \in B /\ positions[i].net \in Int
  BY DEF PositionsOf
<1>2. S \subseteq DOMAIN positions /\ IsFiniteSet(DOMAIN positions)
  BY <1>1, FS_Interval DEF SideOf
<1>3. n \in Nat /\ DOMAIN order = 1 .. n /\ order \in Bijection(1 .. n, S)
  BY DecreasingOrders, SortedLists
<1>4. /\ order \in [1 .. n -> S]
      /\ \A i, j \in 1 .. n : order[i] = order[j] => i = j
      /\ \A i \in S : \E k \in 1 .. n : order[k] = i
  BY <1>3 DEF Bijection, Injection, Surjection, IsInjective
<1>5. \A i \in DOMAIN positions : f[i] \in Nat
  BY Shares
<1>6. /\ \A i \in S : f[i] = sign * positions[i].net /\ f[i] > 0
      /\ \A i \in DOMAIN positions \ S : f[i] = 0
  BY <1>2 DEF SideOf, Share
<1>7. /\ DOMAIN side = 1 .. n
      /\ side = [k \in 1 .. n |-> [bank |-> positions[order[k]].bank,
                                   left |-> sign * positions[order[k]].net]]
  BY <1>3 DEF Side
<1> HIDE DEF S, n, order, f
<1>8. \A k \in 1 .. n : /\ order[k] \in S
                        /\ side[k] \in Account(B)
                        /\ side[k].bank = positions[order[k]].bank
                        /\ side[k].left = f[order[k]]
  <2> SUFFICES ASSUME NEW k \in 1 .. n
               PROVE  /\ order[k] \in S
                      /\ side[k] \in Account(B)
                      /\ side[k].bank = positions[order[k]].bank
                      /\ side[k].left = f[order[k]]
    OBVIOUS
  <2>1. order[k] \in S
    BY <1>4
  <2>2. f[order[k]] = sign * positions[order[k]].net /\ f[order[k]] \in Nat
    BY <1>2, <1>5, <1>6, <2>1
  <2>3. side[k] = [bank |-> positions[order[k]].bank, left |-> f[order[k]]]
    BY <1>7, <2>2
  <2>4. positions[order[k]].bank \in B
    BY <1>1, <1>2, <2>1
  <2> QED  BY <2>1, <2>2, <2>3, <2>4 DEF Account
<1>9. side \in Seq(Account(B))
  <2>1. side \in [1 .. n -> Account(B)]
    BY <1>7, <1>8
  <2> QED  BY <1>3, <2>1, FunctionIsSeq
<1>10. ASSUME NEW k \in DOMAIN side
       PROVE  /\ side[k].left > 0
              /\ \E i \in S : side[k].bank = positions[i].bank
  <2>1. order[k] \in S /\ side[k].bank = positions[order[k]].bank /\ side[k].left = f[order[k]]
    BY <1>7, <1>8
  <2> QED  BY <1>6, <2>1
<1>11. ASSUME NEW T \in SUBSET (DOMAIN positions), NEW K \in SUBSET (1 .. n),
              \A k \in 1 .. n : k \in K <=> order[k] \in T
       PROVE  SumFunctionOnSet(g, K) = SumFunctionOnSet(f, T)
  <2> DEFINE U == T \cap S
             h == [k \in K |-> order[k]]
             F == [k \in K |-> f[h[k]]]
  <2>1. IsFiniteSet(T) /\ IsFiniteSet(U) /\ IsFiniteSet(K)
    <3>1. IsFiniteSet(1 .. n)
      BY <1>3, FS_Interval
    <3>2. U \subseteq DOMAIN positions
      OBVIOUS
    <3> HIDE DEF U
    <3> QED  BY <1>2, <3>1, <3>2, FS_Subset
  <2>2. SumFunctionOnSet(f, T) = SumFunctionOnSet(f, U)
    <3>1. /\ U \subseteq T /\ (\A i \in T : f[i] \in Int) /\ \A i \in T \ U : f[i] = 0
      BY <1>5, <1>6
    <3> HIDE DEF U
    <3> QED  BY <2>1, <3>1, SumSkipsZeros
  <2>3. h \in Bijection(K, U)
    <3>1. h \in [K -> U] /\ (\A i, j \in K : h[i] = h[j] => i = j)
          /\ \A e \in U : \E k \in K : h[k] = e
      BY <1>4, <1>11
    <3> HIDE DEF h, U
    <3> QED  BY <3>1 DEF Bijection, Injection, Surjection, IsInjective
  <2>4. \A i \in U : f[i] \in Int
    BY <1>5
  <2>5. Along(g, f, h, K)
    BY <1>7, <1>8 DEF LeftsOf, Along
  <2>6. SumFunctionOnSet(g, K) = SumFunctionOnSet(f, U)
    <3> HIDE DEF U, h, g
    <3> QED  BY <2>1, <2>3, <2>4, <2>5, SumReindex
  <2> HIDE DEF g, U
  <2> QED  BY <2>2, <2>6
<1>12. TotalLeft(side) = SumFunctionOnSet(f, DOMAIN positions)
  <2>1. \A k \in 1 .. n : order[k] \in DOMAIN positions
    BY <1>2, <1>4
  <2>2. SumFunctionOnSet(g, 1 .. n) = SumFunctionOnSet(f, DOMAIN positions)
    <3> HIDE DEF g
    <3> QED  BY <1>11, <2>1
  <2> QED  BY <1>7, <2>2 DEF TotalLeft
<1>13. ASSUME NEW bank
       PROVE  Left(side, bank) =
                SumFunctionOnSet(f, {i \in DOMAIN positions : positions[i].bank = bank})
  <2> DEFINE T == {i \in DOMAIN positions : positions[i].bank = bank}
             K == {k \in DOMAIN side : side[k].bank = bank}
  <2>1. T \in SUBSET (DOMAIN positions) /\ K \in SUBSET (1 .. n)
    BY <1>7
  <2>2. \A k \in 1 .. n : k \in K <=> order[k] \in T
    BY <1>2, <1>7, <1>8
  <2>3. Left(side, bank) = SumFunctionOnSet(g, K)
    BY DEF Left
  <2> HIDE DEF T, K, g
  <2>4. Left(side, bank) = SumFunctionOnSet(f, T)
    BY <1>11, <2>1, <2>2, <2>3
  <2> QED  BY <2>4 DEF T
<1> QED  BY <1>9, <1>10, <1>12, <1>13 DEF S, f

(* The amounts paid, taken bank by bank, are all the amounts; so are the   *)
(* amounts got.                                                            *)
LEMMA EverythingPaid ==
  ASSUME NEW B, NEW obligations \in Seq(Flow(B)), NEW positions,
         PositionsOf(positions, obligations, B)
  PROVE  /\ SumFunctionOnSet([i \in DOMAIN positions |-> Paid(obligations, positions[i].bank)],
                             DOMAIN positions)
              = SumFunctionOnSet(AmountsOf(obligations), DOMAIN obligations)
         /\ SumFunctionOnSet([i \in DOMAIN positions |-> Received(obligations, positions[i].bank)],
                             DOMAIN positions)
              = SumFunctionOnSet(AmountsOf(obligations), DOMAIN obligations)
<1> DEFINE I == DOMAIN positions
           X == DOMAIN obligations
           f == AmountsOf(obligations)
           bank(i) == positions[i].bank
           payer == [x \in X |-> CHOOSE i \in I : bank(i) = obligations[x].from]
           payee == [x \in X |-> CHOOSE i \in I : bank(i) = obligations[x].to]
<1>1. IsFiniteSet(I)
  <2>1. Len(positions) \in Nat /\ DOMAIN positions = 1 .. Len(positions)
    BY DEF PositionsOf
  <2> QED  BY <2>1, FS_Interval
<1>2. IsFiniteSet(X) /\ \A x \in X : f[x] \in Int
  BY FlowTypes
<1>3. /\ \A i, j \in I : bank(i) = bank(j) => i = j
      /\ \A x \in X : /\ \E i \in I : bank(i) = obligations[x].from
                      /\ \E i \in I : bank(i) = obligations[x].to
  BY DEF PositionsOf
<1>4. payer \in [X -> I] /\ payee \in [X -> I]
  BY <1>3
<1>5. ASSUME NEW i \in I
      PROVE  /\ {x \in X : payer[x] = i} = {x \in X : obligations[x].from = bank(i)}
             /\ {x \in X : payee[x] = i} = {x \in X : obligations[x].to = bank(i)}
  BY <1>3
<1> HIDE DEF payer, payee, I
<1>6. [i \in I |-> SumFunctionOnSet(f, {x \in X : payer[x] = i})]
        = [i \in I |-> Paid(obligations, bank(i))]
  BY <1>5 DEF Paid
<1>7. [i \in I |-> SumFunctionOnSet(f, {x \in X : payee[x] = i})]
        = [i \in I |-> Received(obligations, bank(i))]
  BY <1>5 DEF Received
<1> HIDE DEF f, X, bank
<1>8. SumFunctionOnSet([i \in I |-> SumFunctionOnSet(f, {x \in X : payer[x] = i})], I)
        = SumFunctionOnSet(f, X)
  BY <1>1, <1>2, <1>4, SumByGroup
<1>9. SumFunctionOnSet([i \in I |-> SumFunctionOnSet(f, {x \in X : payee[x] = i})], I)
        = SumFunctionOnSet(f, X)
  BY <1>1, <1>2, <1>4, SumByGroup
<1> QED  BY <1>6, <1>7, <1>8, <1>9 DEF f, X, bank, I

(* netting.py checks that the debts equal the credits and logs an error if *)
(* they do not: they always do, every amount being paid by one bank and    *)
(* got by another.                                                         *)
LEMMA SidesBalance ==
  ASSUME NEW B, NEW obligations \in Seq(Flow(B)), NEW positions,
         PositionsOf(positions, obligations, B)
  PROVE  TotalLeft(Side(positions, -1)) = TotalLeft(Side(positions, 1))
<1> DEFINE I == DOMAIN positions
           debt == Share(positions, -1)
           credit == Share(positions, 1)
           out == [i \in I |-> Paid(obligations, positions[i].bank)]
           in  == [i \in I |-> Received(obligations, positions[i].bank)]
           net == [i \in I |-> positions[i].net]
<1>1. IsFiniteSet(I)
  <2>1. Len(positions) \in Nat /\ DOMAIN positions = 1 .. Len(positions)
    BY DEF PositionsOf
  <2> QED  BY <2>1, FS_Interval
<1>2. /\ TotalLeft(Side(positions, -1)) = SumFunctionOnSet(debt, I)
      /\ TotalLeft(Side(positions, 1)) = SumFunctionOnSet(credit, I)
  BY SideLists
<1>3. \A i \in I : credit[i] \in Int /\ debt[i] \in Int /\ net[i] = credit[i] - debt[i]
  BY Shares
<1>4. \A i \in I : in[i] \in Int /\ out[i] \in Int /\ net[i] = in[i] - out[i]
  <2> SUFFICES ASSUME NEW i \in I PROVE in[i] \in Int /\ out[i] \in Int /\ net[i] = in[i] - out[i]
    OBVIOUS
  <2>1. Received(obligations, positions[i].bank) \in Int /\ Paid(obligations, positions[i].bank) \in Int
    BY FlowTypes
  <2>2. positions[i].net = NetOf(obligations, positions[i].bank)
    BY DEF PositionsOf
  <2> QED  BY <2>1, <2>2 DEF NetOf
<1>5. SumFunctionOnSet(out, I) = SumFunctionOnSet(in, I)
  BY EverythingPaid
<1> HIDE DEF I, debt, credit, out, in, net
<1>6. SumFunctionOnSet(net, I) = SumFunctionOnSet(credit, I) - SumFunctionOnSet(debt, I)
  BY <1>1, <1>3, SumOfDifferences
<1>7. SumFunctionOnSet(net, I) = SumFunctionOnSet(in, I) - SumFunctionOnSet(out, I)
  BY <1>1, <1>4, SumOfDifferences
<1>8. /\ SumFunctionOnSet(credit, I) \in Int /\ SumFunctionOnSet(debt, I) \in Int
      /\ SumFunctionOnSet(in, I) \in Int /\ SumFunctionOnSet(out, I) \in Int
  BY <1>1, <1>3, <1>4, SumType
<1> QED  BY <1>2, <1>5, <1>6, <1>7, <1>8

(* What holds at every iteration holds before the first one, ... *)
LEMMA StartMatches ==
  ASSUME NEW B, NEW obligations \in Seq(Flow(B)), NEW start,
         start = GreedyInit(CalculateNetPositions(obligations))
  PROVE  Matching(start, B)
<1> DEFINE positions == CalculateNetPositions(obligations)
           debtors   == Side(positions, -1)
           creditors == Side(positions, 1)
<1>1. PositionsOf(positions, obligations, B)
  BY PositionsFound
<1>2. start = [debtors |-> debtors, creditors |-> creditors, d |-> 1, c |-> 1, transfers |-> <<>>]
  BY DEF GreedyInit
<1> HIDE DEF positions
<1>3. /\ debtors \in Seq(Account(B))
      /\ \A k \in DOMAIN debtors :
           /\ debtors[k].left > 0
           /\ \E i \in SideOf(positions, -1) : debtors[k].bank = positions[i].bank
  BY <1>1, SideLists
<1>4. /\ creditors \in Seq(Account(B))
      /\ \A k \in DOMAIN creditors :
           /\ creditors[k].left > 0
           /\ \E i \in SideOf(positions, 1) : creditors[k].bank = positions[i].bank
  BY <1>1, SideLists
<1>5. TotalLeft(debtors) = TotalLeft(creditors)
  BY <1>1, SidesBalance
<1> HIDE DEF debtors, creditors
<1>6. start \in LoopState(B)
  <2>1. <<>> \in Seq(Flow(B))
    OBVIOUS
  <2> QED  BY <1>2, <1>3, <1>4, <2>1 DEF LoopState
<1>7. ASSUME NEW accounts \in Seq(Account(B)), \A k \in DOMAIN accounts : accounts[k].left > 0
      PROVE  PaidOutBelow(accounts, 1)
  <2>1. /\ Len(accounts) \in Nat /\ DOMAIN accounts = 1 .. Len(accounts)
        /\ \A k \in DOMAIN accounts : accounts[k] \in Account(B)
    BY SeqDomain
  <2>2. \A k \in DOMAIN accounts : accounts[k].left \in Nat
    BY <2>1 DEF Account
  <2> QED  BY <1>7, <2>1, <2>2 DEF PaidOutBelow
<1>8. PaidOutBelow(start.debtors, start.d) /\ PaidOutBelow(start.creditors, start.c)
  BY <1>2, <1>3, <1>4, <1>7
<1>9. TwoSided(start)
  <2> SUFFICES ASSUME NEW k \in DOMAIN debtors, NEW m \in DOMAIN creditors,
                      debtors[k].bank = creditors[m].bank
               PROVE  FALSE
    BY <1>2 DEF TwoSided
  <2>1. PICK i \in SideOf(positions, -1) : debtors[k].bank = positions[i].bank
    BY <1>3
  <2>2. PICK j \in SideOf(positions, 1) : creditors[m].bank = positions[j].bank
    BY <1>4
  <2>3. i \in DOMAIN positions /\ j \in DOMAIN positions
    BY DEF SideOf
  <2>4. i = j
    BY <1>1, <2>1, <2>2, <2>3 DEF PositionsOf
  <2>5. positions[i].net < 0 /\ positions[i].net > 0 /\ positions[i].net \in Int
    <3>1. positions[i].net \in Int
      BY <1>1, <2>3 DEF PositionsOf
    <3>2. positions[i].net < 0
      BY <1>1, <2>3, Shares
    <3>3. positions[j].net > 0
      BY <1>1, <2>3, Shares
    <3> QED  BY <2>4, <3>1, <3>2, <3>3
  <2> QED  BY <2>5
<1>10. RealTransfers(start.transfers)
  BY <1>2 DEF RealTransfers
<1>11. FewTransfers(start)
  <2>1. Len(start.transfers) = 0 /\ start.transfers = <<>> /\ start.d = 1 /\ start.c = 1
    BY <1>2
  <2> QED  BY <2>1 DEF FewTransfers
<1> QED  BY <1>2, <1>5, <1>6, <1>8, <1>9, <1>10, <1>11 DEF Matching

(* ... when all of each bank's position is still due. *)
LEMMA StartDue ==
  ASSUME NEW B, NEW obligations \in Seq(Flow(B)), NEW start,
         start = GreedyInit(CalculateNetPositions(obligations)), NEW bank
  PROVE  NetOf(start.transfers, bank) + StillDue(start, bank) = NetOf(obligations, bank)
<1> DEFINE positions == CalculateNetPositions(obligations)
           own == {i \in DOMAIN positions : positions[i].bank = bank}
           debt == Share(positions, -1)
           credit == Share(positions, 1)
           net == [i \in DOMAIN positions |-> positions[i].net]
<1>1. PositionsOf(positions, obligations, B)
  BY PositionsFound
<1>2. /\ start.transfers = <<>>
      /\ start.debtors = Side(positions, -1) /\ start.creditors = Side(positions, 1)
  BY DEF GreedyInit
<1> HIDE DEF positions
<1>3. /\ Left(start.debtors, bank) = SumFunctionOnSet(debt, own)
      /\ Left(start.creditors, bank) = SumFunctionOnSet(credit, own)
  BY <1>1, <1>2, SideLists
<1>4. \A i \in own : credit[i] \in Int /\ debt[i] \in Int /\ net[i] = credit[i] - debt[i]
  BY <1>1, Shares
<1>5. \A i \in own : positions[i].net \in Int /\ positions[i].net = NetOf(obligations, bank)
  BY <1>1 DEF PositionsOf
<1>6. \A i, j \in own : i = j
  BY <1>1 DEF PositionsOf
<1>7. IsFiniteSet(own) /\ SumFunctionOnSet(net, own) = NetOf(obligations, bank)
  <2>1. CASE own = {}
    <3>1. NetOf(obligations, bank) = 0
      BY <1>1, <2>1, NoPosition
    <3> QED  BY <2>1, <3>1, SumOfNothing, FS_EmptySet
  <2>2. CASE own # {}
    <3>1. PICK i \in own : TRUE
      BY <2>2
    <3>2. own = {i}
      BY <1>6, <3>1
    <3>3. net[i] = NetOf(obligations, bank) /\ net[i] \in Int
      BY <1>5, <3>1
    <3> HIDE DEF own, net
    <3>4. SumFunctionOnSet(net, {i}) = net[i]
      BY <3>3, SumOfOne
    <3> QED  BY <3>2, <3>3, <3>4, FS_Singleton
  <2> QED  BY <2>1, <2>2
<1> HIDE DEF own, debt, credit, net
<1>8. SumFunctionOnSet(net, own) = SumFunctionOnSet(credit, own) - SumFunctionOnSet(debt, own)
  BY <1>4, <1>7, SumOfDifferences
<1>9. NetOf(start.transfers, bank) = 0 /\ NetOf(obligations, bank) \in Int
  BY <1>2, NetOfNothing, FlowTypes
<1> QED  BY <1>3, <1>7, <1>8, <1>9 DEF StillDue

-----------------------------------------------------------------------------
(* The whole of greedy_match and net_obligations *)

(* The loop after each of the first n turns. *)
Turns(after, start, n) ==
  after = [k \in 0 .. n |-> IF k = 0 THEN start ELSE Turn(after[k - 1])]

LEMMA TurnsExist ==
  ASSUME NEW start, NEW n \in Nat
  PROVE  \E after : Turns(after, start, n)
<1> DEFINE Bad == {k \in Nat : ~ \E after : Turns(after, start, k)}
<1> SUFFICES ASSUME Bad # {} PROVE FALSE
  OBVIOUS
<1>1. PICK k \in Bad : \A m \in Bad : k <= m
  <2>1. Bad \subseteq Nat
    OBVIOUS
  <2> HIDE DEF Bad
  <2> QED  BY <2>1, Least
<1>2. k \in Nat /\ ~ \E after : Turns(after, start, k)
  BY <1>1
<1>3. k # 0
  <2> SUFFICES ASSUME k = 0 PROVE FALSE
    OBVIOUS
  <2> DEFINE first == [j \in 0 .. 0 |-> start]
  <2>1. first = [j \in 0 .. 0 |-> IF j = 0 THEN start ELSE Turn(first[j - 1])]
    OBVIOUS
  <2> HIDE DEF first
  <2>2. Turns(first, start, 0)
    BY <2>1 DEF Turns
  <2> QED  BY <1>2, <2>2
<1>4. k - 1 \in Nat
  BY <1>2, <1>3
<1>5. k - 1 \notin Bad
  <2>1. ~ (k <= k - 1)
    BY <1>2
  <2> HIDE DEF Bad
  <2> QED  BY <1>1, <2>1
<1>6. PICK g : Turns(g, start, k - 1)
  BY <1>4, <1>5
<1>7. g = [j \in 0 .. k - 1 |-> IF j = 0 THEN start ELSE Turn(g[j - 1])]
  BY <1>6 DEF Turns
<1> DEFINE h == [j \in 0 .. k |-> IF j = 0 THEN start ELSE Turn(g[j - 1])]
<1>8. \A j \in 0 .. k - 1 : h[j] = g[j]
  BY <1>2, <1>7
<1>9. \A j \in 0 .. k : j # 0 => j - 1 \in 0 .. k - 1
  BY <1>2
<1>10. \A j \in 0 .. k : h[j] = IF j = 0 THEN start ELSE Turn(h[j - 1])
  <2> SUFFICES ASSUME NEW j \in 0 .. k PROVE h[j] = IF j = 0 THEN start ELSE Turn(h[j - 1])
    OBVIOUS
  <2>1. h[j] = IF j = 0 THEN start ELSE Turn(g[j - 1])
    OBVIOUS
  <2> HIDE DEF h
  <2> QED  BY <1>8, <1>9, <2>1
<1>11. h = [j \in 0 .. k |-> h[j]]
  OBVIOUS
<1> HIDE DEF h
<1>12. Turns(h, start, k)
  BY <1>10, <1>11 DEF Turns
<1> QED  BY <1>2, <1>12

LEMMA TurnsAt ==
  ASSUME NEW start, NEW n \in Nat, NEW after, Turns(after, start, n), NEW k \in 0 .. n
  PROVE  /\ after[0] = start
         /\ k # 0 => after[k] = Turn(after[k - 1])
<1> DEFINE F == [j \in 0 .. n |-> IF j = 0 THEN start ELSE Turn(after[j - 1])]
<1>1. after = F
  BY DEF Turns
<1>2. F[0] = start /\ (k # 0 => F[k] = Turn(after[k - 1]))
  OBVIOUS
<1> HIDE DEF F
<1> QED  BY <1>1, <1>2

(* After k turns the loop is done, or k times an index has moved; and all  *)
(* that holds at every iteration holds.                                    *)
LEMMA TurnsMatch ==
  ASSUME NEW B, NEW start, Matching(start, B), start.d = 1, start.c = 1,
         NEW n \in Nat, NEW after, Turns(after, start, n), NEW m \in 0 .. n
  PROVE  /\ Matching(after[m], B)
         /\ Len(after[m].debtors) = Len(start.debtors)
         /\ Len(after[m].creditors) = Len(start.creditors)
         /\ Unfinished(after[m]) => after[m].d + after[m].c >= m + 2
         /\ \A bank : NetOf(after[m].transfers, bank) + StillDue(after[m], bank) =
                        NetOf(start.transfers, bank) + StillDue(start, bank)
<1> DEFINE Good(k) ==
             /\ Matching(after[k], B)
             /\ Len(after[k].debtors) = Len(start.debtors)
             /\ Len(after[k].creditors) = Len(start.creditors)
             /\ Unfinished(after[k]) => after[k].d + after[k].c >= k + 2
             /\ \A bank : NetOf(after[k].transfers, bank) + StillDue(after[k], bank) =
                            NetOf(start.transfers, bank) + StillDue(start, bank)
           Bad == {k \in 0 .. n : ~ Good(k)}
<1>1. Good(0)
  <2>1. after[0] = start
    <3>1. 0 \in 0 .. n
      OBVIOUS
    <3> QED  BY <3>1, TurnsAt
  <2> QED  BY <2>1
<1>2. ASSUME NEW k \in 1 .. n, Good(k - 1) PROVE Good(k)
  <2> DEFINE loop == after[k - 1]
             next == after[k]
  <2>1. next = Turn(loop)
    <3>1. k \in 0 .. n /\ k # 0
      OBVIOUS
    <3> QED  BY <3>1, TurnsAt
  <2>2. CASE ~ Unfinished(loop)
    <3>1. next = loop
      BY <2>1, <2>2 DEF Turn
    <3> QED  BY <1>2, <2>2, <3>1
  <2>3. CASE Unfinished(loop)
    <3>1. next = GreedyStep(loop)
      BY <2>1, <2>3 DEF Turn
    <3>2. Matching(loop, B) /\ loop.d + loop.c >= (k - 1) + 2
          /\ Len(loop.debtors) = Len(start.debtors)
          /\ Len(loop.creditors) = Len(start.creditors)
          /\ \A bank : NetOf(loop.transfers, bank) + StillDue(loop, bank) =
                         NetOf(start.transfers, bank) + StillDue(start, bank)
      BY <1>2, <2>3
    <3> HIDE DEF loop, next
    <3>3. Matching(next, B)
      BY <2>3, <3>1, <3>2, StepMatches
    <3>4. /\ Len(next.debtors) = Len(loop.debtors) /\ Len(next.creditors) = Len(loop.creditors)
          /\ next.d + next.c > loop.d + loop.c
      BY <2>3, <3>1, <3>2, StepMoves
    <3>5. \A bank : NetOf(next.transfers, bank) + StillDue(next, bank) =
                      NetOf(loop.transfers, bank) + StillDue(loop, bank)
      BY <2>3, <3>1, <3>2, StepKeepsPositions
    <3>6. /\ next.d \in Nat /\ next.c \in Nat /\ loop.d \in Nat /\ loop.c \in Nat
      BY <3>2, <3>3 DEF Matching, LoopState
    <3>7. next.d + next.c >= k + 2
      <4> DEFINE x == next.d + next.c
                 y == loop.d + loop.c
      <4>1. x \in Int /\ y \in Int /\ x > y /\ y >= (k - 1) + 2 /\ k \in Int
        BY <3>2, <3>4, <3>6
      <4> HIDE DEF x, y
      <4>2. x >= k + 2
        BY ONLY <4>1
      <4> QED  BY <4>2 DEF x
    <3>8. /\ Len(next.debtors) = Len(start.debtors) /\ Len(next.creditors) = Len(start.creditors)
          /\ \A bank : NetOf(next.transfers, bank) + StillDue(next, bank) =
                         NetOf(start.transfers, bank) + StillDue(start, bank)
      BY <3>2, <3>4, <3>5
    <3> QED  BY <3>3, <3>7, <3>8 DEF next
  <2> QED  BY <2>2, <2>3
<1> HIDE DEF Good
<1>3. Bad = {}
  <2> SUFFICES ASSUME Bad # {} PROVE FALSE
    OBVIOUS
  <2>1. PICK k \in Bad : \A j \in Bad : k <= j
    <3>1. Bad \subseteq Nat
      OBVIOUS
    <3> HIDE DEF Bad
    <3> QED  BY <3>1, Least
  <2>2. k \in 0 .. n /\ ~ Good(k) /\ k # 0
    BY <1>1, <2>1
  <2>3. k \in 1 .. n /\ k - 1 \in 0 .. n
    BY <2>2
  <2>4. k - 1 \notin Bad
    <3>1. ~ (k <= k - 1)
      BY <2>2
    <3> HIDE DEF Bad
    <3> QED  BY <2>1, <3>1
  <2> QED  BY <1>2, <2>2, <2>3, <2>4
<1>4. Good(m)
  BY <1>3
<1> QED  BY <1>4 DEF Good

(* The turns that greedy_match takes. *)
Count(start) == Len(start.debtors) + Len(start.creditors)

AllTurns(start) == CHOOSE after : Turns(after, start, Count(start))

(* They are enough: the loop is done after the last.                       *)
LEMMA LastTurn ==
  ASSUME NEW B, NEW obligations \in Seq(Flow(B)), NEW start,
         start = GreedyInit(CalculateNetPositions(obligations))
  PROVE  LET end == AllTurns(start)[Count(start)]
         IN  /\ Count(start) \in Nat
             /\ Turns(AllTurns(start), start, Count(start))
             /\ Matching(end, B)
             /\ ~ Unfinished(end)
             /\ \A bank : NetOf(end.transfers, bank) + StillDue(end, bank) = NetOf(obligations, bank)
             /\ obligations # <<>> => NetObligations(obligations) = end.transfers
<1> DEFINE n == Count(start)
           after == AllTurns(start)
           end == after[n]
<1>1. Matching(start, B) /\ start.d = 1 /\ start.c = 1
  BY StartMatches DEF GreedyInit
<1>2. \A bank : NetOf(start.transfers, bank) + StillDue(start, bank) = NetOf(obligations, bank)
  BY StartDue
<1>3. obligations # <<>> => NetObligations(obligations) = end.transfers
  BY DEF NetObligations, GreedyMatch, Turns, AllTurns, Count
<1>4. Len(start.debtors) \in Nat /\ Len(start.creditors) \in Nat /\ n \in Nat
  BY <1>1, SeqDomain DEF Matching, LoopState, Count
<1> HIDE DEF n
<1>5. Turns(after, start, n)
  BY <1>4, TurnsExist DEF AllTurns, n
<1> HIDE DEF after
<1>6. n \in 0 .. n
  BY <1>4
<1>7. /\ Matching(end, B)
      /\ Len(end.debtors) = Len(start.debtors) /\ Len(end.creditors) = Len(start.creditors)
      /\ Unfinished(end) => end.d + end.c >= n + 2
      /\ \A bank : NetOf(end.transfers, bank) + StillDue(end, bank) =
                     NetOf(start.transfers, bank) + StillDue(start, bank)
  BY <1>1, <1>4, <1>5, <1>6, TurnsMatch
<1> HIDE DEF end
<1>8. ~ Unfinished(end)
  <2> SUFFICES ASSUME Unfinished(end) PROVE FALSE
    OBVIOUS
  <2>1. /\ end.d <= Len(start.debtors) /\ end.c <= Len(start.creditors)
        /\ end.d + end.c >= n + 2
    BY <1>7 DEF Unfinished
  <2>2. end.d \in Nat /\ end.c \in Nat
    BY <1>7 DEF Matching, LoopState
  <2> DEFINE x == Len(start.debtors)
             y == Len(start.creditors)
  <2>3. x \in Nat /\ y \in Nat /\ n = x + y /\ end.d <= x /\ end.c <= y
    BY <1>4, <2>1 DEF n, Count
  <2> HIDE DEF x, y
  <2> QED  BY <2>1, <2>2, <2>3
<1>9. \A bank : NetOf(end.transfers, bank) + StillDue(end, bank) = NetOf(obligations, bank)
  BY <1>2, <1>7
<1> QED  BY <1>3, <1>4, <1>5, <1>7, <1>8, <1>9 DEF end, after, n

(* A loop that is done stays as it is for the turns that are left.         *)
LEMMA DoneStays ==
  ASSUME NEW start, NEW n \in Nat, NEW after, Turns(after, start, n),
         NEW k \in 0 .. n, ~ Unfinished(after[k])
  PROVE  after[n] = after[k]
<1> DEFINE Bad == {j \in 0 .. n : k <= j /\ after[j] # after[k]}
<1>1. Bad = {}
  <2> SUFFICES ASSUME Bad # {} PROVE FALSE
    OBVIOUS
  <2>1. PICK j \in Bad : \A m \in Bad : j <= m
    <3>1. Bad \subseteq Nat
      OBVIOUS
    <3> HIDE DEF Bad
    <3> QED  BY <3>1, Least
  <2>2. j \in 0 .. n /\ k <= j /\ after[j] # after[k] /\ j # k /\ j # 0
    BY <2>1
  <2>3. j - 1 \in 0 .. n /\ k <= j - 1 /\ ~ (j <= j - 1)
    BY <2>2
  <2>4. after[j - 1] = after[k]
    BY <2>1, <2>3
  <2>5. after[j] = Turn(after[j - 1])
    BY <2>2, TurnsAt
  <2> QED  BY <2>2, <2>4, <2>5 DEF Turn
<1>2. n \in 0 .. n /\ k <= n
  OBVIOUS
<1> QED  BY <1>1, <1>2

(* The transfers net_obligations returns, for any obligations: real ones   *)
(* between the banks of the obligations, which give every bank the net     *)
(* position it has in them.                                                *)
THEOREM NetObligationsNet ==
  ASSUME NEW B, NEW obligations \in Seq(Flow(B))
  PROVE  /\ NetObligations(obligations) \in Seq(Flow(B))
         /\ RealTransfers(NetObligations(obligations))
         /\ \A bank : NetOf(NetObligations(obligations), bank) = NetOf(obligations, bank)
<1>1. CASE obligations = <<>>
  <2>1. NetObligations(obligations) = <<>>
    BY <1>1 DEF NetObligations
  <2>2. RealTransfers(<<>>)
    BY DEF RealTransfers
  <2> QED  BY <1>1, <2>1, <2>2
<1>2. CASE obligations # <<>>
  <2> DEFINE start == GreedyInit(CalculateNetPositions(obligations))
             end == AllTurns(start)[Count(start)]
  <2> HIDE DEF start
  <2>1. /\ Matching(end, B) /\ ~ Unfinished(end)
        /\ \A bank : NetOf(end.transfers, bank) + StillDue(end, bank) = NetOf(obligations, bank)
        /\ NetObligations(obligations) = end.transfers
    BY <1>2, LastTurn DEF start
  <2> HIDE DEF end
  <2>2. /\ end.transfers \in Seq(Flow(B)) /\ RealTransfers(end.transfers)
    BY <2>1 DEF Matching, LoopState
  <2>3. ASSUME NEW bank PROVE NetOf(end.transfers, bank) = NetOf(obligations, bank)
    <3>1. StillDue(end, bank) = 0
      BY <2>1, BothPaidOut
    <3>2. NetOf(end.transfers, bank) \in Int
      BY <2>2, FlowTypes
    <3>3. NetOf(end.transfers, bank) + StillDue(end, bank) = NetOf(obligations, bank)
      BY <2>1
    <3> QED  BY <3>1, <3>2, <3>3
  <2> QED  BY <2>1, <2>2, <2>3
<1> QED  BY <1>1, <1>2
=============================================================================
