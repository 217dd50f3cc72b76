----------------------------- MODULE SeqLemmas -----------------------------
(***************************************************************************)
(* Facts about the data of the models: sequences that stand for database   *)
(* tables, whose rows are appended, replaced in place and never removed,   *)
(* and sums over sets of rows.                                             *)
(***************************************************************************)
EXTENDS Integers, Sequences, Functions, FiniteSetTheorems, TLAPS

(* A function on 1 .. n with values in S is a sequence over S. *)
LEMMA FunctionIsSeq ==
  ASSUME NEW S, NEW n \in Nat, NEW f \in [1 .. n -> S]
  PROVE  f \in Seq(S) /\ Len(f) = n /\ DOMAIN f = 1 .. n
OBVIOUS

(* The domain of a sequence, as the provers like to see it. *)
LEMMA SeqDomain ==
  ASSUME NEW S, NEW q \in Seq(S)
  PROVE  /\ Len(q) \in Nat
         /\ DOMAIN q = 1 .. Len(q)
         /\ q \in [1 .. Len(q) -> S]
         /\ \A i \in DOMAIN q : q[i] \in S
OBVIOUS

(* Appending a row leaves the others and adds one, at the end. *)
LEMMA AppendRow ==
  ASSUME NEW S, NEW q \in Seq(S), NEW row \in S
  PROVE  /\ Append(q, row) \in Seq(S)
         /\ Len(Append(q, row)) = Len(q) + 1
         /\ DOMAIN Append(q, row) = DOMAIN q \cup {Len(q) + 1}
         /\ \A i \in DOMAIN q : Append(q, row)[i] = q[i]
         /\ Append(q, row)[Len(q) + 1] = row
OBVIOUS

(* Replacing one row keeps the others. *)
LEMMA ReplaceRow ==
  ASSUME NEW S, NEW q \in Seq(S), NEW i, NEW row, i \in DOMAIN q => row \in S
  PROVE  /\ [q EXCEPT ![i] = row] \in Seq(S)
         /\ Len([q EXCEPT ![i] = row]) = Len(q)
         /\ DOMAIN [q EXCEPT ![i] = row] = DOMAIN q
<1>1. q \in [1 .. Len(q) -> S] /\ Len(q) \in Nat /\ DOMAIN q = 1 .. Len(q)
  BY SeqDomain
<1>2. [q EXCEPT ![i] = row] \in [1 .. Len(q) -> S]
  BY <1>1
<1> QED  BY <1>1, <1>2, FunctionIsSeq

(* The same for a table that is known as a function of n row numbers. *)
LEMMA AppendTable ==
  ASSUME NEW S, NEW q \in Seq(S), NEW row \in S, NEW n, Len(q) = n
  PROVE  /\ Append(q, row) \in [1 .. n + 1 -> S]
         /\ \A i \in 1 .. n : Append(q, row)[i] = q[i]
         /\ Append(q, row)[n + 1] = row
<1>1. DOMAIN q = 1 .. n
  BY SeqDomain
<1>2. /\ Append(q, row) \in Seq(S) /\ Len(Append(q, row)) = n + 1
      /\ \A i \in DOMAIN q : Append(q, row)[i] = q[i]
      /\ Append(q, row)[n + 1] = row
  BY AppendRow
<1> QED  BY <1>1, <1>2, SeqDomain

(* Two sequences with the same length and the same elements are equal. *)
LEMMA SameSeq ==
  ASSUME NEW S, NEW p \in Seq(S), NEW q \in Seq(S), DOMAIN p = DOMAIN q,
         \A i \in DOMAIN p : p[i] = q[i]
  PROVE  p = q
<1>1. p \in [DOMAIN p -> S] /\ q \in [DOMAIN p -> S]
  BY SeqDomain
<1> QED  BY <1>1

(* A set of natural numbers has a least one. *)
LEMMA Least ==
  ASSUME NEW S, S \subseteq Nat, S # {}
  PROVE  \E n \in S : \A m \in S : n <= m
<1>1. PICK n \in S : \A m \in S : ~(<<m, n>> \in OpToRel(<, Nat))
  BY NatLessThanWellFounded, WFMin
<1>2. \A m \in S : ~(m < n)
  BY <1>1 DEF OpToRel
<1> QED  BY <1>2

-----------------------------------------------------------------------------
(* Sums *)

(* Induction on the subsets of a finite set: what holds of {}, and of a    *)
(* set when it holds of the set without any one of its elements, holds of  *)
(* every subset.  `Good` is the set of the subsets it holds of.            *)
LEMMA SubsetInduction ==
  ASSUME NEW S, IsFiniteSet(S), NEW Good,
         {} \in Good,
         ASSUME NEW T \in SUBSET S, T # {}, \A x \in T : T \ {x} \in Good
         PROVE  T \in Good
  PROVE  SUBSET S \subseteq Good
<1> DEFINE R == StrictSubsetOrdering(S)
           Bad == (SUBSET S) \ Good
<1> SUFFICES ASSUME Bad # {} PROVE FALSE
  OBVIOUS
<1>1. IsWellFoundedOn(R, SUBSET S)
  BY FS_StrictSubsetOrderingWellFounded, FS_FiniteSubsetsOfFinite
<1>2. PICK T \in Bad : \A U \in Bad : ~ (<<U, T>> \in R)
  <2> HIDE DEF R
  <2> QED  BY <1>1, WFMin
<1>3. ASSUME NEW x \in T PROVE T \ {x} \in Good
  <2>1. <<T \ {x}, T>> \in R
    BY DEF StrictSubsetOrdering
  <2> QED  BY <1>2, <2>1
<1> QED  BY <1>2, <1>3

(* What the fold behind SumFunctionOnSet computes at each subset. *)
Chosen(s) == CHOOSE x \in s : TRUE
Partial(f, S, sum) ==
  sum = [s \in SUBSET S |-> IF s = {} THEN 0 ELSE f[Chosen(s)] + sum[s \ {Chosen(s)}]]

LEMMA ChosenIn == \A s : s # {} => Chosen(s) \in s
BY DEF Chosen

LEMMA SumUnfolds ==
  ASSUME NEW f, NEW S
  PROVE  SumFunctionOnSet(f, S) = (CHOOSE sum : Partial(f, S, sum))[S]
BY DEF SumFunctionOnSet, FoldFunctionOnSet, MapThenFoldSet, Partial, Chosen

LEMMA PartialAt ==
  ASSUME NEW f, NEW S, NEW sum, Partial(f, S, sum), NEW T \in SUBSET S
  PROVE  /\ T = {} => sum[T] = 0
         /\ T # {} => sum[T] = f[Chosen(T)] + sum[T \ {Chosen(T)}]
<1> DEFINE F == [s \in SUBSET S |-> IF s = {} THEN 0
                                    ELSE f[Chosen(s)] + sum[s \ {Chosen(s)}]]
<1>1. sum = F
  BY DEF Partial
<1>2. F[T] = IF T = {} THEN 0 ELSE f[Chosen(T)] + sum[T \ {Chosen(T)}]
  OBVIOUS
<1> HIDE DEF F
<1> QED  BY <1>1, <1>2

LEMMA PartialStep ==
  ASSUME NEW f, NEW S, NEW sum, Partial(f, S, sum), NEW T \in SUBSET S, T # {}
  PROVE  sum[T] = f[Chosen(T)] + sum[T \ {Chosen(T)}]
BY PartialAt

(* Two such functions agree wherever both are defined. *)
LEMMA PartialsAgree ==
  ASSUME NEW f, NEW S, NEW g, NEW h, NEW U, IsFiniteSet(S), U \subseteq S,
         Partial(f, S, g), Partial(f, U, h)
  PROVE  \A T \in SUBSET U : g[T] = h[T]
<1> DEFINE Good == {T \in SUBSET U : g[T] = h[T]}
<1>1. IsFiniteSet(U)
  BY FS_Subset
<1>2. {} \in Good
  <2>1. {} \in SUBSET S /\ {} \in SUBSET U
    OBVIOUS
  <2>2. g[{}] = 0 /\ h[{}] = 0
    BY <2>1, PartialAt
  <2> QED  BY <2>2
<1>3. ASSUME NEW T \in SUBSET U, T # {}, \A x \in T : T \ {x} \in Good
      PROVE  T \in Good
  <2> DEFINE x == Chosen(T)
  <2>1. x \in T
    BY <1>3, ChosenIn
  <2>2. g[T] = f[x] + g[T \ {x}]
    <3>1. T \in SUBSET S /\ T # {} /\ Partial(f, S, g)
      BY <1>3
    <3> QED  BY ONLY <3>1, PartialStep
  <2>3. h[T] = f[x] + h[T \ {x}]
    <3>1. T \in SUBSET U /\ T # {} /\ Partial(f, U, h)
      BY <1>3
    <3> QED  BY ONLY <3>1, PartialStep
  <2>4. g[T \ {x}] = h[T \ {x}]
    BY <1>3, <2>1
  <2> QED  BY <2>2, <2>3, <2>4
<1>4. SUBSET U \subseteq Good
  <2> HIDE DEF Good
  <2> QED  BY ONLY <1>1, <1>2, <1>3, SubsetInduction
<1> QED  BY <1>4

(* The restriction of such a function to the subsets of U is one over U.   *)
LEMMA PartialRestricts ==
  ASSUME NEW f, NEW S, NEW g, Partial(f, S, g), NEW U, U \subseteq S
  PROVE  \E h : Partial(f, U, h)
<1> DEFINE h == [s \in SUBSET U |-> g[s]]
<1>1. ASSUME NEW s \in SUBSET U
      PROVE  h[s] = IF s = {} THEN 0 ELSE f[Chosen(s)] + h[s \ {Chosen(s)}]
  <2>1. s \in SUBSET S
    OBVIOUS
  <2>2. /\ s = {} => g[s] = 0
        /\ s # {} => g[s] = f[Chosen(s)] + g[s \ {Chosen(s)}]
    BY <2>1, PartialAt
  <2> QED  BY <2>2
<1>2. h = [s \in SUBSET U |-> h[s]]
  OBVIOUS
<1> HIDE DEF h
<1>3. h = [s \in SUBSET U |-> IF s = {} THEN 0 ELSE f[Chosen(s)] + h[s \ {Chosen(s)}]]
  BY <1>1, <1>2
<1>4. Partial(f, U, h)
  BY <1>3 DEF Partial
<1> QED  BY <1>4

(* There is one over every finite set: the recursion is well founded. *)
LEMMA PartialExists ==
  ASSUME NEW f, NEW S, IsFiniteSet(S)
  PROVE  \E g : Partial(f, S, g)
<1> DEFINE Good == {T \in SUBSET S : \E g : Partial(f, T, g)}
<1>1. {} \in Good
  <2> DEFINE zero == [s \in {{}} |-> 0]
  <2>1. Partial(f, {}, zero)
    BY DEF Partial
  <2> QED  BY <2>1
<1>2. ASSUME NEW T \in SUBSET S, T # {}, \A x \in T : T \ {x} \in Good
      PROVE  T \in Good
  <2> DEFINE On(u) == CHOOSE g : Partial(f, u, g)
             sum == [s \in SUBSET T |->
                       IF s = {} THEN 0 ELSE f[Chosen(s)] + On(s \ {Chosen(s)})[s \ {Chosen(s)}]]
  <2>1. ASSUME NEW u \in SUBSET T, u # T PROVE Partial(f, u, On(u))
    <3>1. PICK x \in T : x \notin u
      BY <2>1
    <3>2. PICK g : Partial(f, T \ {x}, g)
      BY <1>2
    <3>3. u \subseteq T \ {x}
      BY <3>1
    <3>4. \E h : Partial(f, u, h)
      BY <3>2, <3>3, PartialRestricts
    <3> QED  BY <3>4
  <2>2. ASSUME NEW s \in SUBSET T, s # {}
        PROVE  Chosen(s) \in s /\ s \ {Chosen(s)} \in SUBSET T /\ s \ {Chosen(s)} # T
    BY <2>2, ChosenIn
  <2>3. ASSUME NEW u \in SUBSET T, u # T PROVE sum[u] = On(u)[u]
    <3>1. CASE u = {}
      <4>1. On(u)[u] = 0
        <5> HIDE DEF On
        <5> QED  BY <2>1, <2>3, <3>1, PartialAt
      <4>2. sum[u] = 0
        BY <3>1
      <4> QED  BY <4>1, <4>2
    <3>2. CASE u # {}
      <4> DEFINE r == u \ {Chosen(u)}
      <4>1. Chosen(u) \in u /\ r \in SUBSET T /\ r # T /\ r \in SUBSET u
        BY <2>2, <3>2
      <4>2. sum[u] = f[Chosen(u)] + On(r)[r]
        BY <3>2
      <4>3. IsFiniteSet(u)
        BY FS_Subset
      <4> HIDE DEF On, sum
      <4>4. On(u)[u] = f[Chosen(u)] + On(u)[r]
        BY <2>1, <2>3, <3>2, PartialAt
      <4> HIDE DEF r
      <4>5. \A z \in SUBSET r : On(u)[z] = On(r)[z]
        BY <2>1, <2>3, <4>1, <4>3, PartialsAgree
      <4> QED  BY <4>2, <4>4, <4>5
    <3> QED  BY <3>1, <3>2
  <2>4. ASSUME NEW s \in SUBSET T
        PROVE  sum[s] = IF s = {} THEN 0 ELSE f[Chosen(s)] + sum[s \ {Chosen(s)}]
    <3>1. CASE s = {}
      BY <3>1
    <3>2. CASE s # {}
      <4>1. sum[s] = f[Chosen(s)] + On(s \ {Chosen(s)})[s \ {Chosen(s)}]
        BY <3>2
      <4>2. s \ {Chosen(s)} \in SUBSET T /\ s \ {Chosen(s)} # T
        BY <2>2, <3>2
      <4> HIDE DEF sum, On
      <4> QED  BY <4>1, <4>2, <2>3, <3>2
    <3> QED  BY <3>1, <3>2
  <2>5. sum = [s \in SUBSET T |-> sum[s]]
    OBVIOUS
  <2> HIDE DEF sum
  <2>6. Partial(f, T, sum)
    BY <2>4, <2>5 DEF Partial
  <2> QED  BY <2>6
<1>3. SUBSET S \subseteq Good
  <2> HIDE DEF Good
  <2> QED  BY <1>1, <1>2, SubsetInduction
<1> QED  BY <1>3

(* The sum of the values of f over a finite set, as one reasons with it:   *)
(* nothing over {}, and over S the value at one chosen element more.       *)
LEMMA SumOfNothing ==
  ASSUME NEW f
  PROVE  SumFunctionOnSet(f, {}) = 0
<1>1. PICK g : Partial(f, {}, g)
  BY PartialExists, FS_EmptySet
<1>2. Partial(f, {}, CHOOSE sum : Partial(f, {}, sum))
  BY <1>1
<1> QED  BY <1>2, PartialAt, SumUnfolds

LEMMA SumChosen ==
  ASSUME NEW f, NEW S, IsFiniteSet(S), S # {}
  PROVE  SumFunctionOnSet(f, S) = f[Chosen(S)] + SumFunctionOnSet(f, S \ {Chosen(S)})
<1> DEFINE On(u) == CHOOSE g : Partial(f, u, g)
           r == S \ {Chosen(S)}
<1>1. ASSUME NEW u, IsFiniteSet(u)
      PROVE  Partial(f, u, On(u)) /\ SumFunctionOnSet(f, u) = On(u)[u]
  BY <1>1, PartialExists, SumUnfolds
<1>2. IsFiniteSet(r)
  BY FS_RemoveElement
<1> HIDE DEF On
<1>3. On(S)[S] = f[Chosen(S)] + On(S)[r]
  BY <1>1, PartialAt
<1>4. r \subseteq S
  OBVIOUS
<1> HIDE DEF r
<1>5. \A z \in SUBSET r : On(S)[z] = On(r)[z]
  BY <1>1, <1>2, <1>4, PartialsAgree
<1>6. SumFunctionOnSet(f, S) = f[Chosen(S)] + SumFunctionOnSet(f, r)
  BY <1>1, <1>2, <1>3, <1>5
<1> QED  BY <1>6 DEF r

(* Sums of integers are integers. *)
LEMMA SumType ==
  ASSUME NEW f, NEW S, IsFiniteSet(S), \A x \in S : f[x] \in Int
  PROVE  SumFunctionOnSet(f, S) \in Int
<1> DEFINE Good == {T \in SUBSET S : SumFunctionOnSet(f, T) \in Int}
<1>1. {} \in Good
  BY SumOfNothing
<1>2. ASSUME NEW T \in SUBSET S, T # {}, \A x \in T : T \ {x} \in Good
      PROVE  T \in Good
  <2>1. IsFiniteSet(T)
    BY FS_Subset
  <2>2. SumFunctionOnSet(f, T) = f[Chosen(T)] + SumFunctionOnSet(f, T \ {Chosen(T)})
    BY <1>2, <2>1, SumChosen
  <2> QED  BY <1>2, <2>2, ChosenIn
<1>3. SUBSET S \subseteq Good
  <2> HIDE DEF Good
  <2> QED  BY <1>1, <1>2, SubsetInduction
<1> QED  BY <1>3

(* The sum does not depend on the element that is taken first. *)
LEMMA SumTake ==
  ASSUME NEW f, NEW S, IsFiniteSet(S), \A x \in S : f[x] \in Int, NEW x \in S
  PROVE  SumFunctionOnSet(f, S) = f[x] + SumFunctionOnSet(f, S \ {x})
<1> DEFINE Sum(T) == SumFunctionOnSet(f, T)
           Good == {T \in SUBSET S : \A y \in T : Sum(T) = f[y] + Sum(T \ {y})}
<1>1. {} \in Good
  OBVIOUS
<1>2. ASSUME NEW T \in SUBSET S, T # {}, \A y \in T : T \ {y} \in Good
      PROVE  T \in Good
  <2> SUFFICES ASSUME NEW y \in T PROVE Sum(T) = f[y] + Sum(T \ {y})
    OBVIOUS
  <2>1. \A U \in SUBSET S : IsFiniteSet(U) /\ Sum(U) \in Int
    BY FS_Subset, SumType
  <2>2. PICK c \in T : Sum(T) = f[c] + Sum(T \ {c})
    <3>1. Chosen(T) \in T
      BY <1>2, ChosenIn
    <3>2. Sum(T) = f[Chosen(T)] + Sum(T \ {Chosen(T)})
      BY <1>2, <2>1, SumChosen
    <3> QED  BY <3>1, <3>2
  <2>3. CASE c # y
    <3>1. Sum(T \ {c}) = f[y] + Sum((T \ {c}) \ {y})
      BY <1>2, <2>3
    <3>2. Sum(T \ {y}) = f[c] + Sum((T \ {y}) \ {c})
      BY <1>2, <2>3
    <3>3. (T \ {c}) \ {y} = (T \ {y}) \ {c}
      OBVIOUS
    <3>4. PICK rest \in Int : rest = Sum((T \ {y}) \ {c})
      BY <2>1
    <3>5. f[c] \in Int /\ f[y] \in Int
      OBVIOUS
    <3>6. Sum(T \ {c}) = f[y] + rest /\ Sum(T \ {y}) = f[c] + rest
      BY <3>1, <3>2, <3>3, <3>4
    <3> HIDE DEF Sum
    <3> QED  BY ONLY <2>2, <3>5, <3>6
  <2> QED  BY <2>2, <2>3
<1>3. SUBSET S \subseteq Good
  <2> HIDE DEF Good
  <2> QED  BY <1>1, <1>2, SubsetInduction
<1>4. S \in Good
  BY <1>3
<1> QED  BY <1>4

(* Adding an element adds its value. *)
LEMMA SumAdd ==
  ASSUME NEW f, NEW S, IsFiniteSet(S), NEW x, x \notin S,
         \A y \in S \cup {x} : f[y] \in Int
  PROVE  SumFunctionOnSet(f, S \cup {x}) = SumFunctionOnSet(f, S) + f[x]
<1>1. IsFiniteSet(S \cup {x}) /\ x \in S \cup {x} /\ (S \cup {x}) \ {x} = S
  BY FS_AddElement
<1>2. SumFunctionOnSet(f, S \cup {x}) =
        f[x] + SumFunctionOnSet(f, (S \cup {x}) \ {x})
  BY <1>1, SumTake
<1>3. SumFunctionOnSet(f, S \cup {x}) = f[x] + SumFunctionOnSet(f, S)
  BY <1>1, <1>2
<1>4. f[x] \in Int /\ SumFunctionOnSet(f, S) \in Int
  BY SumType
<1> QED  BY ONLY <1>3, <1>4

LEMMA SumOfOne ==
  ASSUME NEW f, NEW x, f[x] \in Int
  PROVE  SumFunctionOnSet(f, {x}) = f[x]
<1>1. SumFunctionOnSet(f, {} \cup {x}) = SumFunctionOnSet(f, {}) + f[x]
  BY SumAdd, FS_EmptySet
<1>2. {} \cup {x} = {x}
  OBVIOUS
<1> QED  BY <1>1, <1>2, SumOfNothing

(* Zeros add up to zero. *)
LEMMA SumOfZeros ==
  ASSUME NEW f, NEW S, IsFiniteSet(S), \A x \in S : f[x] = 0
  PROVE  SumFunctionOnSet(f, S) = 0
<1> DEFINE Good == {T \in SUBSET S : SumFunctionOnSet(f, T) = 0}
<1>1. {} \in Good
  BY SumOfNothing
<1>2. ASSUME NEW T \in SUBSET S, T # {}, \A x \in T : T \ {x} \in Good
      PROVE  T \in Good
  <2>1. IsFiniteSet(T) /\ Chosen(T) \in T
    BY <1>2, FS_Subset, ChosenIn
  <2>2. SumFunctionOnSet(f, T) = f[Chosen(T)] + SumFunctionOnSet(f, T \ {Chosen(T)})
    BY <1>2, <2>1, SumChosen
  <2> QED  BY <1>2, <2>1, <2>2
<1>3. SUBSET S \subseteq Good
  <2> HIDE DEF Good
  <2> QED  BY <1>1, <1>2, SubsetInduction
<1> QED  BY <1>3

(* A sum depends on the values that are added, and on nothing else. *)
LEMMA SumSame ==
  ASSUME NEW f, NEW g, NEW S, IsFiniteSet(S), \A x \in S : f[x] = g[x]
  PROVE  SumFunctionOnSet(f, S) = SumFunctionOnSet(g, S)
<1> DEFINE Good == {T \in SUBSET S : SumFunctionOnSet(f, T) = SumFunctionOnSet(g, T)}
<1>1. {} \in Good
  BY SumOfNothing
<1>2. ASSUME NEW T \in SUBSET S, T # {}, \A x \in T : T \ {x} \in Good
      PROVE  T \in Good
  <2>1. IsFiniteSet(T) /\ Chosen(T) \in T
    BY <1>2, FS_Subset, ChosenIn
  <2>2. /\ SumFunctionOnSet(f, T) = f[Chosen(T)] + SumFunctionOnSet(f, T \ {Chosen(T)})
        /\ SumFunctionOnSet(g, T) = g[Chosen(T)] + SumFunctionOnSet(g, T \ {Chosen(T)})
    BY <1>2, <2>1, SumChosen
  <2> QED  BY <1>2, <2>1, <2>2
<1>3. SUBSET S \subseteq Good
  <2> HIDE DEF Good
  <2> QED  BY <1>1, <1>2, SubsetInduction
<1> QED  BY <1>3

(* Changing one value changes the sum by as much. *)
LEMMA SumReplace ==
  ASSUME NEW f, NEW g, NEW S, IsFiniteSet(S), NEW x \in S,
         \A y \in S : f[y] \in Int /\ g[y] \in Int,
         \A y \in S \ {x} : f[y] = g[y]
  PROVE  SumFunctionOnSet(g, S) = SumFunctionOnSet(f, S) + (g[x] - f[x])
<1>1. /\ SumFunctionOnSet(f, S) = f[x] + SumFunctionOnSet(f, S \ {x})
      /\ SumFunctionOnSet(g, S) = g[x] + SumFunctionOnSet(g, S \ {x})
  BY SumTake
<1>2. IsFiniteSet(S \ {x})
  BY FS_RemoveElement
<1>3. SumFunctionOnSet(f, S \ {x}) = SumFunctionOnSet(g, S \ {x})
  BY <1>2, SumSame
<1>4. SumFunctionOnSet(f, S \ {x}) \in Int
  BY <1>2, SumType
<1> QED  BY <1>1, <1>3, <1>4

(* Values that are not negative have a sum that is not, and it is zero     *)
(* only when each of them is.                                              *)
LEMMA SumNotNegative ==
  ASSUME NEW f, NEW S, IsFiniteSet(S), \A x \in S : f[x] \in Nat
  PROVE  /\ SumFunctionOnSet(f, S) \in Nat
         /\ SumFunctionOnSet(f, S) = 0 => \A x \in S : f[x] = 0
<1> DEFINE Good == {T \in SUBSET S : SumFunctionOnSet(f, T) \in Nat}
<1>1. {} \in Good
  BY SumOfNothing
<1>2. ASSUME NEW T \in SUBSET S, T # {}, \A x \in T : T \ {x} \in Good
      PROVE  T \in Good
  <2>1. IsFiniteSet(T) /\ Chosen(T) \in T
    BY <1>2, FS_Subset, ChosenIn
  <2>2. SumFunctionOnSet(f, T) = f[Chosen(T)] + SumFunctionOnSet(f, T \ {Chosen(T)})
    BY <1>2, <2>1, SumChosen
  <2> QED  BY <1>2, <2>1, <2>2
<1>3. SUBSET S \subseteq Good
  <2> HIDE DEF Good
  <2> QED  BY <1>1, <1>2, SubsetInduction
<1>4. ASSUME NEW x \in S
      PROVE  /\ SumFunctionOnSet(f, S) = f[x] + SumFunctionOnSet(f, S \ {x})
             /\ SumFunctionOnSet(f, S \ {x}) \in Nat
  <2>1. S \ {x} \in Good
    BY <1>3
  <2>2. SumFunctionOnSet(f, S) = f[x] + SumFunctionOnSet(f, S \ {x})
    BY SumTake
  <2> QED  BY <2>1, <2>2
<1>5. SumFunctionOnSet(f, S) \in Nat
  BY <1>3
<1>6. ASSUME SumFunctionOnSet(f, S) = 0, NEW x \in S PROVE f[x] = 0
  <2>1. PICK rest \in Nat : SumFunctionOnSet(f, S) = f[x] + rest
    BY <1>4
  <2>2. f[x] \in Nat
    OBVIOUS
  <2> QED  BY ONLY <1>6, <2>1, <2>2
<1> QED  BY <1>5, <1>6

(* A sum may be taken group by group, h[x] being the group of x. *)
LEMMA SumByGroup ==
  ASSUME NEW f, NEW S, IsFiniteSet(S), NEW B, IsFiniteSet(B), NEW h \in [S -> B],
         \A x \in S : f[x] \in Int
  PROVE  SumFunctionOnSet([b \in B |-> SumFunctionOnSet(f, {x \in S : h[x] = b})], B)
           = SumFunctionOnSet(f, S)
<1> DEFINE Part(T, b) == {x \in T : h[x] = b}
           Sum(T) == SumFunctionOnSet(f, T)
           By(T) == [b \in B |-> Sum(Part(T, b))]
           Good == {T \in SUBSET S : SumFunctionOnSet(By(T), B) = Sum(T)}
<1>0. ASSUME NEW T \in SUBSET S, NEW b \in B
      PROVE  IsFiniteSet(Part(T, b)) /\ Sum(Part(T, b)) \in Int
  <2>1. IsFiniteSet(T)
    BY FS_Subset
  <2>2. IsFiniteSet(Part(T, b))
    BY <2>1, FS_Subset
  <2> QED  BY <2>2, SumType
<1>1. {} \in Good
  <2> DEFINE zero == [b \in B |-> 0]
  <2>1. \A b \in B : By({})[b] = 0
    <3>1. \A b \in B : Part({}, b) = {}
      OBVIOUS
    <3> QED  BY <3>1, SumOfNothing
  <2>2. SumFunctionOnSet(By({}), B) = 0
    <3> HIDE DEF By
    <3> QED  BY <2>1, SumOfZeros
  <2> HIDE DEF By
  <2> QED  BY <2>2, SumOfNothing
<1>2. ASSUME NEW T \in SUBSET S, T # {}, \A x \in T : T \ {x} \in Good
      PROVE  T \in Good
  <2>1. PICK x \in T : TRUE
    BY <1>2
  <2> DEFINE U == T \ {x}
             c == h[x]
  <2>2. c \in B /\ f[x] \in Int /\ U \in SUBSET S
    OBVIOUS
  <2>3. \A b \in B \ {c} : Part(T, b) = Part(U, b)
    OBVIOUS
  <2>4. Part(T, c) = Part(U, c) \cup {x} /\ x \notin Part(U, c)
    OBVIOUS
  <2>5. Sum(Part(T, c)) = Sum(Part(U, c)) + f[x]
    <3>1. IsFiniteSet(Part(U, c)) /\ \A y \in Part(U, c) \cup {x} : f[y] \in Int
      BY <1>0, <2>2
    <3> HIDE DEF Part
    <3> QED  BY <2>4, <3>1, SumAdd
  <2>6. /\ \A b \in B : By(T)[b] \in Int /\ By(U)[b] \in Int
        /\ \A b \in B \ {c} : By(T)[b] = By(U)[b]
        /\ By(T)[c] = By(U)[c] + f[x]
    <3> HIDE DEF Part, Sum
    <3> QED  BY <1>0, <2>2, <2>3, <2>5
  <2>7. SumFunctionOnSet(By(T), B) = SumFunctionOnSet(By(U), B) + (By(T)[c] - By(U)[c])
    <3> DEFINE p == By(T)
               q == By(U)
    <3>1. /\ \A b \in B : p[b] \in Int /\ q[b] \in Int
          /\ \A b \in B \ {c} : q[b] = p[b]
      BY <2>6
    <3> HIDE DEF p, q, c
    <3>2. SumFunctionOnSet(p, B) = SumFunctionOnSet(q, B) + (p[c] - q[c])
      BY <2>2, <3>1, SumReplace
    <3> QED  BY <3>2 DEF p, q
  <2>8. Sum(T) = Sum(U) + f[x]
    <3>1. IsFiniteSet(T) /\ IsFiniteSet(U)
      BY FS_Subset
    <3>2. Sum(T) = f[x] + Sum(U)
      BY <3>1, SumTake
    <3>3. Sum(U) \in Int
      BY <3>1, SumType
    <3> HIDE DEF Sum
    <3> QED  BY <2>2, <3>2, <3>3
  <2>9. SumFunctionOnSet(By(U), B) = Sum(U)
    BY <1>2
  <2>10. Sum(U) \in Int /\ By(U)[c] \in Int
    <3>1. IsFiniteSet(U)
      BY FS_Subset
    <3> QED  BY <3>1, <2>2, <2>6, SumType
  <2>11. SumFunctionOnSet(By(T), B) = Sum(T)
    <3> HIDE DEF By, Sum, U, c
    <3> QED  BY <2>2, <2>6, <2>7, <2>8, <2>9, <2>10
  <2> QED  BY <2>11
<1>3. SUBSET S \subseteq Good
  <2> HIDE DEF Good
  <2> QED  BY <1>1, <1>2, SubsetInduction
<1> QED  BY <1>3

(* ... and along any one-to-one listing of the elements. *)
Along(g, f, h, S) == \A x \in S : g[x] = f[h[x]]

LEMMA SumReindex ==
  ASSUME NEW f, NEW S, IsFiniteSet(S), NEW B, IsFiniteSet(B), NEW h \in Bijection(S, B),
         \A b \in B : f[b] \in Int, NEW g, Along(g, f, h, S)
  PROVE  SumFunctionOnSet(g, S) = SumFunctionOnSet(f, B)
<1> DEFINE By == [b \in B |-> SumFunctionOnSet(g, {x \in S : h[x] = b})]
<1>1. h \in [S -> B] /\ (\A x, y \in S : h[x] = h[y] => x = y)
      /\ \A b \in B : \E x \in S : h[x] = b
  BY DEF Bijection, Injection, Surjection, IsInjective
<1>2. \A x \in S : g[x] = f[h[x]] /\ g[x] \in Int
  BY <1>1 DEF Along
<1>3. ASSUME NEW b \in B PROVE By[b] = f[b]
  <2>1. PICK x \in S : h[x] = b
    BY <1>1
  <2>2. {y \in S : h[y] = b} = {x}
    BY <1>1, <2>1
  <2>3. SumFunctionOnSet(g, {x}) = g[x]
    BY <1>2, SumOfOne
  <2> QED  BY <1>2, <2>1, <2>2, <2>3
<1>4. SumFunctionOnSet(By, B) = SumFunctionOnSet(g, S)
  BY <1>1, <1>2, SumByGroup
<1>5. SumFunctionOnSet(By, B) = SumFunctionOnSet(f, B)
  <2> HIDE DEF By
  <2> QED  BY <1>3, SumSame
<1> QED  BY <1>4, <1>5

(* The elements where the value is zero can be left out of a sum. *)
LEMMA SumSkipsZeros ==
  ASSUME NEW f, NEW S, IsFiniteSet(S), NEW T, T \subseteq S,
         \A x \in S : f[x] \in Int, \A x \in S \ T : f[x] = 0
  PROVE  SumFunctionOnSet(f, S) = SumFunctionOnSet(f, T)
<1> DEFINE h == [x \in S |-> IF x \in T THEN 1 ELSE 2]
           By == [b \in {1, 2} |-> SumFunctionOnSet(f, {x \in S : h[x] = b})]
<1>1. h \in [S -> {1, 2}] /\ {x \in S : h[x] = 1} = T /\ {x \in S : h[x] = 2} = S \ T
  OBVIOUS
<1>2. IsFiniteSet({1, 2}) /\ IsFiniteSet({1}) /\ IsFiniteSet(S \ T) /\ IsFiniteSet(T)
  <2>1. IsFiniteSet({1} \cup {2})
    BY FS_AddElement, FS_Singleton
  <2>2. {1, 2} = {1} \cup {2}
    OBVIOUS
  <2> QED  BY <2>1, <2>2, FS_Subset, FS_Singleton
<1>3. SumFunctionOnSet(By, {1, 2}) = SumFunctionOnSet(f, S)
  <2> HIDE DEF h
  <2>1. /\ IsFiniteSet(S) /\ IsFiniteSet({1, 2}) /\ h \in [S -> {1, 2}]
        /\ \A x \in S : f[x] \in Int
    BY <1>1, <1>2
  <2> QED  BY ONLY <2>1, SumByGroup
<1>4. By[1] = SumFunctionOnSet(f, T) /\ By[2] = SumFunctionOnSet(f, S \ T)
  BY <1>1
<1>5. By[2] = 0
  BY <1>2, <1>4, SumOfZeros
<1>6. SumFunctionOnSet(f, T) \in Int
  BY <1>2, SumType
<1> HIDE DEF By
<1>7. SumFunctionOnSet(By, {1} \cup {2}) = SumFunctionOnSet(By, {1}) + By[2]
  <2>1. IsFiniteSet({1}) /\ 2 \notin {1} /\ \A y \in {1} \cup {2} : By[y] \in Int
    BY <1>2, <1>4, <1>5, <1>6
  <2> QED  BY ONLY <2>1, SumAdd
<1>8. SumFunctionOnSet(By, {1}) = By[1]
  BY <1>4, <1>6, SumOfOne
<1>9. {1} \cup {2} = {1, 2}
  OBVIOUS
<1>10. SumFunctionOnSet(f, S) = SumFunctionOnSet(f, T) + 0
  BY <1>3, <1>4, <1>5, <1>7, <1>8, <1>9, Zenon
<1> QED  BY <1>6, <1>10

(* The difference of two sums is the sum of the differences. *)
LEMMA SumOfDifferences ==
  ASSUME NEW f, NEW g, NEW h, NEW S, IsFiniteSet(S),
         \A x \in S : f[x] \in Int /\ g[x] \in Int /\ h[x] = f[x] - g[x]
  PROVE  SumFunctionOnSet(h, S) = SumFunctionOnSet(f, S) - SumFunctionOnSet(g, S)
<1> DEFINE Holds(T) == SumFunctionOnSet(h, T) = SumFunctionOnSet(f, T) - SumFunctionOnSet(g, T)
           Good == {T \in SUBSET S : Holds(T)}
<1>1. {} \in Good
  BY SumOfNothing
<1>2. ASSUME NEW T \in SUBSET S, T # {}, \A x \in T : T \ {x} \in Good
      PROVE  T \in Good
  <2> DEFINE x == Chosen(T)
             U == T \ {x}
  <2>1. IsFiniteSet(T) /\ IsFiniteSet(U) /\ x \in T
    BY <1>2, FS_Subset, ChosenIn
  <2>2. /\ SumFunctionOnSet(f, T) = f[x] + SumFunctionOnSet(f, U)
        /\ SumFunctionOnSet(g, T) = g[x] + SumFunctionOnSet(g, U)
        /\ SumFunctionOnSet(h, T) = h[x] + SumFunctionOnSet(h, U)
    BY <1>2, <2>1, SumChosen
  <2>3. SumFunctionOnSet(f, U) \in Int /\ SumFunctionOnSet(g, U) \in Int
    BY <2>1, SumType
  <2>4. Holds(U)
    BY <1>2, <2>1
  <2>5. f[x] \in Int /\ g[x] \in Int /\ h[x] = f[x] - g[x]
    BY <2>1
  <2> HIDE DEF x, U
  <2>6. Holds(T)
    BY <2>2, <2>3, <2>4, <2>5
  <2> QED  BY <2>6
<1>3. SUBSET S \subseteq Good
  <2> HIDE DEF Good
  <2> QED  BY <1>1, <1>2, SubsetInduction
<1> QED  BY <1>3
=============================================================================
