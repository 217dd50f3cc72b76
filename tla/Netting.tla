------------------------------ MODULE Netting ------------------------------
(***************************************************************************)
(* backend/ledger/services/netting.py: multilateral netting followed by    *)
(* greedy matching.  Pure operators: an obligation says that one bank owes *)
(* another an amount, and the result is the list of RTGS transfers that    *)
(* gives every bank the same net position.                                 *)
(*                                                                         *)
(* The dict of positions is modelled as the sequence of its items, in the  *)
(* insertion order that Python keeps and that decides ties in sorted().    *)
(* Decimal amounts are whole numbers of grosze.                            *)
(***************************************************************************)
EXTENDS Integers, Sequences, FiniteSets, SequencesExt

Obligation(from, to, amount) == [from |-> from, to |-> to, amount |-> amount]
NetTransfer(from, to, amount) == [from |-> from, to |-> to, amount |-> amount]

-----------------------------------------------------------------------------
(* Lists and sums *)

(* The elements of S in the order R, a strict total order given as the set *)
(* of its pairs                                                            *)
Sorted(S, R) ==
  CHOOSE list \in [1 .. Cardinality(S) -> S] :
    \A i, j \in DOMAIN list : i < j => <<list[i], list[j]>> \in R

Increasing(S) == {p \in S \X S : p[1] < p[2]}

(* What `bank` pays, and gets, over a sequence of obligations or transfers *)
AmountsOf(flows) == [i \in DOMAIN flows |-> flows[i].amount]
Paid(flows, bank) ==
  SumFunctionOnSet(AmountsOf(flows), {i \in DOMAIN flows : flows[i].from = bank})
Received(flows, bank) ==
  SumFunctionOnSet(AmountsOf(flows), {i \in DOMAIN flows : flows[i].to = bank})
NetOf(flows, bank) == Received(flows, bank) - Paid(flows, bank)

-----------------------------------------------------------------------------
(* Net positions *)

(* The banks as the loop meets them: from_bank, then to_bank *)
Mention(obligations, m) ==
  IF m % 2 = 1 THEN obligations[(m + 1) \div 2].from ELSE obligations[m \div 2].to

(* Where a key is new to the dict *)
FirstMentions(obligations) ==
  {m \in 1 .. 2 * Len(obligations) :
     \A k \in 1 .. m - 1 : Mention(obligations, k) # Mention(obligations, m)}

InsertionOrder(obligations) ==
  LET new   == FirstMentions(obligations)
      order == Sorted(new, Increasing(new))
  IN  [i \in DOMAIN order |-> Mention(obligations, order[i])]

CalculateNetPositions(obligations) ==
  LET order == InsertionOrder(obligations)
  IN  [i \in DOMAIN order |-> [bank |-> order[i], net |-> NetOf(obligations, order[i])]]

-----------------------------------------------------------------------------
(* Greedy matching *)

(* The participants on one side of the market: sign -1 selects the debtors *)
SideOf(positions, sign) == {i \in DOMAIN positions : sign * positions[i].net > 0}

(* A mutant: the side is listed in insertion order, unsorted.              *)
AsInserted(positions, sign) == Increasing(DOMAIN positions)

(* sorted(..., key=amount, reverse=True): decreasing, stable *)
Decreasing(positions, sign) ==
  {p \in (DOMAIN positions) \X (DOMAIN positions) :
     \/ sign * positions[p[1]].net > sign * positions[p[2]].net
     \/ positions[p[1]].net = positions[p[2]].net /\ p[1] < p[2]}

Side(positions, sign) ==
  LET order == Sorted(SideOf(positions, sign), Decreasing(positions, sign))
  IN  [k \in DOMAIN order |-> [bank |-> positions[order[k]].bank,
                               left |-> sign * positions[order[k]].net]]

GreedyInit(positions) ==
  [debtors |-> Side(positions, -1), creditors |-> Side(positions, 1),
   d |-> 1, c |-> 1, transfers |-> <<>>]

Unfinished(loop) == loop.d <= Len(loop.debtors) /\ loop.c <= Len(loop.creditors)

(* What is still to be paid to `bank`: its credit left minus its debt left *)
LeftsOf(accounts) == [i \in DOMAIN accounts |-> accounts[i].left]
Left(accounts, bank) ==
  SumFunctionOnSet(LeftsOf(accounts), {i \in DOMAIN accounts : accounts[i].bank = bank})
StillDue(loop, bank) == Left(loop.creditors, bank) - Left(loop.debtors, bank)

(* A mutant: `elif` for the second `if` that drops an exhausted account.    *)
GreedyStepElif(loop) ==
  LET debt   == loop.debtors[loop.d].left
      credit == loop.creditors[loop.c].left
      amount == IF debt <= credit THEN debt ELSE credit
  IN  [debtors   |-> [loop.debtors EXCEPT ![loop.d].left = debt - amount],
       creditors |-> [loop.creditors EXCEPT ![loop.c].left = credit - amount],
       d         |-> IF amount = debt THEN loop.d + 1 ELSE loop.d,
       c         |-> IF amount # debt THEN loop.c + 1 ELSE loop.c,
       transfers |-> Append(loop.transfers, NetTransfer(loop.debtors[loop.d].bank,
                                                        loop.creditors[loop.c].bank, amount))]

(* A mutant: the whole credit is paid even when the debt is smaller.        *)
GreedyStepOverpay(loop) ==
  LET debt   == loop.debtors[loop.d].left
      credit == loop.creditors[loop.c].left
  IN  [loop EXCEPT !.d = loop.d + 1,
                   !.c = loop.c + 1,
                   !.debtors[loop.d].left = 0,
                   !.creditors[loop.c].left = 0,
                   !.transfers = Append(@, NetTransfer(loop.debtors[loop.d].bank,
                                                       loop.creditors[loop.c].bank, credit))]

(* One iteration of the while loop of greedy_match *)
GreedyStep(loop) ==
  LET debt   == loop.debtors[loop.d].left
      credit == loop.creditors[loop.c].left
      amount == IF debt <= credit THEN debt ELSE credit
  IN  [debtors   |-> [loop.debtors EXCEPT ![loop.d].left = debt - amount],
       creditors |-> [loop.creditors EXCEPT ![loop.c].left = credit - amount],
       d         |-> IF amount = debt THEN loop.d + 1 ELSE loop.d,
       c         |-> IF amount = credit THEN loop.c + 1 ELSE loop.c,
       transfers |-> Append(loop.transfers, NetTransfer(loop.debtors[loop.d].bank,
                                                        loop.creditors[loop.c].bank, amount))]

(* One more turn of the loop, which a finished one does not take *)
Turn(loop) == IF Unfinished(loop) THEN GreedyStep(loop) ELSE loop

(* The loop makes one iteration less than there are accounts, at most *)
GreedyMatch(positions) ==
  LET start == GreedyInit(positions)
      turns == Len(start.debtors) + Len(start.creditors)
      after[k \in 0 .. turns] == IF k = 0 THEN start ELSE Turn(after[k - 1])
  IN  after[turns].transfers

NetObligations(obligations) ==
  IF obligations = <<>> THEN <<>> ELSE GreedyMatch(CalculateNetPositions(obligations))
=============================================================================
