---------------------------- MODULE NettingLoop ----------------------------
(***************************************************************************)
(* The while loop of greedy_match (backend/ledger/services/netting.py) as  *)
(* a state machine, one step per iteration, started from every short list  *)
(* of obligations, and what the loop promises at each iteration and at the *)
(* end.                                                                    *)
(***************************************************************************)
EXTENDS Netting

CONSTANTS
  Bank,            \* the participants
  Amounts,         \* amounts an obligation may have
  MaxObligations   \* bound: obligations in one session

ASSUME NettingLoopAssumption ==
  /\ Amounts \subseteq Nat \ {0}
  /\ MaxObligations \in Nat

VARIABLES
  obligations,     \* the argument of net_obligations, fixed
  loop             \* the locals of greedy_match
vars == <<obligations, loop>>

ObligationList ==
  UNION {[1 .. n -> {Obligation(from, to, amount) : from, to \in Bank, amount \in Amounts}]
         : n \in 0 .. MaxObligations}

Init == /\ obligations \in ObligationList
        /\ loop = GreedyInit(CalculateNetPositions(obligations))

Iterate == /\ Unfinished(loop)
           /\ loop' = GreedyStep(loop)
           /\ UNCHANGED obligations

Next == Iterate
Spec == Init /\ [][Next]_vars

-----------------------------------------------------------------------------
(* At every iteration the transfers made so far and what is left on the    *)
(* accounts add up to each bank's net position: greedy_match neither       *)
(* creates nor loses money, whatever the order of the accounts.            *)
PositionsPreserved ==
  \A bank \in Bank : NetOf(loop.transfers, bank) + StillDue(loop, bank) = NetOf(obligations, bank)

(* The loop exits on the index of ONE side.  When it does, both sides are  *)
(* paid out, every transfer is a real one that the constraints of          *)
(* SettlementTransfer accept (a positive amount between different banks),  *)
(* and N banks with a position need at most N - 1 transfers (netting.py,   *)
(* "Dla N uczestników: max N-1 przelewów").                                *)
Finished == ~ Unfinished(loop)

PaidOutInFewTransfers ==
  Finished =>
    /\ \A bank \in Bank : StillDue(loop, bank) = 0
    /\ \A i \in DOMAIN loop.transfers : /\ loop.transfers[i].amount > 0
                                        /\ loop.transfers[i].from # loop.transfers[i].to
    /\ loop.transfers # <<>> =>
         Len(loop.transfers) < Len(loop.debtors) + Len(loop.creditors)

(* A definition of the result without a sort and without a loop: lay the   *)
(* debts end to end, the larger (then the earlier mentioned) first, and    *)
(* the credits likewise; a debtor pays a creditor the length of the        *)
(* overlap of their intervals.  `sign` is -1 for debts and 1 for credits.  *)
Sizes(positions, sign) == [i \in DOMAIN positions |-> sign * positions[i].net]

Start(positions, sign, i) ==
  LET size == Sizes(positions, sign)
  IN  SumFunctionOnSet(size, {j \in DOMAIN positions :
                                /\ size[j] > 0
                                /\ \/ size[j] > size[i]
                                   \/ size[j] = size[i] /\ j < i})

End(positions, sign, i) == Start(positions, sign, i) + Sizes(positions, sign)[i]

Overlap(positions, d, c) ==
  IF Sizes(positions, -1)[d] > 0 /\ Sizes(positions, 1)[c] > 0
  THEN Min({End(positions, -1, d), End(positions, 1, c)}) -
         Max({Start(positions, -1, d), Start(positions, 1, c)})
  ELSE 0

IntervalMatch(positions) ==
  {NetTransfer(positions[p[1]].bank, positions[p[2]].bank, Overlap(positions, p[1], p[2])) :
     p \in {q \in (DOMAIN positions) \X (DOMAIN positions) : Overlap(positions, q[1], q[2]) > 0}}

(* The loop and net_obligations, which run_netting calls, both compute     *)
(* exactly the interval match, each transfer once.                         *)
MatchesIntervals ==
  Finished =>
    LET expected == IntervalMatch(CalculateNetPositions(obligations))
    IN  /\ NetObligations(obligations) = loop.transfers
        /\ ToSet(loop.transfers) = expected
        /\ Len(loop.transfers) = Cardinality(expected)
=============================================================================
