----------------------------- MODULE MCPayments -----------------------------
(* Constant values for TLC: who asks, under which key, with which code, for *)
(* which merchant.                                                         *)
EXTENDS Payments, TLC

CONSTANTS bank1, bank2, shop, mall, n1, n2, r1, r2, r3

OneZone  == [p \in Bank \cup Agent |-> "PL"]
TwoZones == [p \in Bank \cup Agent |-> IF p = bank2 THEN "EU" ELSE "PL"]

OneAgent  == [r \in Request |-> shop]
TwoAgents == [r \in Request |-> IF r = r1 THEN shop ELSE mall]

SameKey  == [r \in Request |-> "k1"]

SameCode == [r \in Request |-> n1]
OddCode  == [r \in Request |-> IF r = r3 THEN n2 ELSE n1]

AtBank1  == [r \in Request |-> bank1]
OneOnUs  == [r \in Request |-> IF r = r1 THEN bank1 ELSE bank2]
=============================================================================
