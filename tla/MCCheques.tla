----------------------------- MODULE MCCheques -----------------------------
(* Constant values for TLC: who issues, for how much, who redeems. *)
EXTENDS Cheques, TLC

CONSTANTS bank1, bank2, shop, mall, n1, c1, c2, r1, r2, r3

OneZone == [p \in Bank \cup Agent |-> "PL"]

(* The merchants of the shop bank elsewhere, those of the mall with the issuer *)
BanksOfMerchants == [a \in Agent |-> IF a = shop THEN bank2 ELSE bank1]

(* 0.30 and 1.00 percent; 60 and 20 leave nothing of a cheque for 1 *)
Fair  == [klik |-> 30, agent |-> 100]
Steep == [klik |-> 6000, agent |-> 2000]
Contracts == [a \in Agent |-> IF a = shop THEN <<{Fair}, {Steep}>> ELSE <<{Fair}>>]

OneIssuer == [c \in Cheque |-> bank1]
Amounts   == [c \in Cheque |-> IF c = c1 THEN 100 ELSE 1]
Enough    == [b \in Bank |-> 100]

Redeemers == [r \in Request |-> IF r = r3 THEN mall ELSE shop]
SameKey   == [r \in Request |-> "k1"]
SameCode  == [r \in Request |-> n1]

(* r1 and r2 are one order, sent twice *)
Twins == Permutations({r1, r2})
=============================================================================
