---------------------------- MODULE MCSettlement ----------------------------
(* Constant values for TLC: banks p1, p2, p3 are in one zone, e1, e2 in EU. *)
EXTENDS Settlement, TLC

CONSTANTS p1, p2, p3, e1, e2, beat, manual, euro

ThreeBanks == {p1, p2, p3}
TwoBanks  == {p1, p2}
TwoZones  == {p1, p2, e1, e2}
AllUS     == [bank \in ThreeBanks |-> "US"]
PLOnly    == [bank \in TwoBanks |-> "PL"]
PLAndEU   == [bank \in TwoZones |-> IF bank \in {p1, p2} THEN "PL" ELSE "EU"]

(* Beat and the operator trigger the same zone, or two zones run at once *)
BeatInUS  == [t \in {beat} |-> "US"]
SameZone  == [t \in {beat, manual} |-> "PL"]
AnyZone   == [t \in {beat, manual, euro} |-> IF t = euro THEN "EU" ELSE "PL"]

(* p3 has no identifiers of FedNow *)
SomeNamed == {p1, p2}

(* Banks are interchangeable: ties are broken by order of mention. *)
BankSymmetry == Permutations(SomeNamed)
=============================================================================
