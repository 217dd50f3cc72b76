------------------------------ MODULE MCLookups ------------------------------
(* Lookups on a small instance: two banks register one number, and one of   *)
(* them deletes it twice.                                                   *)
EXTENDS Lookups

CONSTANTS b1, b2, p, r1, r2, d1, d2

TheBanks    == {b1, b2}
ThePhones   == {p}
TheRequests == {r1, r2, d1, d2}
TheOp       == [r \in TheRequests |-> IF r \in {d1, d2} THEN "delete" ELSE "register"]
TheBankOf   == [r \in TheRequests |-> IF r = r2 THEN b2 ELSE b1]
ThePhoneOf  == [r \in TheRequests |-> p]

(* One lookup of b1 costs a cent; one of b2 costs half a cent, which rounds *)
(* to nothing, and three of them round up to two cents.                     *)
TheFee      == [b \in TheBanks |-> IF b = b1 THEN 100 ELSE 50]
=============================================================================
