------------------------------ MODULE Payment ------------------------------
(***************************************************************************)
(* What a code payment promises, without Redis, Celery, webhooks or the    *)
(* bank's application: a code, once issued, is charged by at most one      *)
(* payment; one order of an agent (its idempotency key) becomes at most    *)
(* one payment; a payment is decided once; and it is booked in the very    *)
(* step that accepts it, if money is due from the payer's bank to others,  *)
(* or never.  The ledger knows payments by their key: it may leave out     *)
(* one whose key has entries.                                              *)
(*                                                                         *)
(* The detailed specification is Payments, which implements this one.      *)
(***************************************************************************)
EXTENDS Naturals, Sequences

CONSTANTS Agent, Key, Issue

VARIABLE payments     \* sequence of records: see Ask

Init == payments = <<>>

Ask(agent, key, issue, onUs) ==
  /\ \A x \in DOMAIN payments : /\ ~ (payments[x].agent = agent /\ payments[x].key = key)
                                /\ payments[x].issue # issue
  /\ payments' = Append(payments, [agent |-> agent, key |-> key, issue |-> issue,
                                   onUs |-> onUs, state |-> "pending", due |-> FALSE,
                                   booked |-> FALSE])

BookedUnder(key) == \E x \in DOMAIN payments : payments[x].booked /\ payments[x].key = key

(* Of an accepted payment between two banks money is due, and of one within *)
(* a bank, if there are fees.                                              *)
Decide(x, decision, due, booked) ==
  /\ payments[x].state = "pending"
  /\ due => decision = "accepted"
  /\ decision = "accepted" => due \/ payments[x].onUs
  /\ booked => due
  /\ due => booked \/ BookedUnder(payments[x].key)
  /\ payments' = [payments EXCEPT ![x] =
                    [@ EXCEPT !.state = decision, !.due = due, !.booked = booked]]

Next ==
  \/ \E agent \in Agent, key \in Key, issue \in Issue, onUs \in BOOLEAN :
       Ask(agent, key, issue, onUs)
  \/ \E x \in DOMAIN payments, decision \in {"accepted", "rejected", "lapsed"},
        due, booked \in BOOLEAN : Decide(x, decision, due, booked)

Spec == Init /\ [][Next]_payments
=============================================================================
