-------------------------------- MODULE Fees --------------------------------
(***************************************************************************)
(* The split of a payment between KLIK, the agent and the merchant:        *)
(* backend/agents, AgentService.calculate_split.  Money is counted in      *)
(* hundredths of the currency unit and a percentage in hundredths of a     *)
(* percent, as the columns of two decimal places hold them.                *)
(***************************************************************************)
EXTENDS Integers

Perc == Nat

(* MSCAgreement.clean refuses percentages that add up to 100 or more *)
Agreement == {a \in [klik : Perc, agent : Perc] : a.klik + a.agent < 10000}

(* A mutant: every fee is rounded up. *)
RoundUp(value) == (value + 9999) \div 10000

(* _round_money: half up, to the hundredth *)
RoundMoney(value) == (value + 5000) \div 10000

(* What the fees leave to the merchant *)
MerchantNet(msc, gross) ==
  gross - RoundMoney(gross * msc.klik) - RoundMoney(gross * msc.agent)

(* AgentService.calculate_split *)
Split(msc, gross) ==
  [klik  |-> RoundMoney(gross * msc.klik),
   agent |-> RoundMoney(gross * msc.agent),
   net   |-> MerchantNet(msc, gross)]
=============================================================================
