------------------------------ MODULE Gateways ------------------------------
(***************************************************************************)
(* What the answer to one RTGS transfer means: backend/ledger/rtgs         *)
(* (dispatcher.py, gateways.py) on KLIK's side, rtgs_mock/main.py on the   *)
(* side of SORBNET3 and CHAPS.  TARGET2 and FedNow are services outside    *)
(* the repository, taken as the gateways' documentation describes them.    *)
(*                                                                         *)
(* A reply is the status code of the HTTP answer, 0 when none arrives, and *)
(* the word in its body that decides; `booked` says whether the rail       *)
(* executed the transfer.                                                  *)
(***************************************************************************)
EXTENDS Naturals

Zones == {"PL", "EU", "UK", "US"}

(* RTGSDispatcher.from_settings *)
RailOf(zone) ==
  CASE zone = "PL" -> "SORBNET3"
    [] zone = "EU" -> "TARGET2"
    [] zone = "UK" -> "CHAPS"
    [] zone = "US" -> "FedNow"

(* Banks without BIC and IBAN, or RTN and account, get no transfer there *)
NeedsIdentifiers(rail) == rail \in {"TARGET2", "FedNow"}

-----------------------------------------------------------------------------
(* What a rail answers, and whether it has booked the transfer then *)

Answer(code, word, booked) == [code |-> code, word |-> word, booked |-> booked]

(* The blacklist and the random failure answer FAILED, the injected timeout *)
(* is a 504.  The replay of a transfer_id never happens: KLIK sends each    *)
(* transfer once.                                                           *)
MockAnswers == {Answer(504, "none", FALSE), Answer(200, "FAILED", FALSE),
                Answer(200, "SUCCESS", TRUE)}

(* pain.002: settled, rejected, pending and settled or not afterwards; an   *)
(* unreadable report may be about either.                                   *)
TargetAnswers ==
  {Answer(200, word, TRUE) : word \in {"ACSC", "ACCC", "PDNG", "unreadable"}}
    \cup {Answer(200, word, FALSE) : word \in {"RJCT", "PDNG", "unreadable"}}
    \cup {Answer(400, "none", FALSE)}

(* /collect: "received and sent" settles, another status or a 400 does not; *)
(* a 200 whose body names no status may be about either.                    *)
Silent == {"none", "unreadable"}

FedNowAnswers ==
  {Answer(200, word, TRUE) : word \in Silent \cup {"received and sent"}}
    \cup {Answer(200, word, FALSE) : word \in Silent \cup {"rejected"}}
    \cup {Answer(400, "none", FALSE)}

Answers(rail) ==
  IF rail = "TARGET2" THEN TargetAnswers
  ELSE IF rail = "FedNow" THEN FedNowAnswers
  ELSE MockAnswers

(* The request or the answer is lost, or comes after timeout_seconds *)
Replies(rail) ==
  Answers(rail) \cup {Answer(0, "none", FALSE)}
    \cup {Answer(0, "none", answer.booked) : answer \in Answers(rail)}

-----------------------------------------------------------------------------
(* _settle_one and the parsers: the status of the TransferResult *)

TransferStatus == {"SUCCESS", "FAILED", "TIMEOUT"}

(* No status, an unknown one or a body that is no JSON is FAILED *)
ParseMock(word) == IF word \in TransferStatus THEN word ELSE "FAILED"

ParseTarget(word) == IF word \in {"ACSC", "ACCC"} THEN "SUCCESS" ELSE "FAILED"

(* A mutant: any 200 is a receipt. *)
AnyReceipt(word) == "SUCCESS"

(* A 200 without a readable status counts as "received" *)
ParseCollect(word) ==
  IF word \in {"received and sent"} \cup Silent THEN "SUCCESS" ELSE "FAILED"

Parse(rail, word) ==
  IF rail = "TARGET2" THEN ParseTarget(word)
  ELSE IF rail = "FedNow" THEN ParseCollect(word)
  ELSE ParseMock(word)

StatusOf(rail, reply) ==
  IF reply.code = 0 THEN "TIMEOUT"
  ELSE IF reply.code >= 400 THEN "FAILED"
  ELSE Parse(rail, reply.word)

(* The rail named no status and the gateway reads that as a receipt *)
Presumes(rail, reply) == rail = "FedNow" /\ reply.code = 200 /\ reply.word \in Silent

(* What became of a transfer: booked or not, SUCCESS or not for KLIK, and   *)
(* whether that SUCCESS was only presumed                                   *)
Outcome(booked, success, presumed) ==
  [booked |-> booked, success |-> success, presumed |-> presumed]

Outcomes(rail, named) ==
  IF NeedsIdentifiers(rail) /\ ~ named
    THEN {Outcome(FALSE, FALSE, FALSE)}
    ELSE {Outcome(reply.booked, StatusOf(rail, reply) = "SUCCESS", Presumes(rail, reply)) :
            reply \in Replies(rail)}
=============================================================================
