------------------------------- MODULE Cheques -------------------------------
(***************************************************************************)
(* Cheques: backend/cheques (views.py, tasks.py), the booking of a         *)
(* redeemed cheque in ledger_service.py, and the side of the issuing bank  *)
(* in src/bank_IO/backend/main.py.                                         *)
(*                                                                         *)
(* The bank's application registers a cheque with KLIK, then holds the     *)
(* customer's money.  An agent redeems the cheque by its code: one         *)
(* database transaction pays it, and the booking, the webhook and the kept *)
(* answer follow it one by one.  The bank may cancel a cheque and the      *)
(* sweep expires it; both tell the bank to release the money.  The bank's  *)
(* application waits for KLIK without serving anyone else.                 *)
(*                                                                         *)
(* A request reads the clock before it locks the cheque.  Time is the set  *)
(* of the cheques whose expires_at has passed: a reading of the clock is   *)
(* that set at the moment of the reading.                                  *)
(***************************************************************************)
EXTENDS Fees, Sequences, FiniteSets, Functions

CONSTANTS
  Bank,          \* banks that issue cheques
  Agent,         \* payment agents
  ZoneOf,        \* the zone of each bank and agent
  MerchantBank,  \* the bank that settles for the merchant of each agent
  Agreements,    \* the MSC agreements of each agent, one after the other,
                 \* each in a set of its own; {} when there is none
  Cheque,        \* what customers order: at most one cheque each,
  BankOf,        \* from this bank,
  AmountOf,      \* for this amount
  Code,          \* cheque codes, and
  NoCode,        \* none
  Key,           \* idempotency keys
  Request,       \* calls of POST /cheques/redeem
  AgentOf,       \* who makes each request,
  KeyOf,         \* under which idempotency key,
  CodeOf,        \* with which code
  NoRequest,     \* none of them
  Funds,         \* what the customers of each bank have at first
  MaxRetries,    \* max_retries of the webhook tasks (3)
  MaxFaults      \* bound: lost calls and answers, processes that die

ASSUME ChequesAssumption ==
  /\ MerchantBank \in [Agent -> Bank]
  /\ \A a \in Agent : /\ Agreements[a] \in Seq(SUBSET Agreement)
                      /\ Len(Agreements[a]) > 0
  /\ BankOf \in [Cheque -> Bank]
  /\ AmountOf \in [Cheque -> Nat \ {0}]
  /\ NoCode \notin Code
  /\ AgentOf \in [Request -> Agent]
  /\ KeyOf \in [Request -> Key]
  /\ CodeOf \in [Request -> Code]
  /\ NoRequest \notin Request
  /\ Funds \in [Bank -> Nat]
  /\ {MaxRetries, MaxFaults} \subseteq Nat

VARIABLES
  issue,         \* where KLIK is in ChequeIssueView.post for each cheque
  code,          \* the code drawn for each cheque
  status,        \* PostgreSQL: the status of each cheque
  due,           \* the cheques whose expires_at has passed
  by,            \* PostgreSQL: the transaction of each cheque, known by
                 \* the request that created it
  term,          \* the agreement in force of each agent
  at,            \* where each request is in ChequeRedeemView.post
  seen,          \* the clock as each request has read it
  won,           \* the split of the transaction that each request created
  entry,         \* PostgreSQL: the ledger entries of each transaction
  logged,        \* requests whose booking failed, according to the log
  kept,          \* Redis: requests whose answers are kept
  cancel,        \* where KLIK is in ChequeCancelView.post for each cheque
  swept,         \* cheques expired by expire_due_cheques, not yet announced
  note,          \* Celery: notify_cheque_redeemed and notify_cheque_released
  waiting,       \* calls that the banks' applications wait for
  local,         \* the status of each cheque at its bank
  debit,         \* what the customer has given for it
  faults         \* lost calls and answers and dead processes so far

issuing   == <<issue, code>>
redeeming == <<at, seen, won, entry, logged, kept>>
bank      == <<waiting, local, debit>>
vars == <<issuing, status, due, by, term, redeeming, cancel, swept, note, bank, faults>>

Outcomes == {"REDEEMED", "CANCELLED", "EXPIRED"}
Statuses == {"none", "ACTIVE"} \cup Outcomes
Nothing  == [klik |-> 0, agent |-> 0, net |-> 0]
Shares   == [klik : Nat, agent : Nat, net : Nat]
Note     == [cheque : Cheque, news : Outcomes, tries : 0 .. MaxRetries]
Refusals == {"expired", "refused", "conflict", "error"}

TypeOK ==
  /\ issue \in [Cheque -> {"idle", "draw", "insert", "reply", "done", "dead"}]
  /\ code \in [Cheque -> Code \cup {NoCode}]
  /\ status \in [Cheque -> Statuses]
  /\ due \subseteq Cheque
  /\ by \in [Cheque -> Request \cup {NoRequest}]
  /\ term \in [Agent -> Nat \ {0}] /\ \A a \in Agent : term[a] <= Len(Agreements[a])
  /\ at \in [Request -> {"idle", "lock", "book", "insert", "announce", "remember",
                         "answered", "replayed", "dead"} \cup Refusals]
  /\ seen \in [Request -> SUBSET Cheque]
  /\ won \in [Request -> Shares]
  /\ entry \in [Request -> Shares]
  /\ logged \subseteq Request
  /\ kept \subseteq Request
  /\ cancel \in [Cheque -> {"idle", "lock", "announce", "ok", "refused", "dead"}]
  /\ swept \subseteq Cheque
  /\ note \subseteq Note
  /\ waiting \subseteq {"issue", "cancel"} \X Cheque
  /\ local \in [Cheque -> Statuses]
  /\ debit \in [Cheque -> Int]
  /\ faults \in 0 .. MaxFaults

Init ==
  /\ issue = [c \in Cheque |-> "idle"] /\ code = [c \in Cheque |-> NoCode]
  /\ status = [c \in Cheque |-> "none"] /\ due = {} /\ by = [c \in Cheque |-> NoRequest]
  /\ term = [a \in Agent |-> 1]
  /\ at = [r \in Request |-> "idle"] /\ seen = [r \in Request |-> {}]
  /\ won = [r \in Request |-> Nothing] /\ entry = [r \in Request |-> Nothing]
  /\ logged = {}
  /\ kept = {} /\ cancel = [c \in Cheque |-> "idle"] /\ swept = {} /\ note = {}
  /\ waiting = {} /\ local = [c \in Cheque |-> "none"] /\ debit = [c \in Cheque |-> 0]
  /\ faults = 0

Fault == faults < MaxFaults /\ faults' = faults + 1

-----------------------------------------------------------------------------
(* The bank's application: one call at a time *)

Busy(b) == \E call \in waiting : BankOf[call[2]] = b

(* The cheques that the application has a row of *)
HeldBy(b) == {c \in Cheque : BankOf[c] = b /\ local[c] # "none"}

Balance(b) == Funds[b] - SumFunctionOnSet(debit, HeldBy(b))

Covered(c) == Balance(BankOf[c]) >= AmountOf[c]

(* api_issue_cheque, up to its call of KLIK *)
OrderCheque(c) ==
  /\ issue[c] = "idle" /\ ~Busy(BankOf[c]) /\ Covered(c)
  /\ issue' = [issue EXCEPT ![c] = "draw"]
  /\ waiting' = waiting \cup {<<"issue", c>>}
  /\ UNCHANGED <<code, status, due, by, term, redeeming, cancel, swept, note, local, debit,
                 faults>>

(* api_issue_cheque, from KLIK's answer: only now the money is held *)
HoldMoney(c) ==
  /\ <<"issue", c>> \in waiting /\ issue[c] = "reply"
  /\ waiting' = waiting \ {<<"issue", c>>}
  /\ issue' = [issue EXCEPT ![c] = "done"]
  /\ local' = [local EXCEPT ![c] = "ACTIVE"]
  /\ debit' = [debit EXCEPT ![c] = @ + AmountOf[c]]
  /\ UNCHANGED <<code, status, due, by, term, redeeming, cancel, swept, note, faults>>

(* api_cancel_cheque, up to its call of KLIK *)
AskCancel(c) ==
  /\ local[c] = "ACTIVE" /\ ~Busy(BankOf[c]) /\ cancel[c] \in {"idle", "ok", "refused", "dead"}
  /\ cancel' = [cancel EXCEPT ![c] = "lock"]
  /\ waiting' = waiting \cup {<<"cancel", c>>}
  /\ UNCHANGED <<issuing, status, due, by, term, redeeming, swept, note, local, debit,
                 faults>>

(* api_cancel_cheque, from KLIK's answer *)
CancelAnswered(c) ==
  /\ <<"cancel", c>> \in waiting /\ cancel[c] \in {"ok", "refused"}
  /\ waiting' = waiting \ {<<"cancel", c>>}
  /\ local' = IF cancel[c] = "ok" THEN [local EXCEPT ![c] = "CANCELLED"] ELSE local
  /\ UNCHANGED <<issuing, status, due, by, term, redeeming, cancel, swept, note, debit,
                 faults>>

(* _klik_post gives up, whatever KLIK has done or will still do *)
GiveUp(call) ==
  /\ call \in waiting /\ Fault
  /\ waiting' = waiting \ {call}
  /\ UNCHANGED <<issuing, status, due, by, term, redeeming, cancel, swept, note, local,
                 debit>>

-----------------------------------------------------------------------------
(* POST /cheques/issue *)

Active(n) == {c \in Cheque : code[c] = n /\ status[c] = "ACTIVE"}

(* The loop of ten draws avoids the codes of ACTIVE cheques, unless every  *)
(* draw was one of them                                                    *)
DrawCode(c, n) ==
  /\ issue[c] = "draw"
  /\ n \in Code
  /\ code' = [code EXCEPT ![c] = n]
  /\ issue' = [issue EXCEPT ![c] = "insert"]
  /\ UNCHANGED <<status, due, by, term, redeeming, cancel, swept, note, bank, faults>>

(* Cheque.objects.create; no constraint keeps the code of ACTIVE cheques unique *)
InsertCheque(c) ==
  /\ issue[c] = "insert"
  /\ status' = [status EXCEPT ![c] = "ACTIVE"]
  /\ issue' = [issue EXCEPT ![c] = "reply"]
  /\ UNCHANGED <<code, due, by, term, redeeming, cancel, swept, note, bank, faults>>

CrashIssue(c) ==
  /\ issue[c] \in {"draw", "insert", "reply"} /\ Fault
  /\ issue' = [issue EXCEPT ![c] = "dead"]
  /\ UNCHANGED <<code, status, due, by, term, redeeming, cancel, swept, note, bank>>

(* The clock passes the expires_at of a cheque *)
Lapse(c) ==
  /\ status[c] # "none" /\ c \notin due
  /\ due' = due \cup {c}
  /\ UNCHANGED <<issuing, status, by, term, redeeming, cancel, swept, note, bank, faults>>

-----------------------------------------------------------------------------
(* POST /cheques/redeem *)

Advance(r, stage) == at' = [at EXCEPT ![r] = stage]

SameOrder(q, r) == AgentOf[q] = AgentOf[r] /\ KeyOf[q] = KeyOf[r]

(* idempotent_endpoint, and timezone.now() before the lock *)
Receive(r) ==
  /\ at[r] = "idle"
  /\ LET earlier == {q \in kept : SameOrder(q, r)}
     IN  \/ /\ earlier = {}
            /\ Advance(r, "lock") /\ seen' = [seen EXCEPT ![r] = due]
         \/ \E q \in earlier :
              /\ Advance(r, IF CodeOf[q] = CodeOf[r] THEN "replayed" ELSE "conflict")
              /\ UNCHANGED seen
  /\ UNCHANGED <<issuing, status, due, by, term, won, entry, logged, kept, cancel, swept, note,
                 bank, faults>>

Terms(r) == Agreements[AgentOf[r]][term[AgentOf[r]]]

(* A mutant: no unique constraint on the transactions. *)
NeverTaken(r) == FALSE

(* tx_unique_agent_idempotency *)
Taken(r) == \E q \in Request : won[q] # Nothing /\ SameOrder(q, r)

Refused(r, c) ==
  \/ ZoneOf[BankOf[c]] # ZoneOf[AgentOf[r]]
  \/ Terms(r) = {}
  \/ Taken(r)

(* A mutant: the lock excludes redeemed cheques only. *)
NotYetRedeemed(r) ==
  {c \in Cheque : code[c] = CodeOf[r] /\ status[c] \notin {"none", "REDEEMED"}}

(* select_for_update().get(code, ACTIVE) *)
Found(r) == Active(CodeOf[r])

(* Two equal announcements are one: a second call changes nothing at the bank *)
Announcement(c, news) == [cheque |-> c, news |-> news, tries |-> 0]

(* An expired cheque: the exception rolls EXPIRED back, the webhook is sent *)
FoundExpired(r) ==
  /\ at[r] = "lock"
  /\ \E c \in seen[r] : /\ Found(r) = {c}
                        /\ note' = note \cup {Announcement(c, "EXPIRED")}
  /\ Advance(r, "expired")
  /\ UNCHANGED <<issuing, status, due, by, term, seen, won, entry, logged, kept, cancel, swept,
                 bank, faults>>

(* No ACTIVE cheque, two of them (get fails), or one that cannot be paid *)
NotRedeemed(r) ==
  /\ at[r] = "lock"
  /\ \/ Cardinality(Found(r)) # 1 /\ Advance(r, "error")
     \/ \E c \in Cheque \ seen[r] :
          Found(r) = {c} /\ Refused(r, c) /\ Advance(r, "refused")
  /\ UNCHANGED <<issuing, status, due, by, term, seen, won, entry, logged, kept, cancel, swept,
                 note, bank, faults>>

(* The transaction and the cheque are written together *)
Redeem(r) ==
  /\ at[r] = "lock"
  /\ \E c \in Found(r) \ seen[r], msc \in Terms(r) :
       /\ Found(r) = {c} /\ ~Refused(r, c)
       /\ status' = [status EXCEPT ![c] = "REDEEMED"]
       /\ by' = [by EXCEPT ![c] = r]
       /\ won' = [won EXCEPT ![r] = Split(msc, AmountOf[c])]
  /\ Advance(r, "book")
  /\ UNCHANGED <<issuing, due, term, seen, entry, logged, kept, cancel, swept, note, bank,
                 faults>>

-----------------------------------------------------------------------------
(* LedgerService.record_c2b_transaction, after the commit *)

ChequeOf(r) == CHOOSE c \in Cheque : by[c] = r

OnUs(r) == BankOf[ChequeOf(r)] = MerchantBank[AgentOf[r]]

(* Entries with this source_ref exist, whoever's they are *)
RefUsed(r) == \E q \in Request : entry[q] # Nothing /\ KeyOf[q] = KeyOf[r]

LookForEntries(r) ==
  /\ at[r] = "book"
  /\ Advance(r, IF RefUsed(r) THEN "announce" ELSE "insert")
  /\ UNCHANGED <<issuing, status, due, by, term, seen, won, entry, logged, kept, cancel, swept,
                 note, bank, faults>>

(* A mutant: the split is computed again when it is booked. *)
LegsByTerms(r) == Split(CHOOSE msc \in Terms(r) : TRUE, AmountOf[ChequeOf(r)])

(* merchant_net between two banks only; fees of 0 make no entry *)
Legs(r) == [won[r] EXCEPT !.net = IF OnUs(r) THEN 0 ELSE @]

(* The CHECK of the ledger refuses an entry of 0 *)
LedgerRefuses(r) == ~OnUs(r) /\ won[r].net <= 0

(* All entries in one database transaction *)
Book(r) ==
  /\ at[r] = "insert" /\ ~LedgerRefuses(r)
  /\ entry' = [entry EXCEPT ![r] = Legs(r)]
  /\ Advance(r, "announce")
  /\ UNCHANGED <<issuing, status, due, by, term, seen, won, logged, kept, cancel, swept, note,
                 bank, faults>>

(* Any exception, of the ledger or of the database, is logged and swallowed *)
BookingFails(r) ==
  /\ \/ at[r] = "insert" /\ LedgerRefuses(r) /\ UNCHANGED faults
     \/ at[r] \in {"book", "insert"} /\ Fault
  /\ logged' = logged \cup {r}
  /\ Advance(r, "announce")
  /\ UNCHANGED <<issuing, status, due, by, term, seen, won, entry, kept, cancel, swept, note,
                 bank>>

Announce(r) ==
  /\ at[r] = "announce"
  /\ note' = note \cup {Announcement(ChequeOf(r), "REDEEMED")}
  /\ Advance(r, "remember")
  /\ UNCHANGED <<issuing, status, due, by, term, seen, won, entry, logged, kept, cancel, swept,
                 bank, faults>>

(* idempotent_endpoint keeps the answer, then sends it *)
Remember(r) ==
  /\ at[r] = "remember"
  /\ kept' = kept \cup {r}
  /\ Advance(r, "answered")
  /\ UNCHANGED <<issuing, status, due, by, term, seen, won, entry, logged, cancel, swept, note,
                 bank, faults>>

CrashRequest(r) ==
  /\ at[r] \in {"lock", "book", "insert", "announce", "remember"} /\ Fault
  /\ Advance(r, "dead")
  /\ UNCHANGED <<issuing, status, due, by, term, seen, won, entry, logged, kept, cancel, swept,
                 note, bank>>

(* The agreement in force ends and the next one begins *)
ChangeTerms(a) ==
  /\ term[a] < Len(Agreements[a])
  /\ term' = [term EXCEPT ![a] = @ + 1]
  /\ UNCHANGED <<issuing, status, due, by, redeeming, cancel, swept, note, bank, faults>>

-----------------------------------------------------------------------------
(* POST /cheques/cancel *)

Cancel(c) ==
  /\ cancel[c] = "lock"
  /\ IF status[c] = "ACTIVE"
       THEN /\ status' = [status EXCEPT ![c] = "CANCELLED"]
            /\ cancel' = [cancel EXCEPT ![c] = "announce"]
       ELSE cancel' = [cancel EXCEPT ![c] = "refused"] /\ UNCHANGED status
  /\ UNCHANGED <<issuing, due, by, term, redeeming, swept, note, bank, faults>>

AnnounceCancelled(c) ==
  /\ cancel[c] = "announce"
  /\ note' = note \cup {Announcement(c, "CANCELLED")}
  /\ cancel' = [cancel EXCEPT ![c] = "ok"]
  /\ UNCHANGED <<issuing, status, due, by, term, redeeming, swept, bank, faults>>

CrashCancel(c) ==
  /\ cancel[c] \in {"lock", "announce"} /\ Fault
  /\ cancel' = [cancel EXCEPT ![c] = "dead"]
  /\ UNCHANGED <<issuing, status, due, by, term, redeeming, swept, note, bank>>

-----------------------------------------------------------------------------
(* expire_due_cheques: it lists the cheques, then locks them one by one *)

(* A mutant: the status is not read again under the lock. *)
StillListed(c) == status[c] # "none"

StillActive(c) == status[c] = "ACTIVE"

Expire(c) ==
  /\ c \in due /\ StillActive(c)
  /\ status' = [status EXCEPT ![c] = "EXPIRED"]
  /\ swept' = swept \cup {c}
  /\ UNCHANGED <<issuing, due, by, term, redeeming, cancel, note, bank, faults>>

AnnounceExpired(c) ==
  /\ c \in swept
  /\ note' = note \cup {Announcement(c, "EXPIRED")}
  /\ swept' = swept \ {c}
  /\ UNCHANGED <<issuing, status, due, by, term, redeeming, cancel, bank, faults>>

(* The worker dies between the commit and the webhook *)
CrashSweep(c) ==
  /\ c \in swept /\ Fault
  /\ swept' = swept \ {c}
  /\ UNCHANGED <<issuing, status, due, by, term, redeeming, cancel, note, bank>>

-----------------------------------------------------------------------------
(* notify_cheque_redeemed, notify_cheque_released and their webhooks *)

Again(n) == IF n.tries < MaxRetries THEN {[n EXCEPT !.tries = @ + 1]} ELSE {}

(* A mutant: the money is returned whatever the bank knows of the cheque. *)
Returns(n) == n.news # "REDEEMED" /\ local[n.cheque] # "none"

(* webhook_cheque_released returns the money of a cheque that is ACTIVE here *)
Released(n) == n.news # "REDEEMED" /\ local[n.cheque] = "ACTIVE"

(* webhook_cheque_redeemed *)
Paid(n) == n.news = "REDEEMED" /\ local[n.cheque] # "none"

(* The bank hears of a cheque; its answer may be lost, and the call repeated *)
Notify(n) ==
  /\ n \in note /\ ~Busy(BankOf[n.cheque])
  /\ local' = IF Paid(n) \/ Released(n) THEN [local EXCEPT ![n.cheque] = n.news] ELSE local
  /\ debit' = IF Released(n) THEN [debit EXCEPT ![n.cheque] = @ - AmountOf[n.cheque]] ELSE debit
  /\ \/ note' = note \ {n} /\ UNCHANGED faults
     \/ note' = (note \ {n}) \cup Again(n) /\ Fault
  /\ UNCHANGED <<issuing, status, due, by, term, redeeming, cancel, swept, waiting>>

(* The call does not get through, or the worker dies and the task with it *)
NotifyFails(n) ==
  /\ n \in note /\ Fault
  /\ \E left \in {Again(n), {}} : note' = (note \ {n}) \cup left
  /\ UNCHANGED <<issuing, status, due, by, term, redeeming, cancel, swept, bank>>

-----------------------------------------------------------------------------
Next ==
  \/ \E c \in Cheque :
       \/ OrderCheque(c) \/ HoldMoney(c) \/ AskCancel(c) \/ CancelAnswered(c)
       \/ \E n \in Code : DrawCode(c, n)
       \/ InsertCheque(c) \/ CrashIssue(c) \/ Lapse(c)
       \/ Cancel(c) \/ AnnounceCancelled(c) \/ CrashCancel(c)
       \/ Expire(c) \/ AnnounceExpired(c) \/ CrashSweep(c)
  \/ \E call \in waiting : GiveUp(call)
  \/ \E r \in Request :
       \/ Receive(r) \/ FoundExpired(r) \/ NotRedeemed(r) \/ Redeem(r)
       \/ LookForEntries(r) \/ Book(r) \/ BookingFails(r)
       \/ Announce(r) \/ Remember(r) \/ CrashRequest(r)
  \/ \E a \in Agent : ChangeTerms(a)
  \/ \E n \in note : Notify(n) \/ NotifyFails(n)

Spec == Init /\ [][Next]_vars

-----------------------------------------------------------------------------
(* Requests of one agent under one key redeem one cheque, however they     *)
(* overlap or crash, and although the code may meanwhile name another      *)
(* cheque.                                                                 *)
OneChequePerOrder ==
  \A c, d \in Cheque :
    by[c] # NoRequest /\ by[d] # NoRequest /\ SameOrder(by[c], by[d]) => c = d

(* The transaction of a request and the REDEEMED status of a cheque stand   *)
(* or fall together: whatever sweep, cancellation or other redemption ran   *)
(* at the same time, a merchant is paid the whole of a cheque that nobody   *)
(* else was paid.                                                          *)
PaidFromItsCheque ==
  \A r \in Request : won[r] # Nothing =>
    \E c \in Cheque : /\ by[c] = r /\ status[c] = "REDEEMED"
                      /\ won[r].klik + won[r].agent + won[r].net = AmountOf[c]

BookedInFull(r) ==
  /\ entry[r].klik = won[r].klik /\ entry[r].agent = won[r].agent
  /\ OnUs(r) \/ entry[r].net = won[r].net

(* A redeemed cheque is booked in full, at the terms of the moment it was  *)
(* redeemed, before its bank is told and the agent is answered, or nothing  *)
(* of it is.  Nothing is booked only if the log says so, or if a request of *)
(* another agent had booked under the same idempotency key.  (The docs,     *)
(* e.g. docs/cheques/diagrams/WORKFLOW.md:197, go further: they have the    *)
(* entries in the transaction of the redemption; the code does not.)        *)
AnsweredIsBooked ==
  \A r \in Request : at[r] \in {"announce", "remember", "answered"} =>
    \/ BookedInFull(r)
    \/ /\ entry[r] = Nothing
       /\ \/ r \in logged
          \/ \E q \in Request \ {r} : entry[q] # Nothing /\ KeyOf[q] = KeyOf[r]

(* A cheque whose money the bank has given back pays nobody, before or     *)
(* after, with one exception: a request that read the clock before the     *)
(* cheque expired and locked it after another one had found it expired.    *)
RefundedNotRedeemed ==
  \A c \in Cheque :
    local[c] # "none" /\ debit[c] = 0 /\ status[c] = "REDEEMED" =>
      /\ c \in due \ seen[by[c]]
      /\ \E r \in Request : at[r] = "expired" /\ c \in seen[r]

(* The bank checks the balance before it calls KLIK and takes the money     *)
(* after the answer: the balance is never negative, and no cheque gives     *)
(* back more than it took.                                                 *)
NeverOverdrawn ==
  /\ \A b \in Bank : Balance(b) >= 0
  /\ \A c \in Cheque : debit[c] >= 0
=============================================================================
