# KLIK payments in TLA+

A verification project for the KLIK payment system (`src/`): a Django and Celery
backend that issues six digit payment codes, runs payments by code, electronic cheques,
recurring orders and telephone aliases, keeps a ledger of what banks owe each other, and
settles it through the RTGS system of each currency zone.

## 1. The system

| Part | State | Operations | Hard behaviour | What makes it correct |
|---|---|---|---|---|
| Netting `ledger/services/netting.py` | none (pure) | positions, greedy matching | remainder, ties, loop exit | every bank's position is preserved with few transfers |
| Settlement `ledger/tasks.py`, `ledger_service.py` | sessions, entries, transfers (PostgreSQL) | open, assign, net, dispatch, close | several tasks at once, a commit per step, worker death | an entry is cleared once; COMPLETED means that the money moved |
| RTGS dispatch `ledger/rtgs` | none; the RTGS books transfers | healthcheck, settle one by one | lost, late and malformed answers | only what a rail answered, and its gateway reads as SUCCESS, counts |
| Payment by code `codes/` | codes and statuses (Redis), transactions (PostgreSQL), webhook tasks (Celery) | generate, initiate, authorize webhook, confirm, status | a view that writes to three stores in turn, retries, stale reads | a code and an order pay once; booked exactly when accepted |
| Idempotency `common/idempotency.py` | answers kept in Redis for 24 h | wraps POST endpoints | look, act and write in three steps | the same order is told the same transaction |
| Bank application `bank_IO/backend` | pending authorizations, balances, cheque holds | webhooks, accept, reject | one call at a time; answers of KLIK are lost | the payer is debited only for what KLIK completed |
| Agents `agents/` | MSC agreements | active agreement, split | rounding; overlap checked, then saved | the parts add up to the amount |
| Cheques `cheques/` | cheques, transactions; a hold at the bank | issue, redeem, cancel, expire | redeem against cancel and expiry, a clock read before the lock, webhooks out of order, a webhook of a transaction that is rolled back, booking after the commit | a transaction is of its own cheque; money given back is not paid out; what was not booked is in the log |
| Recurring orders `recurring/` | mandates, executions; the mandate at the bank | create, pause, resume, cancel, dispatch, execute | jobs queued twice, a clock read before the lock, retries, a mandate changed meanwhile, a death after the claim, notices that are late or ahead of their commit | a slot runs once; what is recorded was paid; an end is final |
| Schedule `recurring/schedule.py` | none (pure) | first and next run, number of runs | short months, estimate and correction | the next run is the first slot |
| P2P fees `ledger_service.py` | lookup counters (Redis), entries | count, accrue daily | read, bill and delete counter by counter, commit at the end | nobody is billed more than it asked |
| Aliases `aliases/` | telephone to account (PostgreSQL) | register, look up, unregister | check, then insert; find, then delete; lost answers | what a bank lists is its own |
| Banks, merchants, authentication, admin, front ends | configuration | CRUD | none of their own | not modelled |

How they interact: the agent's terminal calls `POST /payments/initiate`; the view burns
the code in Redis, inserts a transaction, and queues a Celery task, which calls the webhook
of the payer's bank; the bank's application later calls `POST /payments/confirm`, whose
database transaction decides the payment and inserts its ledger entries; Beat, or the
operator, starts `run_settlement_session` for a zone, which gathers the entries of the
zone, nets them, sends transfers to the RTGS and settles the entries.  Nothing but the
database, Redis and the broker is shared.  There is no `ATOMIC_REQUESTS`, PostgreSQL runs
at READ COMMITTED, and Celery acknowledges a task when it starts, so a task whose worker
dies is lost.

Cheques and standing orders follow the same pattern: the bank's application calls KLIK to
issue or to order, KLIK decides in a database transaction under the lock of a row, and what
follows the commit (booking, webhooks, the kept answer, the retries of a task) is done step
by step by whoever is still alive.  The bank's application is one process that handles
nothing while it waits for KLIK.

## 2. Modules

| Module | Role | Status |
|---|---|---|
| `Netting` | `netting.py` as operators | done |
| `NettingLoop` | the loop of `greedy_match` as a state machine, against a definition without a loop | done |
| `NettingLemmas` | lemmas about the operators of `Netting`, and the theorem on `net_obligations` | done |
| `NettingProofs` | proofs about `NettingLoop` | done |
| `Clearing` | abstract: what settlement promises | done |
| `Settlement` | sessions, the task, the RTGS exchange | done |
| `SettlementProofs` | proofs about `Settlement`: types, safety invariants, action properties, refinement of `Clearing`, the money moved | done |
| `Payment` | abstract: what a payment promises | done |
| `Payments` | codes, initiate, webhook task, confirm, the bank's application | done |
| `PaymentsProofs` | proofs about `Payments`, without and with conditions; refinement of `Payment` | done |
| `Gateways` | what the answer of a rail means; part of `Settlement` | done |
| `Fees` | the split of a payment; part of `Cheques` | done |
| `Cheques` | cheques, their redemption and booking, the bank's hold, webhooks, the sweep | done |
| `ChequesProofs` | proofs about `Cheques` | done |
| `Lookups` | the registry of numbers, the counters of lookups, the accrual | done |
| `LookupsProofs` | proofs about `Lookups` | done |
| `Schedule` | `schedule.py` as operators, and the calendar read day by day; part of `Recurring` | done |
| `Recurring` | a standing order: dispatch, claim, execution, the bank's application and its notices | done |
| `RecurringProofs` | proofs about `Schedule` and `Recurring` | done |
| `SeqLemmas` | facts about sequences that stand for tables | done |
| `MC*` | constant values for TLC | done |

### Plan

Everything that the plan named is modelled: settlement and payment by code, then cheques
with the split, recurring orders with their calendar, and the registry with its fees.  What
is left: a composition of `Payments`, `Cheques` and `Settlement` over one ledger.  They meet
only where entries are inserted and where settlement gathers them, and `Settlement` already
lets entries arrive at any moment (`RecordEntry`), so a composition would show little that
the parts do not.

## 3. Correspondence

**Netting.** A list of obligations is a sequence of records, the dict of positions is the
sequence of its items in insertion order, and a side of the market is the sequence of its
accounts with what is left on each.  `Sorted(S, R)` is the list of `S` in the order `R`, a
strict total order given as a set of pairs: `Decreasing` puts the larger amount first, and of
equal ones the bank mentioned first, as a stable `sorted(..., reverse=True)` does.
`NettingLoop` makes one step per iteration of the `while`; `NetObligations` runs the loop to
its end and is what `Settlement` calls.

**Settlement.** `ledger`, `session` and `transfer` are the three tables, as sequences in
order of insertion; `pc`, `sid`, `seen`, `asked` and `granted` are the locals of each
running task (`asked` and `granted` are the results of the dispatcher); `executed` is what
the RTGS has booked, and `presumed` are transfers that KLIK takes for settled although the
answer named no status.  An action is a stretch of code between two points where somebody
else can commit: `create_session` and `assign_pending_entries_to_session` are database
transactions, but under READ COMMITTED each of their statements sees a new snapshot, so
each is two actions; `run_netting` reads only entries of its own session, and
`mark_settled` only rows of its own session, so each is one.  A transfer is sent in
`SettleOne(t, booked, success, silent)`: the RTGS books it or not, and the gateway reads the
answer as SUCCESS or not (`silent` if that answer named no status); every other answer or
error becomes FAILED.  `RTGSUnavailable` is the failed
healthcheck, before any transfer is sent.  `Crash` is a worker's death or an error that
nothing catches (an unknown zone, a database error).  Amounts are whole grosze; banks are
identified by model values; currency, names, dates and the wire formats are left out.

**Payments.** `code`, `idem` and `cache` are the Redis keys (`codes:*`, `idempotency:*`,
`tx:*`); `tx` and `entry` are rows, where `entry` has one element for the ledger entries of
a payment.  There are up to three of them, one for the merchant's bank if it is another
one, and one for each fee above 0, and `due` of a transaction says that there is any: a
payment within one bank (`onUs`) may cost nothing, and then no entry is made.
`record_c2b_transaction` makes none either if it finds entries of the same idempotency key
(`Booked`), which may be another agent's; two confirms that commit at once do not see each
other's, so both outcomes are possible. `at`, `held` and `mine` are the locals of each request;
`task[x]` is the webhook task of transaction `x` with its retry counter; `sent` and
`heard` are the webhook calls made and handled, so a call may be heard after KLIK stopped
waiting for it, or never; `confirm` holds the calls of `POST /payments/confirm`;
`pending`, `waiting`, `balance` and `charged` belong to the bank's application, which
blocks on its call to KLIK (`httpx.post` in an `async` handler), so that it handles
nothing while `waiting` is not 0; only its janitor, a thread of its own, still drops what
has expired (`ExpirePending`).  A customer types any code; amounts are all 1.  A code
keeps its `issue` number to tell two uses of one six digit number apart.  Read-only
endpoints (`/payments/status`, the history) change nothing and have no action; the replay
of `/codes/generate` changes nothing either.

**Gateways.** An answer of a rail is the code of the HTTP answer and the word in its body
that decides; the parsers of `gateways.py` are operators from that word to a status, and
`Outcomes(rail, named)` is what can have become of a transfer: booked or not, SUCCESS or
not for KLIK, and whether that SUCCESS was presumed.  `Settlement` draws each transfer from it.  SORBNET3 and CHAPS answer as
`rtgs_mock` does; TARGET2 and FedNow are outside the repository and answer as the
documentation of their gateways says.  A 200 without a readable status counts as SUCCESS for
FedNow and as FAILED elsewhere.  The docstring of `FedNowGateway` counts only "received and
sent" as success, so the model lets such a transfer be booked or not, and `Presumes` marks
it: settlement's properties say of it that KLIK took it for paid, not that it was.
A bank without the identifiers of such a rail gets no transfer.  KLIK
sends each transfer once, so the replay of a `transfer_id` in the mock is never reached, and
its blacklist and random failures are one nondeterministic FAILED.  The default
configuration points TARGET2 and FedNow at the mock, which has no health endpoint for them:
there, these zones always end in `RTGSUnavailable`.  A refused connection makes a message
longer than the column for it (`failure_reason`, 255 characters), an error that is part of
`Crash`.

**Cheques.** `issue`, `at` and `cancel` are where KLIK's three endpoints are with a call;
`code`, `status`, `by`, `won` and `entry` are the tables (`won` is the split stored with the
transaction of a request, `entry` its ledger entries by share); `kept` are the kept answers;
`logged` are the requests whose booking raised an exception; `seen` is the clock as a
request read it, before it locks the cheque.  Time is the set `due`
of cheques whose `expires_at` has passed, so each reading is a set of cheques and no bound
on time is needed.  `Redeem` is the database transaction of `ChequeRedeemView.post`; `LookForEntries` and
`Book`, the query and the inserts of `record_c2b_transaction`, `Announce` and `Remember` are
what follows its commit.  `BookingFails` is the `except Exception` around the booking: the
ledger refuses an entry of 0, or anything else goes wrong (a fault), and the view goes on
and answers 200.  `DrawCode` takes any code, also one that is taken: two banks may draw at
once, and after ten draws the last is used as it is.  `FoundExpired` is the branch that
raises in the transaction: the EXPIRED status is rolled back, the webhook is not.
`waiting`, `local` and `debit` are the bank's: the balance is looked at before KLIK is
called, the money is taken after the answer, and a release gives it back only to a cheque
that is ACTIVE at the bank.  The sweep locks each cheque by itself (`Expire`).  Each issue
has its own idempotency key, as the bank's application sends it, so the replay from the
database in `ChequeIssueView` is not reached; every bank has a webhook URL; two equal
webhooks in the queue are one, since the second changes nothing; a cheque has at most one
cancellation at a time.

**Recurring orders.** One mandate, with an end date.  `status`, `next` and `failed` are its
row; `exec[i]` is the i-th execution with its slot and result, and with the stage, retries
and answer of the task that has it; `jobs` are the `execute_recurring_run` of the mandate
that have not claimed or ended yet: how many are `free` to be queued and how many `queued`,
how many have `read` each time on the clock and ask for the lock, and whether one is about
to commit the `ends` of the mandate.
`late` are calls of the bank that KLIK no longer waits for; `note` are the webhook
tasks; `call[k]` is a call of the bank's application, with the time at which KLIK read the
clock; `local` and `revoked` are the mandate at the bank and `ran` its `executed_runs`.
`TakeJob` reads the clock, before the lock.  `Claim` is `_claim_execution` after that: one
transaction that locks the mandate, looks at its status and at `next_run_at` again, inserts
the execution and moves `next_run_at`.  `Drop` is the early returns.  The end date has two
steps: `FindEnd` queues the notice END_DATE_REACHED while the transaction is open, and
`Complete` commits or `RollBack` does not; in between the mandate is `Locked`, so whatever
needs its row waits, and the dispatcher skips it.  A bank without webhook URL is an
execution that fails with NETWORK_TIMEOUT without a call (`CallBank`).
`NoAnswer` is `task.retry`, which repeats the call with the
same execution, or writes NETWORK_TIMEOUT after the last attempt; whether Celery accepts the
retry is left open, as the code names `mandate_id` although the request has it by position.
A bank may reject for reasons that this repository's bank never gives (`Rejections`).
SCHEDULED and SKIPPED are never stored; the other notices are queued after the commit, in
one step with it, and `NotifyFails` loses them; the lookup of the recipient may fail,
and its fee is counted in `Lookups`.  A date is a number of days and a slot is an odd time
(`Schedule`); the months are a constant, so the calendar of a common and of a leap year are
two instances.

**Lookups.** `at` and `found` are where a registration or a deletion is in `AliasService`,
which checks before it inserts, and deletes by primary key what it found; `alias` are the
rows; `waits`, `lost` and `listed` belong to the bank's application.  `made` is what really
happened, kept to compare the bills with; `count` are the Redis counters by bank and day.
The accrual reads (`Bill`) and deletes (`Drop`) one counter after the other and commits its
entries at the end (`Commit`); `Fail` undoes the entries, not the deletions.  Runs of the
accrual follow each other, as a retry does.  Requests that are refused for their format
change nothing and are left out, and so is the time to live of a counter.

## 4. Runs

| Run | Question | Bounds |
|---|---|---|
| `netting_loop` | is the matching right? | 4 banks, amounts 1 and 3, 3 obligations (all lists, self-obligations and repeats included) |
| `settlement` | does a closed session mean what its status says? | 3 banks of the US, amounts 1 and 2, 3 entries, 1 task |
| `settlement_race` | two executions at once, in one zone or in two: who clears what, refinement of `Clearing`, and sessions end | 2 zones of 2 banks, 2 entries, 2 of 3 tasks (2 of one zone, 1 of the other), 1 crash |
| `payments_initiate` | is one order one payment, and on its way? | 3 requests under one key, 2 of them with one code, 2 issues of 2 numbers, 2 banks of different zones, 1 crash |
| `payments_confirm` | do bank, KLIK and Redis agree, is a decision final, and does the webhook task end? | 1 payment, 3 webhook attempts, 3 confirms, 2 units of money, 1 crash |
| `payments` | one payment per issue, booking, and refinement of `Payment` | 2 payments of 2 agents under one key with one code number, 2 issues, one bank, one merchant there and one elsewhere, 2 confirms |
| `cheques` | what can redemption, cancellation, sweep and webhooks do to each other? | 2 cheques of 1.00 and 0.01 with one code, 3 redemptions by 2 agents under one key (one is sent twice), an agreement that changes, merchants at the same and at another bank, 1 fault |
| `recurring` | what runs, is paid, ends and is shown? | 1 monthly mandate with 2 runs, months of 2, 1, 2 and 1 days, 3 times of the clock, 2 jobs, the order and one more call of the bank, 1 retry, a threshold of 2, money for one run, 1 fault; the calendar by ASSUMEs |
| `lookups` | who owns a number, who is billed? | 2 banks register 1 number, one deletes it twice; 3 lookups on 2 days; 2 faults |

Why these bounds: a netting with three obligations has debtors that pay several creditors,
ties, cycles that cancel and banks that drop out; `settlement` runs in the US, where one
of three banks lacks identifiers and FedNow has the most answers; two tasks are the race that
`create_session` is written for, or two zones over one ledger, and the second entry arrives
before, between or after the statements of either;
three webhook attempts give a late first attempt, a lost answer and a repeat; three confirms
give a lost answer, its repetition and a contradicting one; requests under one key with the
same code and with another one are answered by replay, by conflict, or not at all, and two
agents with one code number compete for an issue.  A cheque for 0.01 is all fee, so that
nothing is left to book for its merchant; two cheques with one code are what the draw of a
code allows after the first is not ACTIVE any more, or when two draws overlap; one fault is
a lost answer, a booking that raises, a death between commit and booking, or a lost webhook.  A mandate from the
second day of one month to the first, and last, day of the next has two slots, the second
clamped to that day; three times of the clock - before the first slot, between, and after
the end - make slots that are due at once; two jobs are the dispatcher that runs again
before a job has ended, and the second call is a pause, a cancellation, or the resume after
the mandate was paused for its failures; a threshold of two lets one failure count and the
next one pause.  The calendar is checked apart: for every start in the first 60 days of a
common and of a leap year and every time, the next slot is the first, and the number of
runs is that of the slots (both also proved for every calendar, section 6).  A fee of half a cent rounds to nothing once and
to two cents three times.  Tasks and requests happen once
and entries, issues, confirms and faults are counted, so every behaviour stops in the end:
`CHECK_DEADLOCK FALSE`.  Symmetry is used only in runs without liveness; netting breaks ties
by order of mention, never by the identity of a bank.

### Where the code and what is said of it differ

Three are runs that TLC must find violated; PROJECT.json quotes the lines.

| Run | What the code does |
|---|---|
| `settlement_two_sessions` | two active sessions in a zone: check and insert are not atomic |
| `settlement_unsettled` | the unsettled entries of a FAILED session keep its id, and `Pool` never selects them again, although two comments, two documents and a test say that they go to the next session |
| `payments_final` | a stale read turns COMPLETED into TIMEOUT (the bank lost its webhook_url between two attempts) |

The others show in the actions, or are named in the property they limit:

- `total_volume` misses an entry that is committed between the two statements of
  `assign_pending_entries_to_session` (`AssignAggregate`, `AssignUpdate`);
- nothing recovers a session whose worker died (`SessionEnds` needs a living worker);
- after the last retry of the webhook the transaction stays PENDING, not TIMEOUT:
  `self.retry(exc=exc)` raises `exc` itself (`RetryOrFail`).  Were it TIMEOUT, it could
  overwrite a decision: the mutant `RetryOrTimeout` breaks `DecisionIsFinal`.  A PENDING
  transaction that nobody confirms stays PENDING;
- a retry of `POST /payments/initiate` that overtakes the kept answer is told 409, since the
  first call has used the code (`Receive`, `MarkUsed`);
- a webhook that is repeated after the customer accepted puts the payment back on the bank's
  list, and a second accept, a replay for KLIK, debits the payer again;
  `DebitedOncePerPrompt` is the bound that does hold;
- ledger entries are looked up by the idempotency key alone (`Booked`, `RefUsed`), which is
  unique only per agent: a payment, or a cheque, of another agent under the same key may stay
  unbooked.  The documents ask for a UUID v4 for each request
  (`docs/c2b/integration/INFO.md:117`), but no code looks at it.  `BookedIfCompleted` asks
  for entries under the key of a payment, and `AnsweredIsBooked` names the case;
- a payment within one bank at an agreement of 0, or of an amount whose fees round to 0, is
  COMPLETED without entries (`Owed`);
- a cheque is booked after the commit of its redemption, any error of the booking is logged
  and swallowed (`BookingFails`), and the agent is told that the cheque is paid.
  `docs/cheques/diagrams/WORKFLOW.md:149-151` has the entries before the COMMIT, and line
  197 says: "Cała sekwencja od `BEGIN` do `COMMIT` jest atomowa — jednocześnie zmiana statusu
  czeku, INSERT Transaction, INSERT LedgerEntries. Brak ryzyka half-state."
  (`docs/cheques/integration/INFO.md:253` says the same of the request.)  That is not so.
  What does hold is `AnsweredIsBooked`: all or nothing is booked, and nothing only if the
  log says so or the key had been used.  A cheque that leaves nothing to a merchant at
  another bank always ends like this, as the ledger refuses its entry of 0;
- a FedNow answer of 200 that names no status counts as success (`Presumes`), although the
  docstring of `_parse_collect_response` counts "received and sent" only: such a session
  may be COMPLETED without the money having moved, and the properties say so;
- the code of ACTIVE cheques is said to be unique (`cheques/models.py`), but no index keeps
  it so (`DrawCode`, `InsertCheque`); with two of them `get` raises and neither can be
  redeemed until one of them ends (`NotRedeemed`);
- a request that read the clock before a cheque expired can still redeem it after another
  request found it expired and the bank gave the money back: the one exception in
  `RefundedNotRedeemed`;
- cancelling a cheque at the bank gives no money back: the docstring of `api_cancel_cheque`
  and the text of the customer's history say that the webhook releases the hold, but once
  the cancellation is answered the cheque is CANCELLED at the bank, and the webhook finds no
  ACTIVE one and returns nothing (`CancelAnswered`, `Released`).  Only if the
  answer is lost does the webhook give the money back;
- nothing schedules the sweep of expired cheques, so `Expire` has no fairness;
- an execution whose worker dies after the claim stays EXECUTING for ever (`CrashRun`);
- a late notice of a pause can overwrite CANCELLED with PAUSED at the bank (`Notify`), but
  none of a mandate that lives says that it was cancelled: `LocalEndIsTrue`;
- the notice that a mandate has reached its end leaves before the commit (`FindEnd`), so the
  bank may show COMPLETED while KLIK has it ACTIVE, for a while or, if the commit fails, until
  the next job finds the end again; `LocalEndIsTrue` keeps that the end date has passed;
- counters are deleted before their entries are committed, so lookups of a run that fails are
  not billed (`Drop`, `Fail`), and lookups counted between the reading and the deletion are
  lost: `NeverOverbilled` says that the error is never the bank's loss.

So some properties of `Payments` are claimed under a condition, which their runs' constants
meet: `BookedIfCompleted`, `CacheFollowsRow`, `DebitedOnlyIfCompleted` and `ImplementsPayment`
where no bank loses its webhook_url while a payment is on its way (`MayDisconnect = FALSE`;
`payments_final` shows what happens when one does).

## 5. Fairness

`Settlement`: weak fairness of the statements of each task, and of `RunNetting`: a worker
that lives goes on, since each of its calls has a timeout.  No fairness of entries,
starts or crashes.  The fairness of `RunNetting` is written with its guard spelled out
(`NettingReady`) because TLC evaluates ENABLED of the netting very slowly; it is the same
formula.  `Payments`: weak fairness of KLIK's own steps only; `RetryOrFail` is among them
because the webhook call times out after 30 seconds.  Nothing is assumed of customers,
of banks, of the network, or of the administrator.  `Recurring`: weak fairness of
`Dispatch`, since Beat queues the dispatcher at every interval, of `TakeJob`, since workers
take queued jobs, of `Complete`, since a worker that lives commits, and of the claim that a
job ends with (`Drop \/ FindEnd \/ Claim`), since the lock of the mandate is always
released; none of `Tick`, of the bank or of the steps after the claim, whose worker may be dead.  `Cheques` and `Lookups`
state no fairness: nothing in the code promises that a cheque is swept or a webhook
heard.

## 6. Proofs

All theorems hold for every value of the constants that satisfies the named assumption of
the module (`NettingLoopAssumption`, `SettlementAssumption`, `PaymentsAssumption`,
`ChequesAssumption`, `LookupsAssumption`, `RecurringAssumption` with `CalendarAssumption`).
The assumptions say what the constants are; those with content are that agreements take less than the whole
(`MSCAgreement.clean`), that the threshold of failures is above 0 (3 in the settings), that
months follow each other without gap, and that plans and the clock stay a month within the
calendar.

Each invariant, action property and refinement that a passing run checks is also a theorem.

**Netting** (`NettingLemmas`, `NettingProofs`).  Two choices make the proofs possible.  A
sort is `Sorted`, a list in an order, since tlapm cannot expand `SortSeq`; lemmas show that
such a list exists and has each element once.  A sum is `SumFunctionOnSet`; that it is
additive, that it is unchanged by what is outside its set, and what one changed element does
to it, are proved by a smallest counterexample, a set of numbers having a least element,
since the induction theorems cannot be used.

- `PositionsKept`: at every iteration, transfers and what is left give the net positions.
- `PaidOut`: when the loop exits on one side, the other is paid out too.  The invariant is
  `Matching`: the accounts before the indices are paid out and the others are not, the two
  sides have the same sum left (at the start because the positions sum to 0,
  `SidesBalance`), no bank is on both sides, and the transfers are fewer than the accounts
  passed.
- `NetObligationsNet`: the transfers `net_obligations` returns, for any list, are positive,
  between different banks, and give every bank its net position.
- `MatchesTheIntervals`: the transfers are the overlaps of debts and credits laid end to end,
  each once, and `net_obligations` returns the same list.  The accounts of a side lie one
  after the other (`Laid`), so the loop has always paid equally far on both lines
  (`Meeting`); an iteration passes exactly one overlapping pair (`PassedGrows`), and
  when it ends no pair is left; `Turned` ties the state of the loop to the recursive function
  inside `GreedyMatch`.

**Settlement** (`SettlementProofs`).

- `TypeCorrect`: `Spec => []TypeOK`.
- `Inductive`: `Spec => []IInv`.  Neither of the safety invariants is inductive: that
  `mark_settled` settles the right rows depends on what the task read before.  `IInv` adds
  that an active session has at most one owner (`OneOwner`), that a task's stage fits the
  status of its session (`Ownership`), that sessions are named only after they exist
  (`References`, `NoneYet`), and what a task knows at each stage about its session's
  entries and transfers (`StageFacts`): no transfers before netting, all transfers asked
  before `save`, and every granted transfer booked or presumed to be.
- `CompletedIsCleared` and `FailedSettlesPaidPairs`, which follow from it.
  Of the rails they need only that each transfer taken for SUCCESS was booked or presumed
  (the lemma `SuccessIsBooked`), which follows from the answers that `Gateways` allows.
- `EntriesAreTakenOnce` and `ClosedSessionsStay`, the action properties, from one lemma on
  what a step can write (`StepKinds`) and `IInv`.
- `Refinement`: `Settlement` implements `Clearing`, which lets a session collect again what a
  failed one left unsettled, so that it would hold of the code with and without the release
  that the documents speak of (`settlement_unsettled` is about that).  `StepRefines` maps
  each action to `Post`, `Open`, `Collect`, `Clear` or a stutter.
- `CompletedMovedNet`: the transfers of a COMPLETED session give each bank what the entries
  of the session owe it.  From SETTLING on, the entries of a session do not change and its
  transfers give their net positions (`NetsKept`, `MoneyKept`), by `NetObligationsNet` when
  they are made and by `IInv` afterwards.  Entries that are recorded meanwhile, and sessions
  of other tasks, leave both sums alone.
- `NettingNeverStops`: `run_netting` always passes the guards of the ledger and the
  constraints of `SettlementTransfer`, whatever entries it has collected, so that no session
  stops there.  So the guard in `NettingReady` (section 5) restricts nothing.

The interesting lemmas are `AssignStep` (the pool has only entries without a session, so no
closed session changes) and `MarkStep`.  What two tasks in one zone can do to each other is
covered: nothing in the proof uses that a zone has one active session, which is false.

**Payments without conditions** (`PaymentsProofs`).

- `TypeCorrect`, with `References` (what a request, a kept answer or a confirm names
  exists) and `Blocked` (the confirm that a bank waits for is about a payment of its own
  that is still on its list and can still be afforded), without which the debit could
  leave the naturals.
- `IssuePaysOnce`: an issue of a code is free in Redis, or held by one request, or in one
  transaction (`Issues`); `MARK_USED_SCRIPT` is atomic, and the unique constraint is not
  needed for it.
- `OneAnswer` and `AnsweredIsOnItsWay`: kept answers and requests refer to the row of
  their own order (`Orders`), whose task is queued before the answer is kept or given
  (`Queued`).  The unique constraint, not the wrapper, is what makes an order one row.
- `OneDebitPerPrompt`: each webhook that is handled allows one debit (`Prompted`).

**Payments under a condition** (`PaymentsProofs`).  With `MayDisconnect = FALSE`:
`DecidedOnce`, `DebitIsCompleted`, `CacheIsRow`, `BookedExactly`, and `Refinement`, that
`Payments` implements `Payment`.  Their invariant says that a bank without a webhook_url is
never asked, so that nobody confirms what `_mark_timeout` is about to overwrite (`Standing`),
that whoever was told of a decision was told the row's (`Told`), and what has entries under
its key (`Books`).  The condition is needed: `payments_final` is the counterexample to
`DecidedOnce` without it.  Nothing is assumed of the keys that agents use.

**Cheques** (`ChequesProofs`).

- `TypeCorrect`, with `Linked` (a request that has redeemed has a cheque, and a cheque with a
  transaction is REDEEMED), without which the webhook might be about no cheque; that the
  merchant's share is not negative is `SplitAddsUp`, a theorem for any percentages and amount.
- `OrdersGetOneCheque`, `MerchantsGetTheCheque` and `AnswersAreBooked` from one invariant,
  `Orders`: a request that has not redeemed has neither split nor entries, a cheque has one
  request and a request one cheque, agents' keys do not repeat among transactions
  (`Single`), and what is past the booking is booked in full, or is logged, or found another agent's
  entries under its key (`Booking`).
- `RefundsAreFinal` from three more: what a request saw of the clock was true and excludes
  the cheque it redeemed (`Clock`), every webhook was true when it was queued and stays so
  (`Told`, `EndStays`), and at the bank an ACTIVE cheque holds its amount and one without
  money has ended (`Money`).
- `BalanceCoversCheques`: the balance is never negative and no cheque gives back more than it
  took.  The balance is the funds less the debits of the cheques held, and the cheque for
  which a bank waits still fits in it, since its application serves nobody meanwhile
  (`Accounts`).

**Recurring orders** (`RecurringProofs`).

- `NextRunIsFirst`: for any calendar, `compute_next_run_at` gives a slot of the plan after
  the given time with none between: the estimate is at most one step too low, also at the
  end of short months.
- `TotalRunsAreCounted`: `estimate_total_runs` is the number of days of the plan on which it
  runs, for any calendar: the n-th slot is numbered (`Numbered`), for each frequency, and
  the last one before the end has the number that the estimate gives.
- `TypeCorrect`, with what is true before a mandate exists (`Unborn`, `Started`), that no job
  has read a time that has not come (`Clocked`), and what holds while a job is about to commit
  the end (`Held`).
- `EndsAreFinal`, from what each action may do to the status.
- `ShownEndsAreTrue`: every answer and every notice on its way that tells of an end is true,
  or tells of an end date that has passed (`Ends`); a claim finds the end only with a clock
  that is not ahead, and the clock does not go back (`EndStaysPast`).
- `ActiveHasNotFailed`, which is inductive.
- `RecordsArePaid`: for each execution, what the task knows of the bank's answer, what the
  bank keeps of it and how often it was paid go together (`Account`); late calls included.
- `SlotsRunOnce`: slots rise, and `next_run_at` is after them all, until a resume reads the
  clock too early (`Rising`).

**Lookups** (`LookupsProofs`).

- `TypeCorrect`.
- `ListedAreOwned`: one alias per number, at most one call per bank, a deletion knows only
  rows of its own bank, and what is listed is registered unless a deletion is out
  (`Registry`).
- `NobodyOverbilled`: the counters never exceed the lookups, a day is billed once, also
  within the running transaction, and what is billed and still counted fits together
  (`Bills`).

Only model-checked: liveness (`SessionEnds`, `WebhookTaskEnds`, `DueRunsHappen`), since the
prover reaches neither fairness nor ENABLED.  What a definition by recursion over data
computes is proved only where a smallest counterexample does (sums, the loop of the
netting).

## 7. Not modelled

- Banks, merchants, authentication, the admin site and the front ends hold configuration or
  no state of their own.  Choosing an agreement by its dates (`agents/`) is modelled where it
  matters, as an agreement that changes between two steps (`ChangeTerms`).
- The health endpoint, the log and the random numbers of the RTGS mock.
- The history texts and the configuration (`/api/config`) of the bank's application.
- Expiry of the cached status (900 s) and the 24 hours of kept answers are environment
  actions or left out, as no code reads the cached status (`views.py` fetches it and ignores
  it); the endpoints that only read (`/cheques/status`, the lists of mandates and aliases)
  change nothing.
- Database errors other than the constraints named in the modules, and an accrual that the
  operator starts while another one runs.
- Several mandates at once: they share no row but the payer's balance at the bank, which
  `Funds` lets run out.
- An abstract specification of a cheque or of a mandate: what it would say is in
  `PaidFromItsCheque` and `RefundedNotRedeemed`, and in `OncePerSlot` and `EndIsFinal`, with
  exceptions that an abstract specification would have to repeat.
