------------------------------ MODULE Payments ------------------------------
(***************************************************************************)
(* Payment by code: backend/codes (views.py, tasks.py, services),          *)
(* common/idempotency.py, the booking in ledger_service.py, and the bank's *)
(* application src/bank_IO/backend/main.py.                                *)
(*                                                                         *)
(* A request is one HTTP call of POST /payments/initiate.  Its view writes *)
(* to Redis, PostgreSQL and the broker in turn, and each write is one      *)
(* action; so are the steps of the Celery task that asks the payer's bank  *)
(* and of the view that takes the bank's decision, POST /payments/confirm. *)
(* Whoever runs them may die between two steps, and nobody resumes them.   *)
(* The bank's application handles one call at a time: while it waits for   *)
(* KLIK's answer to a confirm, it handles no other call, but its janitor,  *)
(* a thread of its own, goes on.                                           *)
(***************************************************************************)
EXTENDS Integers, Sequences, FiniteSets

CONSTANTS
  Bank,          \* banks that issue codes
  Agent,         \* payment agents
  ZoneOf,        \* the zone of each bank and agent
  Number,        \* code numbers
  Key,           \* idempotency keys
  Request,       \* calls of POST /payments/initiate
  AgentOf,       \* who makes each request,
  KeyOf,         \* under which idempotency key,
  CodeOf,        \* with which code,
  MerchantBank,  \* and the settlement bank of the merchant it is for
  Connected,     \* banks that have a webhook_url at first
  MayDisconnect, \* whether the administrator may remove one
  Funds,         \* payments that the payers of a bank can afford
  MaxIssues,     \* bound: codes ever issued
  MaxRetries,    \* max_retries of authorize_webhook_task (3)
  MaxConfirms,   \* bound: calls of POST /payments/confirm
  MaxCrashes     \* bound: requests, tasks and confirms that die

ASSUME PaymentsAssumption ==
  /\ AgentOf \in [Request -> Agent]
  /\ KeyOf \in [Request -> Key]
  /\ CodeOf \in [Request -> Number]
  /\ Connected \subseteq Bank
  /\ MayDisconnect \in BOOLEAN
  /\ {Funds, MaxIssues, MaxRetries, MaxConfirms, MaxCrashes} \subseteq Nat
  /\ IsFiniteSet(Request)

VARIABLES
  code,          \* Redis: codes, each with its issue number
  issued,        \* the bank that each issue of a code was made for
  idem,          \* Redis: answers kept by idempotent_endpoint
  tx,            \* PostgreSQL: Transaction rows
  entry,         \* PostgreSQL: the ledger entries of a payment
  cache,         \* Redis: the status kept for each transaction
  at,            \* where each request is in PaymentInitiateView.post
  held,          \* the issue of the code it has marked as used
  mine,          \* the transaction it has created or answered
  task,          \* Celery: the webhook task of each transaction
  webhook,       \* banks with a webhook_url
  sent,          \* webhook calls made: <<transaction, attempt>>
  heard,         \* those the bank has handled
  confirm,       \* calls of POST /payments/confirm
  pending,       \* the bank's pending_authorizations
  waiting,       \* the confirm that each bank waits for, or 0
  balance,       \* what the payers of each bank have left
  charged        \* how often each payment was debited

codes   == <<code, issued>>
request == <<at, held, mine>>
link    == <<webhook, sent, heard>>
bank    == <<pending, waiting, balance, charged>>
vars    == <<codes, idem, tx, entry, cache, request, task, link, confirm, bank>>

Decided == {"COMPLETED", "REJECTED", "TIMEOUT"}
Refused == {"conflict", "expired", "used", "mismatch", "duplicate"}
Writing == {"mark", "create", "cache", "enqueue", "remember"}
Working == {"queued", "waiting", "stale", "lapsed"}
Ended   == {"skipped", "delivered", "failed", "timedOut", "dead"}

CodeRow    == [number : Number, issue : Nat, status : {"ACTIVE", "USED"}]
(* onUs: the merchant's bank is the payer's.  due: accepted, and the payer's *)
(* bank owes the merchant's bank, or a fee above 0 to KLIK or the agent    *)
TxRow      == [agent : Agent, key : Key, code : Number, issue : Nat, bank : Bank,
               onUs : BOOLEAN, due : BOOLEAN, status : Decided \cup {"PENDING"}]
ConfirmRow == [tx : Nat, decision : {"COMPLETED", "REJECTED"},
               stage : {"received", "caching", "replied", "dead"},
               ok : BOOLEAN]

TypeOK ==
  /\ code \subseteq CodeRow /\ issued \in Seq(Bank)
  /\ idem \subseteq [agent : Agent, key : Key, code : Number, tx : Nat]
  /\ tx \in Seq(TxRow)
  /\ entry \subseteq [ref : Key, tx : DOMAIN tx]
  /\ cache \in [DOMAIN tx -> Decided \cup {"PENDING", "none"}]
  /\ at \in [Request -> {"idle", "answered", "dead"} \cup Writing \cup Refused]
  /\ held \in [Request -> Nat]
  /\ mine \in [Request -> Nat]
  /\ task \in [DOMAIN tx -> [stage : {"none"} \cup Working \cup Ended, tries : Nat]]
  /\ webhook \subseteq Bank
  /\ heard \subseteq sent /\ sent \subseteq (DOMAIN tx) \X Nat
  /\ confirm \in Seq(ConfirmRow)
  /\ pending \subseteq DOMAIN tx
  /\ waiting \in [Bank -> 0 .. Len(confirm)]
  /\ balance \in [Bank -> Nat]
  /\ charged \in [DOMAIN tx -> Nat]

Init ==
  /\ code = {} /\ issued = <<>> /\ idem = {} /\ tx = <<>> /\ entry = {} /\ cache = <<>>
  /\ at = [r \in Request |-> "idle"]
  /\ held = [r \in Request |-> 0]
  /\ mine = [r \in Request |-> 0]
  /\ task = <<>> /\ webhook = Connected /\ sent = {} /\ heard = {} /\ confirm = <<>>
  /\ pending = {} /\ waiting = [b \in Bank |-> 0] /\ balance = [b \in Bank |-> Funds]
  /\ charged = <<>>

Dead ==
  Cardinality({r \in Request : at[r] = "dead"})
    + Cardinality({x \in DOMAIN task : task[x].stage = "dead"})
    + Cardinality({i \in DOMAIN confirm : confirm[i].stage = "dead"})

-----------------------------------------------------------------------------
(* Codes *)

(* SET NX EX: a number is free until its key expires, used or not *)
GenerateCode(b, number) ==
  /\ Len(issued) < MaxIssues
  /\ \A k \in code : k.number # number
  /\ issued' = Append(issued, b)
  /\ code' = code \cup {[number |-> number, issue |-> Len(issued'), status |-> "ACTIVE"]}
  /\ UNCHANGED <<idem, tx, entry, cache, request, task, link, confirm, bank>>

(* MARK_USED_SCRIPT keeps the key's TTL, so that a used code expires too *)
ExpireCode(k) ==
  /\ k \in code
  /\ code' = code \ {k}
  /\ UNCHANGED <<issued, idem, tx, entry, cache, request, task, link, confirm, bank>>

-----------------------------------------------------------------------------
(* POST /payments/initiate *)

Advance(r, stage) == at' = [at EXCEPT ![r] = stage]

SameOrder(r, row) == row.agent = AgentOf[r] /\ row.key = KeyOf[r]

(* idempotent_endpoint: replay the kept answer, or go on to the view *)
Receive(r) ==
  /\ at[r] = "idle"
  /\ LET kept == {row \in idem : SameOrder(r, row)}
     IN  \/ /\ kept = {}
            /\ Advance(r, "mark") /\ UNCHANGED mine
         \/ \E row \in kept :
              IF row.code = CodeOf[r]
                THEN Advance(r, "answered") /\ mine' = [mine EXCEPT ![r] = row.tx]
                ELSE Advance(r, "conflict") /\ UNCHANGED mine
  /\ UNCHANGED <<codes, idem, tx, entry, cache, held, task, link, confirm, bank>>

(* A mutant: the script forgets to write the new status. *)
StillActive(k) == k

Used(k) == [k EXCEPT !.status = "USED"]

(* MARK_USED_SCRIPT runs atomically in Redis *)
MarkUsed(r) ==
  /\ at[r] = "mark"
  /\ \/ /\ \A k \in code : k.number # CodeOf[r]
        /\ Advance(r, "expired") /\ UNCHANGED <<code, held>>
     \/ \E k \in code :
          /\ k.number = CodeOf[r]
          /\ IF k.status = "ACTIVE"
               THEN /\ code' = (code \ {k}) \cup {Used(k)}
                    /\ held' = [held EXCEPT ![r] = k.issue]
                    /\ Advance(r, IF ZoneOf[issued[k.issue]] = ZoneOf[AgentOf[r]]
                                    THEN "create" ELSE "mismatch")
               ELSE Advance(r, "used") /\ UNCHANGED <<code, held>>
  /\ UNCHANGED <<issued, idem, tx, entry, cache, mine, task, link, confirm, bank>>

(* A mutant: no unique constraint. *)
NeverTaken(r) == FALSE

(* tx_unique_agent_idempotency *)
Taken(r) == \E x \in DOMAIN tx : SameOrder(r, tx[x])

(* Transaction.objects.create, or a 500 if the constraint refuses *)
CreateTransaction(r) ==
  /\ at[r] = "create"
  /\ IF Taken(r)
       THEN Advance(r, "duplicate") /\ UNCHANGED <<tx, cache, mine, task, charged>>
       ELSE /\ tx' = Append(tx, [agent |-> AgentOf[r], key |-> KeyOf[r], code |-> CodeOf[r],
                                 issue |-> held[r], bank |-> issued[held[r]],
                                 onUs |-> issued[held[r]] = MerchantBank[r],
                                 due |-> FALSE, status |-> "PENDING"])
            /\ mine' = [mine EXCEPT ![r] = Len(tx')]
            /\ cache' = Append(cache, "none")
            /\ task' = Append(task, [stage |-> "none", tries |-> 0])
            /\ charged' = Append(charged, 0)
            /\ Advance(r, "cache")
  /\ UNCHANGED <<codes, idem, entry, held, link, confirm, pending, waiting, balance>>

CachePending(r) ==
  /\ at[r] = "cache"
  /\ cache' = [cache EXCEPT ![mine[r]] = "PENDING"]
  /\ Advance(r, "enqueue")
  /\ UNCHANGED <<codes, idem, tx, entry, held, mine, task, link, confirm, bank>>

(* A mutant: an error of the broker is swallowed. *)
EnqueueSwallowed(r) ==
  /\ at[r] = "enqueue"
  /\ Advance(r, "remember")
  /\ UNCHANGED <<codes, idem, tx, entry, cache, held, mine, task, link, confirm, bank>>

(* authorize_webhook_task.delay *)
Enqueue(r) ==
  /\ at[r] = "enqueue"
  /\ task' = [task EXCEPT ![mine[r]].stage = "queued"]
  /\ Advance(r, "remember")
  /\ UNCHANGED <<codes, idem, tx, entry, cache, held, mine, link, confirm, bank>>

(* idempotent_endpoint keeps the answer of the view, 202, and returns it *)
Remember(r) ==
  /\ at[r] = "remember"
  /\ idem' = {row \in idem : ~ SameOrder(r, row)} \cup
               {[agent |-> AgentOf[r], key |-> KeyOf[r], code |-> CodeOf[r], tx |-> mine[r]]}
  /\ Advance(r, "answered")
  /\ UNCHANGED <<codes, tx, entry, cache, held, mine, task, link, confirm, bank>>

(* IDEMPOTENCY_TTL_SECONDS have passed *)
Forget(row) ==
  /\ row \in idem
  /\ idem' = idem \ {row}
  /\ UNCHANGED <<codes, tx, entry, cache, request, task, link, confirm, bank>>

(* The process dies, or Redis, the database or the broker raises: 500 *)
CrashRequest(r) ==
  /\ at[r] \in Writing
  /\ Dead < MaxCrashes
  /\ Advance(r, "dead")
  /\ UNCHANGED <<codes, idem, tx, entry, cache, held, mine, task, link, confirm, bank>>

-----------------------------------------------------------------------------
(* authorize_webhook_task *)

(* A plain read, without a lock; the call to the bank follows *)
StartAttempt(x) ==
  /\ task[x].stage = "queued"
  /\ LET stage == CASE tx[x].status # "PENDING" -> "skipped"
                    [] tx[x].status = "PENDING" /\ tx[x].bank \notin webhook -> "stale"
                    [] OTHER -> "waiting"
     IN  /\ task' = [task EXCEPT ![x].stage = stage]
         /\ sent' = IF stage = "waiting" THEN sent \cup {<<x, task[x].tries>>} ELSE sent
  /\ UNCHANGED <<codes, idem, tx, entry, cache, request, webhook, heard, confirm, bank>>

(* A mutant: attempts are not counted. *)
RetryForEver(x) ==
  /\ task[x].stage = "waiting"
  /\ task' = [task EXCEPT ![x].stage = "queued"]
  /\ UNCHANGED <<codes, idem, tx, entry, cache, request, link, confirm, bank>>

(* A mutant: the last failure marks TIMEOUT, as the except clause intends. *)
RetryOrTimeout(x) ==
  /\ task[x].stage = "waiting"
  /\ task' = [task EXCEPT ![x] =
                IF @.tries < MaxRetries THEN [stage |-> "queued", tries |-> @.tries + 1]
                                        ELSE [@ EXCEPT !.stage = "stale"]]
  /\ UNCHANGED <<codes, idem, tx, entry, cache, request, link, confirm, bank>>

(* A RequestException: a timeout, a lost answer, an HTTP error *)
RetryOrFail(x) ==
  /\ task[x].stage = "waiting"
  /\ task' = [task EXCEPT ![x] =
                IF @.tries < MaxRetries THEN [stage |-> "queued", tries |-> @.tries + 1]
                                        ELSE [@ EXCEPT !.stage = "failed"]]
  /\ UNCHANGED <<codes, idem, tx, entry, cache, request, link, confirm, bank>>

(* _mark_timeout saves the object that StartAttempt read, then caches *)
MarkTimeout(x) ==
  /\ task[x].stage = "stale"
  /\ tx' = [tx EXCEPT ![x].status = "TIMEOUT"]
  /\ task' = [task EXCEPT ![x].stage = "lapsed"]
  /\ UNCHANGED <<codes, idem, entry, cache, request, link, confirm, bank>>

CacheTimeout(x) ==
  /\ task[x].stage = "lapsed"
  /\ cache' = [cache EXCEPT ![x] = "TIMEOUT"]
  /\ task' = [task EXCEPT ![x].stage = "timedOut"]
  /\ UNCHANGED <<codes, idem, tx, entry, request, link, confirm, bank>>

CrashTask(x) ==
  /\ task[x].stage \in Working
  /\ Dead < MaxCrashes
  /\ task' = [task EXCEPT ![x].stage = "dead"]
  /\ UNCHANGED <<codes, idem, tx, entry, cache, request, link, confirm, bank>>

(* The administrator clears Bank.webhook_url *)
Disconnect(b) ==
  /\ MayDisconnect
  /\ b \in webhook
  /\ webhook' = webhook \ {b}
  /\ UNCHANGED <<codes, idem, tx, entry, cache, request, task, sent, heard, confirm, bank>>

-----------------------------------------------------------------------------
(* The bank's application *)

(* webhook_authorize: KLIK may have stopped waiting for this attempt, and   *)
(* the answer 200 may be lost.                                              *)
HearWebhook(x, attempt, answered) ==
  /\ <<x, attempt>> \in sent \ heard
  /\ waiting[tx[x].bank] = 0
  /\ heard' = heard \cup {<<x, attempt>>}
  /\ pending' = pending \cup {x}
  /\ answered => task[x] = [stage |-> "waiting", tries |-> attempt]
  /\ task' = IF answered THEN [task EXCEPT ![x].stage = "delivered"] ELSE task
  /\ UNCHANGED <<codes, idem, tx, entry, cache, request, webhook, sent, confirm, waiting,
                 balance, charged>>

(* _prune_expired, which the janitor thread runs every second *)
ExpirePending(x) ==
  /\ x \in pending
  /\ pending' = pending \ {x}
  /\ UNCHANGED <<codes, idem, tx, entry, cache, request, task, link, confirm, waiting,
                 balance, charged>>

(* A mutant: api_accept does not look at the balance. *)
AlwaysAfford(x) == TRUE

CanAfford(x) == balance[tx[x].bank] > 0

(* api_accept, with enough on the account, api_reject, and api_accept's own *)
(* rejection: the call to /payments/confirm.                                *)
SendConfirm(x, decision) ==
  /\ x \in pending
  /\ waiting[tx[x].bank] = 0
  /\ decision = "COMPLETED" => CanAfford(x)
  /\ Len(confirm) < MaxConfirms
  /\ confirm' = Append(confirm, [tx |-> x, decision |-> decision, stage |-> "received",
                                 ok |-> FALSE])
  /\ waiting' = [waiting EXCEPT ![tx[x].bank] = Len(confirm')]
  /\ UNCHANGED <<codes, idem, tx, entry, cache, request, task, link, pending, balance,
                 charged>>

(* A mutant: an accepted authorization stays on the list. *)
KeepAccepted(c) == IF c.ok /\ c.decision = "REJECTED" THEN pending \ {c.tx} ELSE pending

StillPending(c) == IF c.ok THEN pending \ {c.tx} ELSE pending

(* KLIK's answer: 200 ends the authorization, and debits an accepted one *)
HearAnswer(b) ==
  /\ waiting[b] # 0
  /\ LET c == confirm[waiting[b]]
     IN  /\ c.stage = "replied"
         /\ pending' = StillPending(c)
         /\ IF c.ok /\ c.decision = "COMPLETED"
              THEN /\ balance' = [balance EXCEPT ![b] = @ - 1]
                   /\ charged' = [charged EXCEPT ![c.tx] = @ + 1]
              ELSE UNCHANGED <<balance, charged>>
  /\ waiting' = [waiting EXCEPT ![b] = 0]
  /\ UNCHANGED <<codes, idem, tx, entry, cache, request, task, link, confirm>>

(* KLIK_HTTP_TIMEOUT, or the connection breaks: 503, nothing is done *)
GiveUp(b) ==
  /\ waiting[b] # 0
  /\ waiting' = [waiting EXCEPT ![b] = 0]
  /\ UNCHANGED <<codes, idem, tx, entry, cache, request, task, link, confirm, pending,
                 balance, charged>>

-----------------------------------------------------------------------------
(* POST /payments/confirm *)

(* record_c2b_transaction: nothing for a payment within one bank that costs *)
(* no fee, and nothing if it finds entries of the source_ref.  It does not  *)
(* see those of a confirm that commits at the same moment, so the model     *)
(* lets it overlook what it could find                                      *)
Booked(x, due) ==
  \/ due /\ entry' = entry \cup {[ref |-> tx[x].key, tx |-> x]}
  \/ (due => \E row \in entry : row.ref = tx[x].key) /\ UNCHANGED entry

(* Each is one database transaction, under the lock of the row. *)
Reply(i, ok) == confirm' = [confirm EXCEPT ![i] = [@ EXCEPT !.stage = "replied", !.ok = ok]]

(* Mutants: every decided transaction answers 200; the last decision wins. *)
RepliesIfDecided(status, decision) == status # "PENDING"

ConfirmOverwrites(i) ==
  /\ confirm[i].stage = "received"
  /\ tx[confirm[i].tx].status # "PENDING"
  /\ tx' = [tx EXCEPT ![confirm[i].tx].status = confirm[i].decision]
  /\ Reply(i, TRUE)
  /\ UNCHANGED <<codes, idem, entry, cache, request, task, link, bank>>

Repeats(status, decision) == status = decision

(* Decided already: 200 for the same decision, 409 for the other *)
ConfirmReplay(i) ==
  /\ confirm[i].stage = "received"
  /\ LET status == tx[confirm[i].tx].status
     IN  status # "PENDING" /\ Reply(i, Repeats(status, confirm[i].decision))
  /\ UNCHANGED <<codes, idem, tx, entry, cache, request, task, link, bank>>

(* Mutants: what was written before the error stays, in the row or in Redis. *)
ConfirmRefusedHalf(i) ==
  /\ confirm[i].stage = "received" /\ confirm[i].decision = "COMPLETED"
  /\ tx[confirm[i].tx].status = "PENDING"
  /\ tx' = [tx EXCEPT ![confirm[i].tx].status = "COMPLETED"]
  /\ Reply(i, FALSE)
  /\ UNCHANGED <<codes, idem, entry, cache, request, task, link, bank>>

ConfirmRefusedCached(i) ==
  /\ confirm[i].stage = "received" /\ confirm[i].decision = "COMPLETED"
  /\ tx[confirm[i].tx].status = "PENDING"
  /\ cache' = [cache EXCEPT ![confirm[i].tx] = "COMPLETED"]
  /\ Reply(i, FALSE)
  /\ UNCHANGED <<codes, idem, tx, entry, request, task, link, bank>>

(* No active agreement, or an entry that violates a constraint: all rolls back *)
ConfirmRefused(i) ==
  /\ confirm[i].stage = "received" /\ confirm[i].decision = "COMPLETED"
  /\ tx[confirm[i].tx].status = "PENDING"
  /\ Reply(i, FALSE)
  /\ UNCHANGED <<codes, idem, tx, entry, cache, request, task, link, bank>>

(* _process_accepted with its entries, or _process_rejected.  The fees     *)
(* follow from the amount and the agent's agreement of the day.            *)
ConfirmDecide(i) ==
  /\ confirm[i].stage = "received"
  /\ LET x == confirm[i].tx  decision == confirm[i].decision
     IN  \E due \in BOOLEAN :
           /\ tx[x].status = "PENDING"
           /\ due => decision = "COMPLETED"
           /\ decision = "COMPLETED" => due \/ tx[x].onUs
           /\ tx' = [tx EXCEPT ![x] = [@ EXCEPT !.status = decision, !.due = due]]
           /\ Booked(x, due)
  /\ confirm' = [confirm EXCEPT ![i].stage = "caching"]
  /\ UNCHANGED <<codes, idem, cache, request, task, link, bank>>

(* After the commit, outside the lock *)
CacheDecision(i) ==
  /\ confirm[i].stage = "caching"
  /\ cache' = [cache EXCEPT ![confirm[i].tx] = confirm[i].decision]
  /\ Reply(i, TRUE)
  /\ UNCHANGED <<codes, idem, tx, entry, request, task, link, bank>>

CrashConfirm(i) ==
  /\ confirm[i].stage \in {"received", "caching"}
  /\ Dead < MaxCrashes
  /\ confirm' = [confirm EXCEPT ![i].stage = "dead"]
  /\ UNCHANGED <<codes, idem, tx, entry, cache, request, task, link, bank>>

-----------------------------------------------------------------------------
RequestStep(r) ==
  MarkUsed(r) \/ CreateTransaction(r) \/ CachePending(r) \/ Enqueue(r) \/ Remember(r)

TaskStep(x) ==
  x \in DOMAIN tx /\ (StartAttempt(x) \/ RetryOrFail(x) \/ MarkTimeout(x) \/ CacheTimeout(x))

ConfirmStep(i) ==
  /\ i \in DOMAIN confirm
  /\ ConfirmReplay(i) \/ ConfirmRefused(i) \/ ConfirmDecide(i) \/ CacheDecision(i)

Next ==
  \/ \E b \in Bank, number \in Number : GenerateCode(b, number)
  \/ \E k \in code : ExpireCode(k)
  \/ \E r \in Request : Receive(r) \/ RequestStep(r) \/ CrashRequest(r)
  \/ \E row \in idem : Forget(row)
  \/ \E x \in DOMAIN tx : TaskStep(x) \/ CrashTask(x) \/ ExpirePending(x)
  \/ \E x \in DOMAIN tx, attempt \in 0 .. MaxRetries, answered \in BOOLEAN :
       HearWebhook(x, attempt, answered)
  \/ \E x \in DOMAIN tx, decision \in {"COMPLETED", "REJECTED"} : SendConfirm(x, decision)
  \/ \E i \in DOMAIN confirm : ConfirmStep(i) \/ CrashConfirm(i)
  \/ \E b \in Bank : HearAnswer(b) \/ GiveUp(b) \/ Disconnect(b)

(* KLIK's workers go on while they live, and every call they make has a    *)
(* timeout.  Nothing is assumed of customers, banks or the administrator.  *)
Fairness ==
  /\ \A r \in Request : WF_vars(RequestStep(r))
  /\ \A x \in 1 .. Cardinality(Request) : WF_vars(TaskStep(x))
  /\ \A i \in 1 .. MaxConfirms : WF_vars(ConfirmStep(i))

Spec == Init /\ [][Next]_vars /\ Fairness

-----------------------------------------------------------------------------
(* Properties *)

(* Two requests of one order (an agent's idempotency key) that are told    *)
(* 202 are told the same transaction, although idempotent_endpoint looks   *)
(* and writes in two steps, a code may be burnt by each of them, and the   *)
(* kept answer expires.                                                    *)
SameAnswer ==
  \A r1, r2 \in Request :
    /\ at[r1] = "answered" /\ at[r2] = "answered"
    /\ AgentOf[r1] = AgentOf[r2] /\ KeyOf[r1] = KeyOf[r2]
    => mine[r1] = mine[r2]

(* What the agent is told about with 202 is on its way: the webhook task   *)
(* was queued, whatever died since and however often the agent asks again. *)
AnsweredIsEnqueued ==
  \A r \in Request : at[r] = "answered" => task[mine[r]].stage # "none"

(* One issue of a code pays once, even if two requests present it at the   *)
(* same time, and even if its number is issued again.                      *)
CodePaysOnce ==
  \A x, y \in DOMAIN tx : tx[x].issue = tx[y].issue => x = y

(* What has to be booked: a COMPLETED transaction, unless payer and        *)
(* merchant have one bank and its fees are 0                               *)
Owed(x) == tx[x].status = "COMPLETED" /\ (~ tx[x].onUs \/ tx[x].due)

(* The ledger has entries of what has to be booked and of nothing else,    *)
(* whatever confirms are refused, repeated or die.  (The ledger finds a    *)
(* payment by its idempotency key, so that of two agents' payments under   *)
(* one key the second may go unbooked: see the README.)                    *)
BookedIfCompleted ==
  /\ \A row \in entry : Owed(row.tx) /\ row.ref = tx[row.tx].key
  /\ \A x \in DOMAIN tx : Owed(x) => \E row \in entry : row.ref = tx[x].key

(* The payer is debited only for a transaction that is COMPLETED, whatever *)
(* answers of KLIK were lost, repeated or late, provided that no bank loses *)
(* its webhook_url (DecisionIsFinal shows why).                            *)
DebitedOnlyIfCompleted ==
  \A x \in DOMAIN tx : charged[x] > 0 => tx[x].status = "COMPLETED"

(* ... and at most once for each time the bank was asked to authorize it.  *)
(* (The webhook is retried when its answer is lost: see the README.)       *)
DebitedOncePerPrompt ==
  \A x \in DOMAIN tx :
    charged[x] + (IF x \in pending THEN 1 ELSE 0) <= Cardinality({m \in heard : m[1] = x})

(* The status kept in Redis never says more than the row: it is the row's  *)
(* status, or PENDING while the decision is not written yet, provided that *)
(* no bank loses its webhook_url.                                          *)
CacheFollowsRow ==
  \A x \in DOMAIN tx : cache[x] \in {"none", "PENDING", tx[x].status}

(* The task that asks the bank ends: it skips, is heard, gives up after    *)
(* max_retries, or dies.  It does not retry for ever.                      *)
WebhookTaskEnds ==
  \A x \in 1 .. Cardinality(Request) :
    (x \in DOMAIN tx /\ task[x].stage = "queued") ~>
      (x \in DOMAIN tx /\ task[x].stage \in Ended)

(* Payments implements Payment. *)
AbstractState(status) ==
  CASE status = "PENDING"   -> "pending"
    [] status = "COMPLETED" -> "accepted"
    [] status = "REJECTED"  -> "rejected"
    [] status = "TIMEOUT"   -> "lapsed"

AbstractPayments ==
  [x \in DOMAIN tx |->
     [agent |-> tx[x].agent, key |-> tx[x].key, issue |-> tx[x].issue, onUs |-> tx[x].onUs,
      state |-> AbstractState(tx[x].status), due |-> tx[x].due,
      booked |-> \E row \in entry : row.tx = x]]

Abstract == INSTANCE Payment WITH payments <- AbstractPayments,
              Issue <- 1 .. MaxIssues
ImplementsPayment == Abstract!Spec

-----------------------------------------------------------------------------
(* What the repository says of the code *)

(* STATE.md: TIMEOUT, like REJECTED, is reached from PENDING, and COMPLETED *)
(* never leads to it.  The code keeps to that only while no bank loses its *)
(* webhook_url (MayDisconnect): _mark_timeout saves a row that was read    *)
(* without a lock.                                                         *)
DecisionKept ==
  \A x \in DOMAIN tx : tx[x].status \in Decided => tx'[x].status = tx[x].status
DecisionIsFinal == [][DecisionKept]_vars
=============================================================================
