----------------------------- MODULE Settlement -----------------------------
(***************************************************************************)
(* Settlement of the ledger: backend/ledger/tasks.py                       *)
(* (run_settlement_session), ledger/services/ledger_service.py (sessions)  *)
(* and ledger/rtgs (dispatch; the answers of the rails are in Gateways).   *)
(*                                                                         *)
(* A task is one execution of run_settlement_session by a Celery worker or *)
(* by the management command.  Each of its database transactions is one    *)
(* action, except where READ COMMITTED lets others commit between two of   *)
(* its statements: then each statement is an action.  The banks' payments  *)
(* insert ledger entries at any moment.  A crash stops a task between two  *)
(* actions; Celery acknowledged it when it started, so nobody resumes it.  *)
(***************************************************************************)
EXTENDS Netting, Gateways

CONSTANTS
  Bank,          \* participants of the ledger
  Zone,          \* currency zones
  ZoneOf,        \* the zone of each bank
  Named,         \* banks whose identifiers for TARGET2 or FedNow are filled in
  Amounts,       \* amounts an entry may have, in grosze
  Task,          \* executions of run_settlement_session
  ZoneArg,       \* the `zone` argument of each execution
  MaxStarts,     \* bound: executions that start
  MaxEntries,    \* bound: ledger entries ever recorded
  MaxCrashes     \* bound: tasks that die

ASSUME SettlementAssumption ==
  /\ Zone \subseteq Zones
  /\ ZoneOf \in [Bank -> Zone]
  /\ Named \subseteq Bank
  /\ ZoneArg \in [Task -> Zone]
  /\ Amounts \subseteq Nat \ {0}
  /\ MaxStarts \in Nat
  /\ MaxEntries \in Nat
  /\ MaxCrashes \in Nat

VARIABLES
  ledger,        \* LedgerEntry rows, oldest first
  session,       \* SettlementSession rows
  transfer,      \* SettlementTransfer rows
  executed,      \* transfers the RTGS system has booked
  presumed,      \* transfers whose SUCCESS is a 200 that named no status
  pc,            \* where each task is in run_settlement_session
  sid,           \* its local `session`
  seen,          \* the entries that its aggregate counted
  asked,         \* transfers it has sent, or given up, so far
  granted        \* those of them answered SUCCESS

rows  == <<ledger, session, transfer>>
local == <<pc, sid, seen, asked, granted>>
vars  == <<ledger, session, transfer, executed, presumed, pc, sid, seen, asked, granted>>

NULL == 0        \* session_id of an entry no session has taken

Active == {"OPEN", "NETTING", "SETTLING"}       \* ACTIVE_SESSION_STATUSES
Closed == {"COMPLETED", "FAILED"}

EntryRow    == [from : Bank, to : Bank, amount : Amounts, session : Nat, settled : BOOLEAN]
SessionRow  == [zone : Zone, status : Active \cup Closed, counted : SUBSET Nat]
TransferRow == [session : Nat, from : Bank, to : Bank, amount : Nat,
                status : {"PENDING", "COMPLETED", "FAILED"},
                note : {"none", "reference", "reason"}]

(* The session is at the stage its owner's program counter names *)
Opened   == {"aggregate", "assign"}
Netted   == {"empty", "net"}
Settling == {"balanced", "close", "dispatch", "send", "save", "mark"}
Owning   == Opened \cup Netted \cup Settling
Running  == {"check", "insert"} \cup Owning
Stages   == {"idle", "skipped", "done", "dead"} \cup Running

TypeOK ==
  /\ ledger \in Seq(EntryRow)
  /\ session \in Seq(SessionRow)
  /\ transfer \in Seq(TransferRow)
  /\ executed \subseteq DOMAIN transfer
  /\ presumed \subseteq DOMAIN transfer
  /\ pc \in [Task -> Stages]
  /\ sid \in [Task -> Nat]
  /\ seen \in [Task -> SUBSET Nat]
  /\ asked \in [Task -> SUBSET Nat]
  /\ granted \in [Task -> SUBSET Nat]

Init ==
  /\ ledger = <<>> /\ session = <<>> /\ transfer = <<>> /\ executed = {} /\ presumed = {}
  /\ pc = [t \in Task |-> "idle"]
  /\ sid = [t \in Task |-> NULL]
  /\ seen = [t \in Task |-> {}]
  /\ asked = [t \in Task |-> {}]
  /\ granted = [t \in Task |-> {}]

-----------------------------------------------------------------------------
(* Queries *)

EntryZone(e) == ZoneOf[ledger[e].from]

(* Mutants: a filter is forgotten. *)
PoolAnySession(zone) == {e \in DOMAIN ledger : EntryZone(e) = zone /\ ~ ledger[e].settled}
PoolAnyZone(zone) == {e \in DOMAIN ledger : ~ ledger[e].settled /\ ledger[e].session = NULL}

(* LedgerEntry filter(zone=zone, settled=False, session__isnull=True) *)
Pool(zone) ==
  {e \in DOMAIN ledger :
     EntryZone(e) = zone /\ ~ ledger[e].settled /\ ledger[e].session = NULL}

EntriesOf(s)   == {e \in DOMAIN ledger : ledger[e].session = s}
TransfersOf(s) == {x \in DOMAIN transfer : transfer[x].session = s}

(* UPDATE ... SET settled=True on the entries in `some` *)
Settle(some) ==
  [e \in DOMAIN ledger |->
     IF e \in some THEN [ledger[e] EXCEPT !.settled = TRUE] ELSE ledger[e]]

(* Entries as obligations, by Meta.ordering = ['-created_at']: newest first *)
NewestFirst(some) ==
  LET order == Sorted(some, {p \in some \X some : p[1] > p[2]})
  IN  [k \in DOMAIN order |-> LET entry == ledger[order[k]]
                             IN  Obligation(entry.from, entry.to, entry.amount)]

(* A mutant: every unsettled entry is netted, not only the session's. *)
ObligationsUnfiltered(s) == NewestFirst({e \in DOMAIN ledger : ~ ledger[e].settled})

Obligations(s) == NewestFirst({e \in EntriesOf(s) : ~ ledger[e].settled})

-----------------------------------------------------------------------------
(* The environment *)

(* record_c2b_transaction and record_p2p_lookup_fees insert entries; clean() *)
(* keeps both banks in the entry's zone.                                     *)
RecordEntry(from, to, amount) ==
  /\ Len(ledger) < MaxEntries
  /\ ZoneOf[from] = ZoneOf[to]
  /\ ledger' = Append(ledger, [from |-> from, to |-> to, amount |-> amount,
                               session |-> NULL, settled |-> FALSE])
  /\ UNCHANGED <<session, transfer, executed, presumed, local>>

(* Beat, run_settlement_all_zones or the operator starts the task *)
Start(t) ==
  /\ pc[t] = "idle"
  /\ Cardinality({u \in Task : pc[u] # "idle"}) < MaxStarts
  /\ pc' = [pc EXCEPT ![t] = "check"]
  /\ UNCHANGED <<rows, executed, presumed, sid, seen, asked, granted>>

(* The worker process dies, or the code raises what nothing catches *)
Crash(t) ==
  /\ pc[t] \in Running
  /\ Cardinality({u \in Task : pc[u] = "dead"}) < MaxCrashes
  /\ pc' = [pc EXCEPT ![t] = "dead"]
  /\ UNCHANGED <<rows, executed, presumed, sid, seen, asked, granted>>

-----------------------------------------------------------------------------
(* create_session *)

CreateSessionCheck(t) ==
  /\ pc[t] = "check"
  /\ LET existing == {s \in DOMAIN session : /\ session[s].zone = ZoneArg[t]
                                             /\ session[s].status \in Active}
     IN  pc' = [pc EXCEPT ![t] = IF existing = {} THEN "insert" ELSE "skipped"]
  /\ UNCHANGED <<rows, executed, presumed, sid, seen, asked, granted>>

CreateSessionInsert(t) ==
  /\ pc[t] = "insert"
  /\ session' = Append(session, [zone |-> ZoneArg[t], status |-> "OPEN", counted |-> {}])
  /\ sid' = [sid EXCEPT ![t] = Len(session')]
  /\ pc' = [pc EXCEPT ![t] = "aggregate"]
  /\ UNCHANGED <<ledger, transfer, executed, presumed, seen, asked, granted>>

-----------------------------------------------------------------------------
(* assign_pending_entries_to_session *)

AssignAggregate(t) ==
  /\ pc[t] = "aggregate"
  /\ session[sid[t]].status = "OPEN"
  /\ seen' = [seen EXCEPT ![t] = Pool(ZoneArg[t])]
  /\ pc' = [pc EXCEPT ![t] = "assign"]
  /\ UNCHANGED <<rows, executed, presumed, sid, asked, granted>>

(* The UPDATE runs on a snapshot of its own; count and total are the old ones *)
AssignUpdate(t) ==
  /\ pc[t] = "assign"
  /\ LET s     == sid[t]
         taken == Pool(ZoneArg[t])
     IN  /\ ledger' = [e \in DOMAIN ledger |->
                         IF e \in taken THEN [ledger[e] EXCEPT !.session = s] ELSE ledger[e]]
         /\ session' = [session EXCEPT ![s].status = "NETTING", ![s].counted = seen[t]]
         /\ pc' = [pc EXCEPT ![t] = IF taken = {} THEN "empty" ELSE "net"]
  /\ UNCHANGED <<transfer, executed, presumed, sid, seen, asked, granted>>

-----------------------------------------------------------------------------
(* run_netting *)

(* The CheckConstraints of SettlementTransfer *)
Insertable(net) ==
  /\ net \in Seq([from : Bank, to : Bank, amount : Nat])
  /\ \A k \in DOMAIN net : net[k].amount > 0 /\ net[k].from # net[k].to

RunNetting(t) ==
  /\ pc[t] = "net"
  /\ LET s   == sid[t]
         net == NetObligations(Obligations(s))
     IN  /\ session[s].status = "NETTING"
         /\ Insertable(net)
         /\ transfer' = transfer \o
              [k \in DOMAIN net |-> [session |-> s, from |-> net[k].from, to |-> net[k].to,
                                     amount |-> net[k].amount,
                                     status |-> "PENDING", note |-> "none"]]
         /\ session' = [session EXCEPT ![s].status = "SETTLING"]
         /\ pc' = [pc EXCEPT ![t] = IF net = <<>> THEN "balanced" ELSE "dispatch"]
  /\ UNCHANGED <<ledger, executed, presumed, sid, seen, asked, granted>>

-----------------------------------------------------------------------------
(* Sessions without transfers: two autocommitted statements when balanced *)

SettleBalanced(t) ==
  /\ pc[t] = "balanced"
  /\ ledger' = Settle(EntriesOf(sid[t]))
  /\ pc' = [pc EXCEPT ![t] = "close"]
  /\ UNCHANGED <<session, transfer, executed, presumed, sid, seen, asked, granted>>

(* A mutant: a balanced session is not closed. *)
CompleteOnlyEmpty(t) ==
  /\ pc[t] = "empty"
  /\ session' = [session EXCEPT ![sid[t]].status = "COMPLETED"]
  /\ pc' = [pc EXCEPT ![t] = "done"]
  /\ UNCHANGED <<ledger, transfer, executed, presumed, sid, seen, asked, granted>>

CompleteWithoutTransfers(t) ==
  /\ pc[t] \in {"empty", "close"}
  /\ session' = [session EXCEPT ![sid[t]].status = "COMPLETED"]
  /\ pc' = [pc EXCEPT ![t] = "done"]
  /\ UNCHANGED <<ledger, transfer, executed, presumed, sid, seen, asked, granted>>

-----------------------------------------------------------------------------
(* RTGSDispatcher.dispatch and HTTPRTGSGateway.settle *)

(* healthcheck() fails: RTGSUnavailableError, every result is FAILED *)
RTGSUnavailable(t) ==
  /\ pc[t] = "dispatch"
  /\ asked' = [asked EXCEPT ![t] = TransfersOf(sid[t])]
  /\ pc' = [pc EXCEPT ![t] = "mark"]
  /\ UNCHANGED <<rows, executed, presumed, sid, seen, granted>>

RTGSHealthy(t) ==
  /\ pc[t] = "dispatch"
  /\ pc' = [pc EXCEPT ![t] = "send"]
  /\ UNCHANGED <<rows, executed, presumed, sid, seen, asked, granted>>

(* _get_rtgs_identifiers finds what the rail needs for both banks *)
Identified(x) == {transfer[x].from, transfer[x].to} \subseteq Named

(* _settle_one: `booked` if the RTGS executes the transfer, `success` if    *)
(* the gateway of the zone takes what came back for SUCCESS, `silent` if it *)
(* had to presume that                                                      *)
SettleOne(t, booked, success, silent) ==
  /\ pc[t] = "send"
  /\ LET waiting == TransfersOf(sid[t]) \ asked[t]
     IN  \E x \in waiting :
           /\ \A y \in waiting : x <= y
           /\ Outcome(booked, success, silent) \in
                Outcomes(RailOf(ZoneArg[t]), Identified(x))
           /\ executed' = IF booked THEN executed \cup {x} ELSE executed
           /\ presumed' = IF silent THEN presumed \cup {x} ELSE presumed
           /\ asked' = [asked EXCEPT ![t] = @ \cup {x}]
           /\ granted' = IF success THEN [granted EXCEPT ![t] = @ \cup {x}] ELSE granted
           /\ pc' = [pc EXCEPT ![t] = IF waiting = {x} THEN "save" ELSE "send"]
  /\ UNCHANGED <<rows, sid, seen>>

(* rtgs_reference or failure_reason of one transfer is saved, autocommitted *)
SaveResult(t) ==
  /\ pc[t] = "save"
  /\ LET unsaved == {x \in asked[t] : transfer[x].note = "none"}
     IN  \E x \in unsaved :
           /\ \A y \in unsaved : x <= y
           /\ transfer' = [transfer EXCEPT ![x].note =
                             IF x \in granted[t] THEN "reference" ELSE "reason"]
           /\ pc' = [pc EXCEPT ![t] = IF unsaved = {x} THEN "mark" ELSE "save"]
  /\ UNCHANGED <<ledger, session, executed, presumed, sid, seen, asked, granted>>

-----------------------------------------------------------------------------
(* mark_settled *)

SamePair(x, e) == transfer[x].from = ledger[e].from /\ transfer[x].to = ledger[e].to

(* A mutant: the debtor alone is compared. *)
PaidPairsByDebtor(s, successes) ==
  {e \in EntriesOf(s) : \E x \in successes : transfer[x].from = ledger[e].from}

(* Entries of the session between the two banks of a transfer that succeeded *)
PaidPairs(s, successes) == {e \in EntriesOf(s) : \E x \in successes : SamePair(x, e)}

(* A mutant: the dispatcher's own status is written, unmapped. *)
ResultStatusRaw(t, x) == IF x \in granted[t] THEN "SUCCESS" ELSE "FAILED"

ResultStatus(t, x) == IF x \in granted[t] THEN "COMPLETED" ELSE "FAILED"

(* A mutant: the session fails only if nothing succeeded. *)
NoneSucceeded(t) == granted[t] = {}

AnyFailed(t) == asked[t] # granted[t]

(* A mutant: the UPDATE of a pair is not restricted to the session. *)
SettledInAnySession(t) ==
  {e \in DOMAIN ledger : \E x \in granted[t] : SamePair(x, e)}
    \cup (IF AnyFailed(t) THEN {} ELSE EntriesOf(sid[t]))

(* Pair by pair, and all that is left if nothing failed *)
SettledBy(t) == IF AnyFailed(t) THEN PaidPairs(sid[t], granted[t]) ELSE EntriesOf(sid[t])

MarkSettled(t) ==
  /\ pc[t] = "mark"
  /\ LET s == sid[t]
     IN  /\ session[s].status = "SETTLING"
         /\ transfer' = [x \in DOMAIN transfer |->
              IF x \in asked[t] THEN [transfer[x] EXCEPT !.status = ResultStatus(t, x)]
                                ELSE transfer[x]]
         /\ ledger' = Settle(SettledBy(t))
         /\ session' = [session EXCEPT ![s].status =
                          IF AnyFailed(t) THEN "FAILED" ELSE "COMPLETED"]
         /\ pc' = [pc EXCEPT ![t] = "done"]
  /\ UNCHANGED <<executed, presumed, sid, seen, asked, granted>>

-----------------------------------------------------------------------------
Statement(t) ==
  \/ CreateSessionCheck(t) \/ CreateSessionInsert(t)
  \/ AssignAggregate(t) \/ AssignUpdate(t)
  \/ SettleBalanced(t) \/ CompleteWithoutTransfers(t)
  \/ RTGSUnavailable(t) \/ RTGSHealthy(t)
  \/ \E booked, success, silent \in BOOLEAN : SettleOne(t, booked, success, silent)
  \/ SaveResult(t) \/ MarkSettled(t)

Step(t) == Statement(t) \/ RunNetting(t)

Next ==
  \/ \E from, to \in Bank, amount \in Amounts : RecordEntry(from, to, amount)
  \/ \E t \in Task : Start(t) \/ Crash(t) \/ Step(t)

(* A worker that lives goes on: every call it makes has a timeout.  The    *)
(* second conjunct is WF_vars(RunNetting(t)) with its ENABLED written out, *)
(* which TLC could evaluate only very slowly.                              *)
NettingReady(t) ==
  /\ pc[t] = "net"
  /\ session[sid[t]].status = "NETTING"
  /\ Insertable(NetObligations(Obligations(sid[t])))

Fairness ==
  \A t \in Task : /\ WF_vars(Statement(t))
                  /\ []<>(~ NettingReady(t)) \/ []<><<RunNetting(t)>>_vars

Spec == Init /\ [][Next]_vars /\ Fairness

-----------------------------------------------------------------------------
(* Properties *)

(* A COMPLETED session has settled every entry it collected, and every one *)
(* of its transfers is COMPLETED and booked by the RTGS, or presumed to be *)
(* so where FedNow's 200 named no status: neither the two shortcuts for    *)
(* sessions without transfers nor the results that were lost on the way    *)
(* can complete a session whose money did not move.                        *)
TakenAsPaid == executed \cup presumed

CompletedSessionCleared ==
  \A s \in DOMAIN session :
    session[s].status = "COMPLETED" =>
      /\ \A e \in EntriesOf(s) : ledger[e].settled
      /\ \A x \in TransfersOf(s) : transfer[x].status = "COMPLETED" /\ x \in TakenAsPaid

(* ... and its transfers move, for every bank, exactly the net             *)
(* position of the session's entries, although entries kept arriving and   *)
(* another session may have run beside it.                                 *)
NetAmong(table, some, bank) ==
  SumFunctionOnSet(AmountsOf(table), {i \in some : table[i].to = bank}) -
  SumFunctionOnSet(AmountsOf(table), {i \in some : table[i].from = bank})

CompletedSessionMovedNet ==
  \A s \in DOMAIN session :
    session[s].status = "COMPLETED" =>
      \A bank \in Bank :
        NetAmong(transfer, TransfersOf(s), bank) = NetAmong(ledger, EntriesOf(s), bank)

(* In a session that FAILED, mark_settled settles an entry only if a       *)
(* transfer between the same two banks was booked, or presumed to be so;   *)
(* RTGSUnavailable settles nothing.                                        *)
FailedSessionSettlesPaidPairs ==
  \A s \in DOMAIN session : \A e \in EntriesOf(s) :
    session[s].status = "FAILED" /\ ledger[e].settled =>
      \E x \in TransfersOf(s) \cap TakenAsPaid :
        /\ transfer[x].status = "COMPLETED"
        /\ SamePair(x, e)

(* An entry that a session took stays with that session, unless the        *)
(* session FAILED before the entry was settled, and a settled entry is     *)
(* never touched again: two tasks that run in the same zone, by the race   *)
(* of create_session, never clear one entry twice.  What becomes of the    *)
(* excepted entries is the question of UnsettledGoToNext.                  *)
EntryTakenOnce ==
  \A e \in DOMAIN ledger :
    LET s == ledger[e].session
    IN  /\ ledger[e].settled => ledger'[e] = ledger[e]
        /\ s # NULL /\ session[s].status # "FAILED" => ledger'[e].session = s
TakenOnce == [][EntryTakenOnce]_vars

(* Nothing changes in or joins a session that is COMPLETED or FAILED: not  *)
(* its row, not its transfers, not its entries; only an entry that a       *)
(* FAILED session left unsettled may leave it, and nothing settles that    *)
(* entry while it is there.                                                *)
ClosedSessionKept ==
  \A s \in DOMAIN session :
    session[s].status \in Closed =>
      /\ session'[s] = session[s]
      /\ TransfersOf(s)' = TransfersOf(s)
      /\ \A x \in TransfersOf(s) : transfer'[x] = transfer[x]
      /\ EntriesOf(s)' \subseteq EntriesOf(s)
      /\ \A e \in EntriesOf(s) :
           \/ ledger'[e] = ledger[e]
           \/ /\ session[s].status = "FAILED" /\ ~ ledger[e].settled
              /\ e \notin EntriesOf(s)'
ClosedStaysClosed == [][ClosedSessionKept]_vars

(* Settlement implements Clearing: OPEN is "open", NETTING and SETTLING    *)
(* are "clearing".                                                         *)
AbstractState(status) ==
  CASE status = "OPEN" -> "open"
    [] status \in {"NETTING", "SETTLING"} -> "clearing"
    [] status = "COMPLETED" -> "completed"
    [] status = "FAILED" -> "failed"

AbstractEntries ==
  [e \in DOMAIN ledger |-> [zone |-> EntryZone(e), session |-> ledger[e].session,
                            settled |-> ledger[e].settled]]
AbstractSessions ==
  [s \in DOMAIN session |-> [zone |-> session[s].zone,
                             state |-> AbstractState(session[s].status)]]

Abstract == INSTANCE Clearing WITH entries <- AbstractEntries, sessions <- AbstractSessions
ImplementsClearing == Abstract!Spec

(* A session that a living worker opened is closed: no step of the         *)
(* pipeline waits for another task, and no guard of ledger_service         *)
(* (InvalidSessionStateError, the CheckConstraints) stops it.              *)
SessionClosed(t) == sid[t] \in DOMAIN session /\ session[sid[t]].status \in Closed

SessionEnds ==
  \A t \in Task : pc[t] = "aggregate" ~> pc[t] = "dead" \/ SessionClosed(t)

-----------------------------------------------------------------------------
(* What the repository says and the code does not do *)

(* create_session: "nie chcemy dwóch sesji równolegle dla tej samej        *)
(* strefy" (ledger_service.py).                                            *)
OneActiveSessionPerZone ==
  \A s1, s2 \in DOMAIN session :
    /\ session[s1].status \in Active
    /\ session[s2].status \in Active
    /\ session[s1].zone = session[s2].zone
    => s1 = s2

(* mark_settled: "Jeśli transfer fail, entries zostają niesettled i trafią *)
(* do następnej sesji" (ledger_service.py): a session that assigns its     *)
(* entries takes the unsettled ones of the FAILED sessions of its zone.    *)
LeftBehind(zone) ==
  {e \in DOMAIN ledger :
     /\ EntryZone(e) = zone /\ ~ ledger[e].settled
     /\ ledger[e].session # NULL /\ session[ledger[e].session].status = "FAILED"}

NextTakesUnsettled ==
  \A s \in DOMAIN session :
    session[s].status = "OPEN" /\ session'[s].status = "NETTING" =>
      \A e \in LeftBehind(session[s].zone) : ledger'[e].session = s
UnsettledGoToNext == [][NextTakesUnsettled]_vars
=============================================================================
