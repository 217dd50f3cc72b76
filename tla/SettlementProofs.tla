-------------------------- MODULE SettlementProofs --------------------------
(***************************************************************************)
(* Proofs about Settlement, for every set of banks, zones and tasks and    *)
(* every bound: its invariants, what a step of it may never do, that every *)
(* step is a step of Clearing or none, and that the transfers of a session *)
(* move the net positions of its entries.  Only the last part needs to     *)
(* know what net_obligations returns.                                      *)
(***************************************************************************)
EXTENDS Settlement, NettingLemmas

(* The status of a session is overwritten. *)
LEMMA StatusType ==
  ASSUME session \in Seq(SessionRow), NEW s, NEW status \in Active \cup Closed
  PROVE  /\ [session EXCEPT ![s].status = status] \in Seq(SessionRow)
         /\ DOMAIN [session EXCEPT ![s].status = status] = DOMAIN session
<1>1. s \in DOMAIN session => [session[s] EXCEPT !.status = status] \in SessionRow
  <2>1. ASSUME s \in DOMAIN session PROVE session[s] \in SessionRow
    BY <2>1, SeqDomain
  <2> QED  BY <2>1 DEF SessionRow
<1>2. [session EXCEPT ![s].status = status] =
        [session EXCEPT ![s] = [session[s] EXCEPT !.status = status]]
  OBVIOUS
<1> QED  BY <1>1, <1>2, ReplaceRow

(* Settling entries keeps the ledger a sequence of rows. *)
LEMMA SettleType ==
  ASSUME ledger \in Seq(EntryRow), NEW some
  PROVE  Settle(some) \in Seq(EntryRow)
<1>1. ledger \in [1 .. Len(ledger) -> EntryRow] /\ Len(ledger) \in Nat
  BY SeqDomain
<1>2. \A e \in 1 .. Len(ledger) : [ledger[e] EXCEPT !.settled = TRUE] \in EntryRow
  BY <1>1 DEF EntryRow
<1>3. Settle(some) \in [1 .. Len(ledger) -> EntryRow]
  BY <1>1, <1>2 DEF Settle
<1> QED  BY <1>1, <1>3, FunctionIsSeq

(* A gateway takes for SUCCESS only what the rail of its zone has booked,  *)
(* or what FedNow answered without naming a status: every reply of each    *)
(* rail, read by its parser, lost or late ones included (gateways.py,      *)
(* _settle_one).                                                           *)
LEMMA SuccessIsBooked ==
  ASSUME NEW rail, NEW named, NEW booked \in BOOLEAN, NEW success \in BOOLEAN,
         NEW silent \in BOOLEAN,
         Outcome(booked, success, silent) \in Outcomes(rail, named)
  PROVE  success => booked \/ silent
<1> SUFFICES ASSUME success PROVE booked \/ silent
  OBVIOUS
<1>1. PICK reply \in Replies(rail) :
        /\ booked = reply.booked /\ StatusOf(rail, reply) = "SUCCESS"
        /\ silent = Presumes(rail, reply)
  BY DEF Outcome, Outcomes
<1>2. reply \in Answers(rail) /\ ~ (reply.code >= 400) /\ Parse(rail, reply.word) = "SUCCESS"
  BY <1>1 DEF Replies, Answer, StatusOf
<1>3. CASE rail = "TARGET2"
  BY <1>1, <1>2, <1>3 DEF Answers, TargetAnswers, Answer, Parse, ParseTarget
<1>4. CASE rail = "FedNow"
  <2>1. reply \in FedNowAnswers /\ reply.word # "rejected"
    BY <1>2, <1>4 DEF Answers, Parse, ParseCollect, Silent
  <2>2. CASE \E word \in Silent \cup {"received and sent"} : reply = Answer(200, word, TRUE)
    <3>1. \E word : reply = Answer(200, word, TRUE)
      BY <2>2
    <3> QED  BY <1>1, <3>1 DEF Answer
  <2>3. CASE \E word \in Silent \cup {"rejected"} : reply = Answer(200, word, FALSE)
    <3>1. reply.code = 200 /\ reply.word \in Silent
      BY <2>1, <2>3 DEF Answer
    <3> QED  BY <1>1, <1>4, <3>1 DEF Presumes
  <2>4. CASE reply = Answer(400, "none", FALSE)
    BY <1>2, <2>4 DEF Answer
  <2> QED  BY <2>1, <2>2, <2>3, <2>4 DEF FedNowAnswers
<1>5. CASE rail \notin {"TARGET2", "FedNow"}
  BY <1>1, <1>2, <1>5 DEF Answers, MockAnswers, Answer, Parse, ParseMock, TransferStatus
<1> QED  BY <1>3, <1>4, <1>5

(* The empty database and the idle tasks are well typed. *)
THEOREM InitType == Init => TypeOK
BY SettlementAssumption
DEF Init, TypeOK, Stages, Running, Owning, Opened, Netted, Settling, NULL, EntryRow, SessionRow, TransferRow

(* Every statement of every task stores rows of the right kind. *)
LEMMA StepType == TypeOK /\ [Next]_vars => TypeOK'
<1> SUFFICES ASSUME TypeOK, [Next]_vars PROVE TypeOK'
  OBVIOUS
<1> USE SettlementAssumption
<1>1. ASSUME NEW from \in Bank, NEW to \in Bank, NEW amount \in Amounts,
             RecordEntry(from, to, amount)
      PROVE  TypeOK'
  <2>1. [from |-> from, to |-> to, amount |-> amount, session |-> NULL, settled |-> FALSE]
          \in EntryRow
    BY DEF EntryRow, NULL
  <2>2. ledger' \in Seq(EntryRow)
    BY <1>1, <2>1, AppendRow DEF RecordEntry, TypeOK
  <2> QED  BY <1>1, <2>2 DEF RecordEntry, TypeOK, local
<1>2. ASSUME NEW t \in Task, Start(t) \/ Crash(t) PROVE TypeOK'
  BY <1>2 DEF Start, Crash, TypeOK, rows, Stages, Running
<1>3. ASSUME NEW t \in Task, CreateSessionCheck(t) PROVE TypeOK'
  BY <1>3 DEF CreateSessionCheck, TypeOK, rows, Stages, Running
<1>4. ASSUME NEW t \in Task, CreateSessionInsert(t) PROVE TypeOK'
  <2>1. [zone |-> ZoneArg[t], status |-> "OPEN", counted |-> {}] \in SessionRow
    BY DEF SessionRow, Active
  <2>2. session' \in Seq(SessionRow) /\ Len(session') \in Nat
    BY <1>4, <2>1, AppendRow, SeqDomain DEF CreateSessionInsert, TypeOK
  <2> QED  BY <1>4, <2>2 DEF CreateSessionInsert, TypeOK, Stages, Running, Owning, Opened
<1>5. ASSUME NEW t \in Task, AssignAggregate(t) PROVE TypeOK'
  <2>1. Pool(ZoneArg[t]) \in SUBSET Nat
    BY SeqDomain DEF Pool, TypeOK
  <2> QED  BY <1>5, <2>1 DEF AssignAggregate, TypeOK, rows, Stages, Running, Owning, Opened
<1>6. ASSUME NEW t \in Task, AssignUpdate(t) PROVE TypeOK'
  <2> DEFINE s == sid[t]
             taken == Pool(ZoneArg[t])
             newLedger == [e \in DOMAIN ledger |->
                             IF e \in taken THEN [ledger[e] EXCEPT !.session = s] ELSE ledger[e]]
             newSession == [session EXCEPT ![s].status = "NETTING", ![s].counted = seen[t]]
  <2>1. newLedger \in Seq(EntryRow)
    <3>1. ledger \in [1 .. Len(ledger) -> EntryRow] /\ Len(ledger) \in Nat
      BY SeqDomain DEF TypeOK
    <3>2. \A e \in 1 .. Len(ledger) : [ledger[e] EXCEPT !.session = s] \in EntryRow
      BY <3>1 DEF EntryRow, TypeOK
    <3>3. newLedger \in [1 .. Len(ledger) -> EntryRow]
      BY <3>1, <3>2
    <3> QED  BY <3>1, <3>3, FunctionIsSeq
  <2>2. newSession \in Seq(SessionRow)
    <3>1. s \in DOMAIN session =>
            [session[s] EXCEPT !.status = "NETTING", !.counted = seen[t]] \in SessionRow
      <4>1. ASSUME s \in DOMAIN session PROVE session[s] \in SessionRow
        BY <4>1, SeqDomain DEF TypeOK
      <4>2. seen[t] \in SUBSET Nat
        BY DEF TypeOK
      <4> QED  BY <4>1, <4>2 DEF SessionRow, Active
    <3>2. newSession =
            [session EXCEPT ![s] = [session[s] EXCEPT !.status = "NETTING", !.counted = seen[t]]]
      OBVIOUS
    <3> QED  BY <3>1, <3>2, ReplaceRow DEF TypeOK
  <2> QED
    BY <1>6, <2>1, <2>2 DEF AssignUpdate, TypeOK, Stages, Running, Owning, Netted
<1>7. ASSUME NEW t \in Task, RunNetting(t) PROVE TypeOK'
  <2> DEFINE s == sid[t]
             net == NetObligations(Obligations(s))
             new == [k \in DOMAIN net |-> [session |-> s, from |-> net[k].from, to |-> net[k].to,
                                           amount |-> net[k].amount,
                                           status |-> "PENDING", note |-> "none"]]
  <2>1. net \in Seq([from : Bank, to : Bank, amount : Nat])
    BY <1>7 DEF RunNetting, Insertable
  <2>2. new \in Seq(TransferRow)
    <3> HIDE DEF net
    <3>1. net \in [1 .. Len(net) -> [from : Bank, to : Bank, amount : Nat]] /\ Len(net) \in Nat
      BY <2>1, SeqDomain
    <3>2. new \in [1 .. Len(net) -> TransferRow]
      BY <3>1 DEF TransferRow, TypeOK
    <3> QED  BY <3>1, <3>2, FunctionIsSeq
  <2>3. transfer' = transfer \o new
    BY <1>7 DEF RunNetting
  <2> HIDE DEF new
  <2>4. transfer' \in Seq(TransferRow) /\ DOMAIN transfer \subseteq DOMAIN transfer'
    BY <2>2, <2>3 DEF TypeOK
  <2>5. session' \in Seq(SessionRow)
    <3>1. session' = [session EXCEPT ![s].status = "SETTLING"]
      BY <1>7 DEF RunNetting
    <3> QED  BY <3>1, StatusType DEF TypeOK, Active
  <2>6. pc' \in [Task -> Stages]
    BY <1>7 DEF RunNetting, TypeOK, Stages, Running, Owning, Settling
  <2> QED  BY <1>7, <2>4, <2>5, <2>6 DEF RunNetting, TypeOK
<1>8. ASSUME NEW t \in Task, SettleBalanced(t) PROVE TypeOK'
  BY <1>8, SettleType DEF SettleBalanced, TypeOK, Stages, Running, Owning, Settling
<1>9. ASSUME NEW t \in Task, CompleteWithoutTransfers(t) PROVE TypeOK'
  <2>1. [session EXCEPT ![sid[t]].status = "COMPLETED"] \in Seq(SessionRow)
    BY StatusType DEF TypeOK, Closed
  <2> QED  BY <1>9, <2>1 DEF CompleteWithoutTransfers, TypeOK, Stages
<1>10. ASSUME NEW t \in Task, RTGSUnavailable(t) \/ RTGSHealthy(t) PROVE TypeOK'
  <2>1. TransfersOf(sid[t]) \in SUBSET Nat
    BY SeqDomain DEF TransfersOf, TypeOK
  <2> QED
    BY <1>10, <2>1
    DEF RTGSUnavailable, RTGSHealthy, TypeOK, rows, Stages, Running, Owning, Settling
<1>11. ASSUME NEW t \in Task, NEW booked \in BOOLEAN, NEW success \in BOOLEAN,
              NEW silent \in BOOLEAN, SettleOne(t, booked, success, silent)
       PROVE  TypeOK'
  <2>1. PICK x \in TransfersOf(sid[t]) \ asked[t] :
          /\ executed' = IF booked THEN executed \cup {x} ELSE executed
          /\ presumed' = IF silent THEN presumed \cup {x} ELSE presumed
          /\ asked' = [asked EXCEPT ![t] = @ \cup {x}]
          /\ granted' = IF success THEN [granted EXCEPT ![t] = @ \cup {x}] ELSE granted
          /\ \/ pc' = [pc EXCEPT ![t] = "save"]
             \/ pc' = [pc EXCEPT ![t] = "send"]
    BY <1>11 DEF SettleOne
  <2>2. x \in DOMAIN transfer /\ x \in Nat
    BY SeqDomain DEF TransfersOf, TypeOK
  <2> QED
    BY <1>11, <2>1, <2>2 DEF SettleOne, TypeOK, rows, Stages, Running, Owning, Settling
<1>12. ASSUME NEW t \in Task, SaveResult(t) PROVE TypeOK'
  <2>1. PICK x \in asked[t], note \in {"reference", "reason"} :
          /\ transfer' = [transfer EXCEPT ![x].note = note]
          /\ \/ pc' = [pc EXCEPT ![t] = "mark"]
             \/ pc' = [pc EXCEPT ![t] = "save"]
    BY <1>12 DEF SaveResult
  <2>2. transfer' \in Seq(TransferRow) /\ DOMAIN transfer' = DOMAIN transfer
    <3>1. x \in DOMAIN transfer => [transfer[x] EXCEPT !.note = note] \in TransferRow
      <4>1. ASSUME x \in DOMAIN transfer PROVE transfer[x] \in TransferRow
        BY <4>1, SeqDomain DEF TypeOK
      <4> QED  BY <4>1 DEF TransferRow
    <3>2. transfer' = [transfer EXCEPT ![x] = [transfer[x] EXCEPT !.note = note]]
      BY <2>1
    <3> QED  BY <3>1, <3>2, ReplaceRow DEF TypeOK
  <2> QED  BY <1>12, <2>1, <2>2 DEF SaveResult, TypeOK, Stages, Running, Owning, Settling
<1>13. ASSUME NEW t \in Task, MarkSettled(t) PROVE TypeOK'
  <2>1. ledger' \in Seq(EntryRow)
    BY <1>13, SettleType DEF MarkSettled, TypeOK
  <2>2. transfer' \in Seq(TransferRow) /\ DOMAIN transfer' = DOMAIN transfer
    <3>1. transfer \in [1 .. Len(transfer) -> TransferRow] /\ Len(transfer) \in Nat
      BY SeqDomain DEF TypeOK
    <3>2. \A x \in 1 .. Len(transfer) :
            [transfer[x] EXCEPT !.status = ResultStatus(t, x)] \in TransferRow
      BY <3>1 DEF ResultStatus, TransferRow
    <3>3. transfer' \in [1 .. Len(transfer) -> TransferRow]
      BY <1>13, <3>1, <3>2, SeqDomain DEF MarkSettled, TypeOK
    <3> QED  BY <3>1, <3>3, FunctionIsSeq, SeqDomain DEF TypeOK
  <2>3. session' \in Seq(SessionRow)
    <3>1. PICK status \in Closed : session' = [session EXCEPT ![sid[t]].status = status]
      BY <1>13 DEF MarkSettled, Closed
    <3> QED  BY <3>1, StatusType DEF TypeOK
  <2> QED  BY <1>13, <2>1, <2>2, <2>3 DEF MarkSettled, TypeOK, Stages
<1>14. CASE UNCHANGED vars
  BY <1>14 DEF vars, TypeOK
<1> QED
  BY <1>1, <1>2, <1>3, <1>4, <1>5, <1>6, <1>7, <1>8, <1>9, <1>10, <1>11, <1>12, <1>13, <1>14
  DEF Next, Step, Statement

(* Every variable keeps its type: rows keep their columns, a booked        *)
(* transfer is one that KLIK has stored.                                   *)
THEOREM TypeCorrect == Spec => []TypeOK
BY InitType, StepType, PTL DEF Spec

-----------------------------------------------------------------------------
(* The inductive invariant *)

(* A task owns the session it inserted, in its zone, until it is through   *)
(* with it; the session's status is the one its stage calls for.           *)
Owner(t, status) ==
  /\ sid[t] \in DOMAIN session
  /\ session[sid[t]].zone = ZoneArg[t]
  /\ session[sid[t]].status = status

Ownership ==
  \A t \in Task : /\ pc[t] \in Opened => Owner(t, "OPEN")
                  /\ pc[t] \in Netted => Owner(t, "NETTING")
                  /\ pc[t] \in Settling => Owner(t, "SETTLING")

OneOwner ==
  \A t, u \in Task : pc[t] \in Owning /\ pc[u] \in Owning /\ sid[t] = sid[u] => t = u

(* Entries and transfers refer to sessions that exist; a session has none  *)
(* before the stage that gives it some.                                    *)
References ==
  /\ \A e \in DOMAIN ledger : ledger[e].session # NULL => ledger[e].session \in DOMAIN session
  /\ \A x \in DOMAIN transfer : transfer[x].session \in DOMAIN session

NoneYet ==
  \A s \in DOMAIN session :
    /\ session[s].status = "OPEN" => EntriesOf(s) = {}
    /\ session[s].status \in {"OPEN", "NETTING"} => TransfersOf(s) = {}

(* What each stage knows about the session it owns. *)
Knows(t) ==
  /\ pc[t] = "empty" => EntriesOf(sid[t]) = {}
  /\ pc[t] \in {"balanced", "close"} => TransfersOf(sid[t]) = {}
  /\ pc[t] = "close" => \A e \in EntriesOf(sid[t]) : ledger[e].settled
  /\ pc[t] \in {"net", "balanced", "dispatch", "send", "save", "mark"} =>
       \A e \in EntriesOf(sid[t]) : ~ ledger[e].settled
  /\ pc[t] \in {"save", "mark"} => asked[t] = TransfersOf(sid[t])
  /\ pc[t] \in {"send", "save", "mark"} => asked[t] \subseteq TransfersOf(sid[t])
  /\ granted[t] \subseteq asked[t] \cap TakenAsPaid
  /\ pc[t] \in {"idle", "check", "insert", "dispatch"} \cup Opened \cup Netted => asked[t] = {}

StageFacts == \A t \in Task : Knows(t)

IInv == /\ TypeOK /\ Ownership /\ OneOwner /\ References /\ NoneYet /\ StageFacts
        /\ CompletedSessionCleared /\ FailedSessionSettlesPaidPairs

(* The empty database satisfies the invariant: there is nothing to own. *)
THEOREM InitIInv == Init => IInv
BY InitType
DEF Init, IInv, Ownership, OneOwner, References, NoneYet, StageFacts, Knows, CompletedSessionCleared,
    FailedSessionSettlesPaidPairs, TakenAsPaid, Opened, Netted, Settling, Owning

(* Steps that store no row: the environment's start and crash of a task,   *)
(* reads, and the exchange with the RTGS.                                  *)
LEMMA QuietStep ==
  ASSUME IInv, TypeOK', NEW t \in Task,
         UNCHANGED <<rows, sid>>,
         pc' = [pc EXCEPT ![t] = pc'[t]],
         \/ /\ UNCHANGED <<asked, granted, executed, presumed>>
            /\ \/ pc[t] \in {"idle", "check"} /\ pc'[t] \in {"check", "insert", "skipped"}
               \/ pc'[t] = "dead"
               \/ pc[t] = "aggregate" /\ pc'[t] = "assign"
               \/ pc[t] = "dispatch" /\ pc'[t] = "send"
         \/ /\ pc[t] = "dispatch" /\ pc'[t] = "mark"
            /\ asked' = [asked EXCEPT ![t] = TransfersOf(sid[t])]
            /\ UNCHANGED <<granted, executed, presumed>>
         \/ \E x \in TransfersOf(sid[t]) \ asked[t] :
              /\ pc[t] = "send"
              /\ asked' = [asked EXCEPT ![t] = @ \cup {x}]
              /\ executed \subseteq executed' /\ presumed \subseteq presumed'
              /\ \/ UNCHANGED granted
                 \/ /\ x \in executed' \cup presumed'
                    /\ granted' = [granted EXCEPT ![t] = @ \cup {x}]
              /\ \/ pc'[t] = "send"
                 \/ pc'[t] = "save" /\ TransfersOf(sid[t]) \ asked[t] = {x}
  PROVE  IInv'
<1> USE DEF rows, TakenAsPaid
<1>1. UNCHANGED <<ledger, session, transfer>> /\ TakenAsPaid \subseteq TakenAsPaid'
  OBVIOUS
<1>2. Ownership' /\ OneOwner'
  <2>1. /\ pc'[t] \in Opened => pc[t] \in Opened
        /\ pc'[t] \in Netted => pc[t] \in Netted
        /\ pc'[t] \in Settling => pc[t] \in Settling
    BY DEF Opened, Netted, Settling
  <2>2. \A u \in Task : pc'[u] = IF u = t THEN pc'[t] ELSE pc[u]
    BY DEF IInv, TypeOK
  <2>3. Ownership'
    BY <1>1, <2>1, <2>2 DEF IInv, Ownership, Owner
  <2>4. \A u \in Task : pc'[u] \in Owning => pc[u] \in Owning
    BY <2>1, <2>2 DEF Owning
  <2>5. OneOwner'
    BY <1>1, <2>4 DEF IInv, OneOwner
  <2> QED  BY <2>3, <2>5
<1>3. References' /\ NoneYet'
  BY <1>1 DEF IInv, References, NoneYet, EntriesOf, TransfersOf
<1>4. StageFacts'
  BY <1>1 DEF IInv, TypeOK, StageFacts, Knows, EntriesOf, TransfersOf, Opened, Netted
<1>5. CompletedSessionCleared' /\ FailedSessionSettlesPaidPairs'
  BY <1>1 DEF IInv, CompletedSessionCleared, FailedSessionSettlesPaidPairs, EntriesOf,
              TransfersOf, SamePair
<1> QED  BY <1>2, <1>3, <1>4, <1>5 DEF IInv

(* What a task knows stays true while its session is left alone. *)
LEMMA KnowsStable ==
  ASSUME NEW u \in Task, Knows(u),
         pc'[u] = pc[u], sid'[u] = sid[u], asked'[u] = asked[u], granted'[u] = granted[u],
         TakenAsPaid \subseteq TakenAsPaid',
         pc[u] \in Owning =>
           /\ EntriesOf(sid[u])' = EntriesOf(sid[u])
           /\ \A e \in EntriesOf(sid[u]) : ledger'[e].settled = ledger[e].settled
           /\ TransfersOf(sid[u])' = TransfersOf(sid[u])
  PROVE  Knows(u)'
<1>1. CASE pc[u] \in Owning
  BY <1>1 DEF Knows
<1>2. CASE pc[u] \notin Owning
  BY <1>2 DEF Knows, Owning, Opened, Netted, Settling
<1> QED  BY <1>1, <1>2

(* What holds of a closed session stays true while nothing touches it; no  *)
(* session that is not closed is in the scope of the two invariants.       *)
LEMMA ClosedStable ==
  ASSUME CompletedSessionCleared, FailedSessionSettlesPaidPairs,
         TakenAsPaid \subseteq TakenAsPaid',
         \A s \in DOMAIN session' : session'[s].status \in Closed =>
           /\ s \in DOMAIN session /\ session[s].status = session'[s].status
           /\ EntriesOf(s)' = EntriesOf(s)
           /\ \A e \in EntriesOf(s) : ledger'[e] = ledger[e]
           /\ TransfersOf(s)' = TransfersOf(s)
           /\ \A x \in TransfersOf(s) : /\ transfer'[x].status = transfer[x].status
                                        /\ transfer'[x].from = transfer[x].from
                                        /\ transfer'[x].to = transfer[x].to
  PROVE  CompletedSessionCleared' /\ FailedSessionSettlesPaidPairs'
<1>1. CompletedSessionCleared'
  BY DEF CompletedSessionCleared, Closed
<1>2. FailedSessionSettlesPaidPairs'
  BY DEF FailedSessionSettlesPaidPairs, SamePair, Closed
<1> QED  BY <1>1, <1>2

(* A new entry belongs to no session. *)
LEMMA RecordStep ==
  ASSUME IInv, TypeOK',
         NEW from \in Bank, NEW to \in Bank, NEW amount \in Amounts,
         RecordEntry(from, to, amount)
  PROVE  IInv'
<1> USE DEF TakenAsPaid
<1> DEFINE row == [from |-> from, to |-> to, amount |-> amount,
                   session |-> NULL, settled |-> FALSE]
           new == Len(ledger) + 1
<1>1. /\ DOMAIN ledger' = DOMAIN ledger \cup {new}
      /\ \A e \in DOMAIN ledger : ledger'[e] = ledger[e]
      /\ ledger'[new].session = NULL
  <2>1. row \in EntryRow
    BY SettlementAssumption DEF EntryRow, NULL
  <2>2. ledger' = Append(ledger, row)
    BY DEF RecordEntry
  <2>3. ledger'[new] = row
    BY <2>1, <2>2, AppendRow DEF IInv, TypeOK
  <2> QED  BY <2>1, <2>2, <2>3, AppendRow DEF IInv, TypeOK
<1>2. UNCHANGED <<session, transfer, executed, presumed, pc, sid, seen, asked, granted>>
  BY DEF RecordEntry, local
<1>3. \A s \in DOMAIN session : s # NULL
  BY SeqDomain DEF IInv, TypeOK, NULL
<1>4. \A s \in DOMAIN session : /\ EntriesOf(s)' = EntriesOf(s)
                                /\ EntriesOf(s) \subseteq DOMAIN ledger
                                /\ TransfersOf(s)' = TransfersOf(s)
  BY <1>1, <1>2, <1>3 DEF EntriesOf, TransfersOf
<1>5. Ownership' /\ OneOwner'
  BY <1>2 DEF IInv, Ownership, OneOwner, Owner
<1>6. References' /\ NoneYet'
  BY <1>1, <1>2, <1>4 DEF IInv, References, NoneYet
<1>7. StageFacts'
  <2>1. \A u \in Task : pc[u] \in Owning => sid[u] \in DOMAIN session
    BY DEF IInv, Ownership, Owner, Owning
  <2>2. \A u \in Task : TransfersOf(sid[u])' = TransfersOf(sid[u])
    BY <1>2 DEF TransfersOf
  <2> QED
    BY <1>1, <1>2, <1>4, <2>1, <2>2, KnowsStable DEF IInv, StageFacts
<1>8. CompletedSessionCleared' /\ FailedSessionSettlesPaidPairs'
  BY <1>1, <1>2, <1>4
  DEF IInv, CompletedSessionCleared, FailedSessionSettlesPaidPairs, SamePair
<1> QED  BY <1>5, <1>6, <1>7, <1>8 DEF IInv

(* A new session has an owner, no entry and no transfer. *)
LEMMA OpenStep ==
  ASSUME IInv, TypeOK', NEW t \in Task, CreateSessionInsert(t)
  PROVE  IInv'
<1> USE DEF TakenAsPaid
<1> DEFINE row == [zone |-> ZoneArg[t], status |-> "OPEN", counted |-> {}]
           new == Len(session) + 1
<1>1. /\ DOMAIN session' = DOMAIN session \cup {new}
      /\ \A s \in DOMAIN session : session'[s] = session[s]
      /\ session'[new] = row
      /\ new \notin DOMAIN session
      /\ new # NULL
      /\ sid' = [sid EXCEPT ![t] = new]
  <2>1. row \in SessionRow
    BY SettlementAssumption DEF SessionRow, Active
  <2> QED
    BY <2>1, AppendRow, SeqDomain DEF CreateSessionInsert, IInv, TypeOK, NULL
<1>2. /\ UNCHANGED <<ledger, transfer, executed, presumed, asked, granted>>
      /\ pc[t] = "insert" /\ pc' = [pc EXCEPT ![t] = "aggregate"]
  BY DEF CreateSessionInsert
<1>3. \A u \in Task : /\ u # t => pc'[u] = pc[u] /\ sid'[u] = sid[u]
                      /\ pc'[t] = "aggregate" /\ sid'[t] = new
  BY <1>1, <1>2 DEF IInv, TypeOK
<1>4. EntriesOf(new) = {} /\ TransfersOf(new) = {}
  BY <1>1 DEF IInv, References, EntriesOf, TransfersOf
<1>5. \A s : EntriesOf(s)' = EntriesOf(s) /\ TransfersOf(s)' = TransfersOf(s)
  BY <1>2 DEF EntriesOf, TransfersOf
<1>6. \A u \in Task : pc[u] \in Owning => sid[u] \in DOMAIN session
  BY DEF IInv, Ownership, Owner, Owning
<1>7. Ownership'
  BY <1>1, <1>3, <1>6 DEF IInv, Ownership, Owner, Owning, Opened, Netted, Settling
<1>8. OneOwner'
  BY <1>1, <1>3, <1>6 DEF IInv, OneOwner, Owning, Opened
<1>9. References' /\ NoneYet'
  BY <1>1, <1>2, <1>4, <1>5 DEF IInv, References, NoneYet
<1>10. StageFacts'
  <2>1. \A u \in Task : u # t => /\ EntriesOf(sid[u])' = EntriesOf(sid[u])
                                 /\ TransfersOf(sid[u])' = TransfersOf(sid[u])
    BY <1>2, <1>3 DEF EntriesOf, TransfersOf
  <2> QED
    BY <1>2, <1>3, <2>1 DEF IInv, StageFacts, Knows, Opened, Netted
<1>11. CompletedSessionCleared' /\ FailedSessionSettlesPaidPairs'
  BY <1>1, <1>2, <1>4, <1>5
  DEF IInv, CompletedSessionCleared, FailedSessionSettlesPaidPairs, SamePair
<1> QED  BY <1>7, <1>8, <1>9, <1>10, <1>11 DEF IInv

(* The owner changes the status of its session: no other task owns it, so  *)
(* no other task notices.                                                  *)
LEMMA OwnerChangesStatus ==
  ASSUME IInv, NEW t \in Task, pc[t] \in Owning, UNCHANGED sid,
         DOMAIN session' = DOMAIN session,
         \A s \in DOMAIN session : s # sid[t] => session'[s] = session[s],
         session'[sid[t]].zone = session[sid[t]].zone,
         pc' = [pc EXCEPT ![t] = pc'[t]],
         pc'[t] \in Opened => session'[sid[t]].status = "OPEN",
         pc'[t] \in Netted => session'[sid[t]].status = "NETTING",
         pc'[t] \in Settling => session'[sid[t]].status = "SETTLING"
  PROVE  /\ Ownership' /\ OneOwner'
         /\ sid[t] \in DOMAIN session
         /\ \A u \in Task : u # t => pc'[u] = pc[u]
         /\ \A u \in Task : u # t /\ pc[u] \in Owning => sid[u] # sid[t]
<1>1. sid[t] \in DOMAIN session /\ session[sid[t]].zone = ZoneArg[t]
  BY DEF IInv, Ownership, Owner, Owning
<1>2. \A u \in Task : u # t => pc'[u] = pc[u]
  BY DEF IInv, TypeOK
<1>3. \A u \in Task : u # t /\ pc[u] \in Owning => sid[u] # sid[t]
  BY DEF IInv, OneOwner
<1>4. Ownership'
  BY <1>1, <1>2, <1>3 DEF IInv, Ownership, Owner, Owning
<1>5. OneOwner'
  BY <1>2 DEF IInv, OneOwner
<1> QED  BY <1>1, <1>2, <1>3, <1>4, <1>5

(* The pool goes to the session of t, and to no other. *)
LEMMA AssignStep ==
  ASSUME IInv, TypeOK', NEW t \in Task, AssignUpdate(t)
  PROVE  IInv'
<1> USE DEF TakenAsPaid
<1> DEFINE s == sid[t]
           taken == Pool(ZoneArg[t])
<1>1. /\ pc[t] = "assign"
      /\ ledger' = [e \in DOMAIN ledger |->
                      IF e \in taken THEN [ledger[e] EXCEPT !.session = s] ELSE ledger[e]]
      /\ session' = [session EXCEPT ![s].status = "NETTING", ![s].counted = seen[t]]
      /\ pc' = [pc EXCEPT ![t] = IF taken = {} THEN "empty" ELSE "net"]
      /\ UNCHANGED <<transfer, executed, presumed, sid, asked, granted>>
  BY DEF AssignUpdate
<1>2. /\ s \in DOMAIN session /\ session[s] \in SessionRow /\ session[s].status = "OPEN"
      /\ s # NULL
  BY <1>1, SeqDomain DEF IInv, TypeOK, Ownership, Owner, Opened, NULL
<1>3. /\ DOMAIN session' = DOMAIN session
      /\ session'[s].status = "NETTING" /\ session'[s].zone = session[s].zone
      /\ \A r \in DOMAIN session : r # s => session'[r] = session[r]
  BY <1>1, <1>2 DEF SessionRow
<1>4. pc'[t] = (IF taken = {} THEN "empty" ELSE "net") /\ pc' = [pc EXCEPT ![t] = pc'[t]]
  BY <1>1 DEF IInv, TypeOK
<1>5. /\ Ownership' /\ OneOwner'
      /\ \A u \in Task : u # t => pc'[u] = pc[u]
      /\ \A u \in Task : u # t /\ pc[u] \in Owning => sid[u] # s
  <2>1. /\ pc[t] \in Owning
        /\ pc'[t] \notin Opened /\ pc'[t] \in Netted /\ pc'[t] \notin Settling
    BY <1>1, <1>4 DEF Owning, Opened, Netted, Settling
  <2> QED  BY <1>1, <1>3, <1>4, <2>1, OwnerChangesStatus
<1>6. /\ DOMAIN ledger' = DOMAIN ledger
      /\ \A e \in taken : /\ e \in DOMAIN ledger /\ ledger[e].session = NULL
                          /\ ~ ledger[e].settled
                          /\ ledger'[e].session = s /\ ~ ledger'[e].settled
      /\ \A e \in DOMAIN ledger \ taken : ledger'[e] = ledger[e]
  <2>1. \A e \in DOMAIN ledger : ledger[e] \in EntryRow
    BY SeqDomain DEF IInv, TypeOK
  <2> QED  BY <1>1, <2>1 DEF Pool, EntryRow
<1>7. /\ EntriesOf(s)' = taken
      /\ \A r \in DOMAIN session : r # s => EntriesOf(r)' = EntriesOf(r)
  <2>1. EntriesOf(s) = {}
    BY <1>2 DEF IInv, NoneYet
  <2>2. \A r \in DOMAIN session : r # NULL
    BY SeqDomain DEF IInv, TypeOK, NULL
  <2> QED  BY <1>1, <1>6, <2>1, <2>2 DEF EntriesOf
<1>8. \A r : TransfersOf(r)' = TransfersOf(r)
  BY <1>1 DEF TransfersOf
<1>9. References' /\ NoneYet'
  BY <1>1, <1>2, <1>3, <1>6, <1>7, <1>8 DEF IInv, References, NoneYet
<1>10. StageFacts'
  <2>1. \A u \in Task : pc[u] \in Owning => sid[u] \in DOMAIN session
    BY DEF IInv, Ownership, Owner, Owning
  <2>2. \A u \in Task : u # t /\ pc[u] \in Owning =>
          /\ EntriesOf(sid[u])' = EntriesOf(sid[u])
          /\ \A e \in EntriesOf(sid[u]) : ledger'[e] = ledger[e]
    <3>1. ASSUME NEW u \in Task, u # t, pc[u] \in Owning
          PROVE  /\ EntriesOf(sid[u])' = EntriesOf(sid[u])
                 /\ \A e \in EntriesOf(sid[u]) : ledger'[e] = ledger[e]
      <4>1. sid[u] \in DOMAIN session /\ sid[u] # s /\ sid[u] # NULL
        BY <3>1, <2>1, <1>5, SeqDomain DEF IInv, TypeOK, NULL
      <4>2. EntriesOf(sid[u])' = EntriesOf(sid[u])
        BY <1>1, <1>7, <4>1 DEF EntriesOf
      <4>3. \A e \in EntriesOf(sid[u]) : e \in DOMAIN ledger /\ e \notin taken
        BY <1>6, <4>1 DEF EntriesOf
      <4> QED  BY <1>6, <4>2, <4>3
    <3> QED  BY <3>1
  <2>3. \A u \in Task : TransfersOf(sid[u])' = TransfersOf(sid[u])
    BY <1>1 DEF TransfersOf
  <2>4. EntriesOf(sid[t])' = taken
    BY <1>1, <1>7 DEF EntriesOf
  <2>5. Knows(t)'
    <3> HIDE DEF taken
    <3> QED  BY <1>1, <1>4, <1>6, <2>4 DEF IInv, StageFacts, Knows, Opened, Netted
  <2>6. ASSUME NEW u \in Task, u # t PROVE Knows(u)'
    <3> HIDE DEF taken
    <3> QED  BY <1>1, <1>5, <2>2, <2>3, <2>6, KnowsStable DEF IInv, StageFacts
  <2> QED  BY <2>5, <2>6 DEF StageFacts
<1>11. CompletedSessionCleared' /\ FailedSessionSettlesPaidPairs'
  <2>1. \A r \in DOMAIN session : r # s => \A e \in EntriesOf(r) : ledger'[e] = ledger[e]
    <3>1. \A r \in DOMAIN session : r # NULL
      BY SeqDomain DEF IInv, TypeOK, NULL
    <3> QED  BY <1>6, <3>1 DEF EntriesOf
  <2>2. "NETTING" \notin Closed
    BY DEF Closed
  <2> HIDE DEF taken
  <2> QED  BY <1>1, <1>3, <1>7, <1>8, <2>1, <2>2, ClosedStable DEF IInv
<1> QED  BY <1>5, <1>9, <1>10, <1>11 DEF IInv

(* The new transfers belong to the session of t. *)
LEMMA NettingStep ==
  ASSUME IInv, TypeOK', NEW t \in Task, RunNetting(t)
  PROVE  IInv'
<1> USE DEF TakenAsPaid
<1> DEFINE s == sid[t]
           net == NetObligations(Obligations(s))
           new == [k \in DOMAIN net |-> [session |-> s, from |-> net[k].from, to |-> net[k].to,
                                         amount |-> net[k].amount,
                                         status |-> "PENDING", note |-> "none"]]
<1>1. /\ pc[t] = "net"
      /\ transfer' = transfer \o new
      /\ session' = [session EXCEPT ![s].status = "SETTLING"]
      /\ pc' = [pc EXCEPT ![t] = IF net = <<>> THEN "balanced" ELSE "dispatch"]
      /\ net \in Seq([from : Bank, to : Bank, amount : Nat])
      /\ UNCHANGED <<ledger, executed, presumed, sid, asked, granted>>
  BY DEF RunNetting, Insertable
<1>2. s \in DOMAIN session /\ session[s] \in SessionRow /\ session[s].status = "NETTING"
  BY <1>1, SeqDomain DEF IInv, TypeOK, Ownership, Owner, Netted
<1>3. /\ DOMAIN session' = DOMAIN session
      /\ session'[s].status = "SETTLING" /\ session'[s].zone = session[s].zone
      /\ \A r \in DOMAIN session : r # s => session'[r] = session[r]
  BY <1>1, <1>2 DEF SessionRow
<1>4. /\ new \in Seq(TransferRow)
      /\ \A k \in DOMAIN new : new[k].session = s
      /\ net = <<>> => new = <<>>
  <2> HIDE DEF net
  <2>1. net \in [1 .. Len(net) -> [from : Bank, to : Bank, amount : Nat]] /\ Len(net) \in Nat
    BY <1>1, SeqDomain
  <2>2. new \in [1 .. Len(net) -> TransferRow]
    BY <2>1 DEF TransferRow, IInv, TypeOK
  <2>3. net = <<>> => Len(net) = 0
    OBVIOUS
  <2> QED  BY <2>1, <2>2, <2>3, FunctionIsSeq
<1> HIDE DEF new
<1>5. /\ DOMAIN transfer \subseteq DOMAIN transfer'
      /\ \A x \in DOMAIN transfer : transfer'[x] = transfer[x]
      /\ \A x \in DOMAIN transfer' \ DOMAIN transfer : transfer'[x].session = s
      /\ net = <<>> => DOMAIN transfer' = DOMAIN transfer
  BY <1>1, <1>4 DEF IInv, TypeOK
<1> HIDE DEF net
<1>6. /\ \A r \in DOMAIN session : r # s => TransfersOf(r)' = TransfersOf(r)
      /\ TransfersOf(s) = {}
      /\ net = <<>> => TransfersOf(s)' = {}
  <2>1. TransfersOf(s) = {}
    BY <1>2 DEF IInv, NoneYet
  <2> QED  BY <1>1, <1>5, <2>1 DEF TransfersOf
<1>7. /\ Ownership' /\ OneOwner'
      /\ \A u \in Task : u # t => pc'[u] = pc[u]
      /\ \A u \in Task : u # t /\ pc[u] \in Owning => sid[u] # s
  <2>1. pc' = [pc EXCEPT ![t] = pc'[t]] /\ pc[t] \in Owning
    BY <1>1 DEF IInv, TypeOK, Owning, Netted
  <2>2. pc'[t] \notin Opened /\ pc'[t] \notin Netted /\ pc'[t] \in Settling
    BY <1>1 DEF IInv, TypeOK, Opened, Netted, Settling
  <2> QED  BY <1>1, <1>3, <2>1, <2>2, OwnerChangesStatus
<1>8. \A r : EntriesOf(r)' = EntriesOf(r)
  BY <1>1 DEF EntriesOf
<1>9. References' /\ NoneYet'
  BY <1>1, <1>2, <1>3, <1>5, <1>6, <1>8 DEF IInv, References, NoneYet
<1>10. StageFacts'
  <2>1. \A u \in Task : pc[u] \in Owning => sid[u] \in DOMAIN session
    BY DEF IInv, Ownership, Owner, Owning
  <2>2. ASSUME NEW u \in Task, u # t, pc[u] \in Owning
        PROVE  TransfersOf(sid[u])' = TransfersOf(sid[u])
    <3>1. sid[u] \in DOMAIN session /\ sid[u] # s
      BY <2>1, <2>2, <1>7
    <3> QED  BY <1>1, <1>5, <3>1 DEF TransfersOf
  <2>3. \A u \in Task : EntriesOf(sid[u])' = EntriesOf(sid[u])
    BY <1>1 DEF EntriesOf
  <2>4. Knows(t)'
    <3>1. /\ pc'[t] = IF net = <<>> THEN "balanced" ELSE "dispatch"
          /\ UNCHANGED <<ledger, sid, asked, granted, executed, presumed>>
      BY <1>1 DEF IInv, TypeOK
    <3>2. net = <<>> => TransfersOf(sid[t])' = {}
      BY <1>6, <3>1 DEF TransfersOf
    <3> QED  BY <1>1, <2>3, <3>1, <3>2 DEF IInv, StageFacts, Knows, Opened, Netted
  <2>5. ASSUME NEW u \in Task, u # t PROVE Knows(u)'
    BY <1>1, <1>7, <2>2, <2>3, <2>5, KnowsStable DEF IInv, StageFacts
  <2> QED  BY <2>4, <2>5 DEF StageFacts
<1>11. CompletedSessionCleared' /\ FailedSessionSettlesPaidPairs'
  <2>1. "SETTLING" \notin Closed
    BY DEF Closed
  <2>2. \A r \in DOMAIN session : \A x \in TransfersOf(r) : transfer'[x] = transfer[x]
    BY <1>5 DEF TransfersOf
  <2>3. \A r \in DOMAIN session' : session'[r].status \in Closed =>
          /\ r \in DOMAIN session /\ r # s /\ session[r].status = session'[r].status
    BY <1>3, <2>1
  <2>4. CompletedSessionCleared /\ FailedSessionSettlesPaidPairs /\ TakenAsPaid \subseteq TakenAsPaid'
    BY <1>1 DEF IInv
  <2>5. \A r : \A e \in EntriesOf(r) : ledger'[e] = ledger[e]
    BY <1>1
  <2> QED  BY <1>6, <1>8, <2>2, <2>3, <2>4, <2>5, ClosedStable
<1> QED  BY <1>7, <1>9, <1>10, <1>11 DEF IInv

(* Settling the entries of a session that t owns. *)
LEMMA SettleEffect ==
  ASSUME ledger \in Seq(EntryRow), NEW some, ledger' = Settle(some)
  PROVE  /\ DOMAIN ledger' = DOMAIN ledger
         /\ \A e \in DOMAIN ledger :
              /\ ledger'[e].session = ledger[e].session
              /\ ledger'[e].from = ledger[e].from
              /\ ledger'[e].to = ledger[e].to
              /\ ledger'[e].amount = ledger[e].amount
              /\ ledger'[e].settled = (ledger[e].settled \/ e \in some)
              /\ e \notin some => ledger'[e] = ledger[e]
         /\ \A r : EntriesOf(r)' = EntriesOf(r)
<1>1. \A e \in DOMAIN ledger : ledger[e] \in EntryRow
  BY SeqDomain
<1>2. /\ DOMAIN ledger' = DOMAIN ledger
      /\ \A e \in DOMAIN ledger :
           ledger'[e] = IF e \in some THEN [ledger[e] EXCEPT !.settled = TRUE] ELSE ledger[e]
  BY DEF Settle
<1>3. \A e \in DOMAIN ledger : /\ ledger'[e].session = ledger[e].session
                               /\ ledger'[e].from = ledger[e].from
                               /\ ledger'[e].to = ledger[e].to
                               /\ ledger'[e].amount = ledger[e].amount
                               /\ e \notin some => ledger'[e] = ledger[e]
  BY <1>1, <1>2 DEF EntryRow
<1>4. \A e \in DOMAIN ledger : ledger'[e].settled = (ledger[e].settled \/ e \in some)
  <2>1. \A e \in DOMAIN ledger : e \in some => ledger'[e].settled = TRUE
    BY <1>1, <1>2 DEF EntryRow
  <2> QED  BY <1>1, <1>3, <2>1 DEF EntryRow
<1> QED  BY <1>2, <1>3, <1>4 DEF EntriesOf

(* A balanced session settles its entries. *)
LEMMA BalanceStep ==
  ASSUME IInv, TypeOK', NEW t \in Task, SettleBalanced(t)
  PROVE  IInv'
<1> USE DEF TakenAsPaid
<1>1. /\ pc[t] = "balanced" /\ ledger' = Settle(EntriesOf(sid[t]))
      /\ pc' = [pc EXCEPT ![t] = "close"] /\ pc'[t] = "close"
      /\ UNCHANGED <<session, transfer, executed, presumed, sid, asked, granted>>
  BY DEF SettleBalanced, IInv, TypeOK
<1>2. sid[t] \in DOMAIN session /\ session[sid[t]].status = "SETTLING"
  BY <1>1 DEF IInv, Ownership, Owner, Settling
<1>3. /\ Ownership' /\ OneOwner'
      /\ \A u \in Task : u # t => pc'[u] = pc[u]
      /\ \A u \in Task : u # t /\ pc[u] \in Owning => sid[u] # sid[t]
  <2>1. pc'[t] \notin Opened /\ pc'[t] \notin Netted /\ pc[t] \in Owning
    BY <1>1 DEF Owning, Opened, Netted, Settling
  <2> QED  BY <1>1, <1>2, <2>1, OwnerChangesStatus
<1>4. /\ DOMAIN ledger' = DOMAIN ledger
      /\ \A e \in DOMAIN ledger :
           /\ ledger'[e].session = ledger[e].session
           /\ e \in EntriesOf(sid[t]) => ledger'[e].settled
           /\ e \notin EntriesOf(sid[t]) => ledger'[e] = ledger[e]
      /\ \A r : EntriesOf(r)' = EntriesOf(r)
  BY <1>1, SettleEffect DEF IInv, TypeOK
<1>5. \A r : TransfersOf(r)' = TransfersOf(r)
  BY <1>1 DEF TransfersOf
<1>6. References' /\ NoneYet'
  BY <1>1, <1>4, <1>5 DEF IInv, References, NoneYet
<1>7. \A r : r # sid[t] => \A e \in EntriesOf(r) : ledger'[e] = ledger[e]
  BY <1>4 DEF EntriesOf
<1>8. StageFacts'
  <2>1. \A u \in Task : /\ EntriesOf(sid[u])' = EntriesOf(sid[u])
                        /\ TransfersOf(sid[u])' = TransfersOf(sid[u])
    BY <1>1, <1>4, <1>5 DEF EntriesOf, TransfersOf
  <2>2. Knows(t)'
    <3>1. \A e \in EntriesOf(sid[t]) : ledger'[e].settled
      BY <1>4 DEF EntriesOf
    <3> QED  BY <1>1, <2>1, <3>1 DEF IInv, StageFacts, Knows, Opened, Netted
  <2>3. ASSUME NEW u \in Task, u # t PROVE Knows(u)'
    BY <1>1, <1>3, <1>7, <2>1, <2>3, KnowsStable DEF IInv, StageFacts
  <2> QED  BY <2>2, <2>3 DEF StageFacts
<1>9. CompletedSessionCleared' /\ FailedSessionSettlesPaidPairs'
  <2>1. "SETTLING" \notin Closed
    BY DEF Closed
  <2> QED  BY <1>1, <1>2, <1>4, <1>5, <1>7, <2>1, ClosedStable DEF IInv
<1> QED  BY <1>3, <1>6, <1>8, <1>9 DEF IInv

(* Nothing is left of a session that completes without transfers. *)
LEMMA CompleteStep ==
  ASSUME IInv, TypeOK', NEW t \in Task, CompleteWithoutTransfers(t)
  PROVE  IInv'
<1> USE DEF TakenAsPaid
<1> DEFINE s == sid[t]
<1>1. /\ pc[t] \in {"empty", "close"}
      /\ session' = [session EXCEPT ![s].status = "COMPLETED"]
      /\ pc' = [pc EXCEPT ![t] = "done"] /\ pc'[t] = "done"
      /\ UNCHANGED <<ledger, transfer, executed, presumed, sid, asked, granted>>
  BY DEF CompleteWithoutTransfers, IInv, TypeOK
<1>2. s \in DOMAIN session /\ session[s] \in SessionRow
  BY <1>1, SeqDomain DEF IInv, TypeOK, Ownership, Owner, Netted, Settling
<1>3. /\ DOMAIN session' = DOMAIN session
      /\ session'[s].status = "COMPLETED" /\ session'[s].zone = session[s].zone
      /\ \A r \in DOMAIN session : r # s => session'[r] = session[r]
  BY <1>1, <1>2 DEF SessionRow
<1>4. /\ Ownership' /\ OneOwner'
      /\ \A u \in Task : u # t => pc'[u] = pc[u]
  <2>1. /\ pc'[t] \notin Opened /\ pc'[t] \notin Netted /\ pc'[t] \notin Settling
        /\ pc[t] \in Owning /\ pc' = [pc EXCEPT ![t] = pc'[t]]
    BY <1>1 DEF Owning, Opened, Netted, Settling
  <2> QED  BY <1>1, <1>3, <2>1, OwnerChangesStatus
<1>5. \A r : EntriesOf(r)' = EntriesOf(r) /\ TransfersOf(r)' = TransfersOf(r)
  BY <1>1 DEF EntriesOf, TransfersOf
<1>6. References' /\ NoneYet'
  BY <1>1, <1>3, <1>5 DEF IInv, References, NoneYet
<1>7. StageFacts'
  <2>1. \A u \in Task : /\ EntriesOf(sid[u])' = EntriesOf(sid[u])
                        /\ TransfersOf(sid[u])' = TransfersOf(sid[u])
    BY <1>1 DEF EntriesOf, TransfersOf
  <2>2. Knows(t)'
    BY <1>1 DEF IInv, StageFacts, Knows, Opened, Netted
  <2>3. ASSUME NEW u \in Task, u # t PROVE Knows(u)'
    BY <1>1, <1>4, <2>1, <2>3, KnowsStable DEF IInv, StageFacts
  <2> QED  BY <2>2, <2>3 DEF StageFacts
<1>8. (\A e \in EntriesOf(s) : ledger[e].settled) /\ TransfersOf(s) = {}
  <2>1. CASE pc[t] = "empty"
    <3>1. EntriesOf(s) = {}
      BY <2>1 DEF IInv, StageFacts, Knows
    <3>2. session[s].status = "NETTING"
      BY <2>1 DEF IInv, Ownership, Owner, Netted
    <3> QED  BY <1>2, <3>1, <3>2 DEF IInv, NoneYet
  <2>2. CASE pc[t] = "close"
    BY <2>2 DEF IInv, StageFacts, Knows
  <2> QED  BY <1>1, <2>1, <2>2
<1>9. CompletedSessionCleared'
  <2>1. ASSUME NEW r \in DOMAIN session', session'[r].status = "COMPLETED"
        PROVE  /\ \A e \in EntriesOf(r)' : ledger'[e].settled
               /\ \A x \in TransfersOf(r)' : transfer'[x].status = "COMPLETED" /\ x \in TakenAsPaid'
    <3>1. CASE r = s
      BY <1>1, <1>5, <1>8, <3>1
    <3>2. CASE r # s
      BY <1>1, <1>3, <1>5, <2>1, <3>2 DEF IInv, CompletedSessionCleared
    <3> QED  BY <3>1, <3>2
  <2> QED  BY <2>1 DEF CompletedSessionCleared
<1>10. FailedSessionSettlesPaidPairs'
  BY <1>1, <1>3, <1>5 DEF IInv, FailedSessionSettlesPaidPairs, SamePair
<1> QED  BY <1>4, <1>6, <1>7, <1>9, <1>10 DEF IInv

(* A note on a transfer changes neither its status nor its banks. *)
LEMMA SaveStep ==
  ASSUME IInv, TypeOK', NEW t \in Task, SaveResult(t)
  PROVE  IInv'
<1> USE DEF TakenAsPaid
<1>1. PICK x \in asked[t], note \in {"reference", "reason"} :
        transfer' = [transfer EXCEPT ![x].note = note]
  BY DEF SaveResult
<1>2. /\ pc[t] = "save" /\ pc'[t] \in {"save", "mark"} /\ pc' = [pc EXCEPT ![t] = pc'[t]]
      /\ UNCHANGED <<ledger, session, executed, presumed, sid, asked, granted>>
  BY DEF SaveResult, IInv, TypeOK
<1>3. /\ DOMAIN transfer' = DOMAIN transfer
      /\ \A y \in DOMAIN transfer : /\ transfer'[y].session = transfer[y].session
                                    /\ transfer'[y].status = transfer[y].status
                                    /\ transfer'[y].from = transfer[y].from
                                    /\ transfer'[y].to = transfer[y].to
  <2>1. \A y \in DOMAIN transfer : transfer[y] \in TransferRow
    BY SeqDomain DEF IInv, TypeOK
  <2> QED  BY <1>1, <2>1 DEF TransferRow
<1>4. \A r : EntriesOf(r)' = EntriesOf(r) /\ TransfersOf(r)' = TransfersOf(r)
  BY <1>2, <1>3 DEF EntriesOf, TransfersOf
<1>5. /\ Ownership' /\ OneOwner'
      /\ \A u \in Task : u # t => pc'[u] = pc[u]
  <2>1. /\ pc'[t] \notin Opened /\ pc'[t] \notin Netted
        /\ pc[t] \in Owning
    BY <1>2 DEF Owning, Opened, Netted, Settling
  <2>2. session[sid[t]].status = "SETTLING"
    BY <1>2 DEF IInv, Ownership, Owner, Settling
  <2> QED  BY <1>2, <2>1, <2>2, OwnerChangesStatus
<1>6. References' /\ NoneYet'
  BY <1>2, <1>3, <1>4 DEF IInv, References, NoneYet
<1>7. StageFacts'
  <2>1. \A u \in Task : /\ EntriesOf(sid[u])' = EntriesOf(sid[u])
                        /\ TransfersOf(sid[u])' = TransfersOf(sid[u])
    BY <1>2, <1>3 DEF EntriesOf, TransfersOf
  <2>2. Knows(t)'
    BY <1>2, <2>1 DEF IInv, StageFacts, Knows, Opened, Netted
  <2>3. ASSUME NEW u \in Task, u # t PROVE Knows(u)'
    BY <1>2, <1>5, <2>1, <2>3, KnowsStable DEF IInv, StageFacts
  <2> QED  BY <2>2, <2>3 DEF StageFacts
<1>8. CompletedSessionCleared' /\ FailedSessionSettlesPaidPairs'
  <2>1. \A r : TransfersOf(r) \subseteq DOMAIN transfer
    BY DEF TransfersOf
  <2> QED  BY <1>2, <1>3, <1>4, <2>1, ClosedStable DEF IInv
<1> QED  BY <1>5, <1>6, <1>7, <1>8 DEF IInv

(* mark_settled closes the session of t: everything is settled if every    *)
(* transfer was granted, and otherwise only what a granted one covers.     *)
LEMMA MarkStep ==
  ASSUME IInv, TypeOK', NEW t \in Task, MarkSettled(t)
  PROVE  IInv'
<1> USE DEF TakenAsPaid
<1> DEFINE s == sid[t]
           status == IF AnyFailed(t) THEN "FAILED" ELSE "COMPLETED"
<1>1. /\ pc[t] = "mark" /\ pc' = [pc EXCEPT ![t] = "done"] /\ pc'[t] = "done"
      /\ ledger' = Settle(SettledBy(t))
      /\ session' = [session EXCEPT ![s].status = status]
      /\ UNCHANGED <<executed, presumed, sid, asked, granted>>
  BY DEF MarkSettled, IInv, TypeOK
<1>2. s \in DOMAIN session /\ session[s] \in SessionRow
  BY <1>1, SeqDomain DEF IInv, TypeOK, Ownership, Owner, Settling
<1>3. /\ asked[t] = TransfersOf(s) /\ granted[t] \subseteq asked[t] \cap TakenAsPaid
      /\ \A e \in EntriesOf(s) : ~ ledger[e].settled
  BY <1>1 DEF IInv, StageFacts, Knows
<1>4. /\ DOMAIN session' = DOMAIN session
      /\ session'[s].status = status /\ session'[s].zone = session[s].zone
      /\ \A r \in DOMAIN session : r # s => session'[r] = session[r]
  BY <1>1, <1>2 DEF SessionRow
<1>5. /\ DOMAIN transfer' = DOMAIN transfer
      /\ \A x \in DOMAIN transfer :
           /\ transfer'[x].session = transfer[x].session
           /\ transfer'[x].from = transfer[x].from
           /\ transfer'[x].to = transfer[x].to
           /\ transfer'[x].status = IF x \in asked[t] THEN ResultStatus(t, x)
                                                     ELSE transfer[x].status
  <2>1. \A x \in DOMAIN transfer : transfer[x] \in TransferRow
    BY SeqDomain DEF IInv, TypeOK
  <2> QED  BY <2>1 DEF MarkSettled, TransferRow
<1>6. SettledBy(t) \subseteq EntriesOf(s)
  BY DEF SettledBy, PaidPairs
<1>7. /\ DOMAIN ledger' = DOMAIN ledger
      /\ \A e \in DOMAIN ledger :
           /\ ledger'[e].session = ledger[e].session
           /\ ledger'[e].from = ledger[e].from
           /\ ledger'[e].to = ledger[e].to
           /\ ledger'[e].settled = (ledger[e].settled \/ e \in SettledBy(t))
           /\ e \notin SettledBy(t) => ledger'[e] = ledger[e]
      /\ \A r : EntriesOf(r)' = EntriesOf(r)
  BY <1>1, SettleEffect DEF IInv, TypeOK
<1>8. /\ \A r : TransfersOf(r)' = TransfersOf(r)
      /\ \A r : r # s => /\ \A e \in EntriesOf(r) : ledger'[e] = ledger[e]
                         /\ \A x \in TransfersOf(r) : transfer'[x].status = transfer[x].status
  <2>1. \A r : TransfersOf(r)' = TransfersOf(r)
    BY <1>5 DEF TransfersOf
  <2>2. \A r : r # s => \A e \in EntriesOf(r) : e \in DOMAIN ledger /\ e \notin EntriesOf(s)
    BY DEF EntriesOf
  <2>3. \A r : r # s => \A x \in TransfersOf(r) : x \in DOMAIN transfer /\ x \notin asked[t]
    BY <1>3 DEF TransfersOf
  <2> QED  BY <1>5, <1>6, <1>7, <2>1, <2>2, <2>3
<1>9. /\ Ownership' /\ OneOwner'
      /\ \A u \in Task : u # t => pc'[u] = pc[u]
      /\ \A u \in Task : u # t /\ pc[u] \in Owning => sid[u] # s
  <2>1. /\ pc'[t] \notin Opened /\ pc'[t] \notin Netted /\ pc'[t] \notin Settling
        /\ pc[t] \in Owning /\ pc' = [pc EXCEPT ![t] = pc'[t]]
    BY <1>1 DEF Owning, Opened, Netted, Settling
  <2> QED  BY <1>1, <1>4, <2>1, OwnerChangesStatus
<1>10. References' /\ NoneYet'
  <2>1. References'
    BY <1>4, <1>5, <1>7 DEF IInv, References
  <2>2. NoneYet'
    BY <1>4, <1>7, <1>8 DEF IInv, NoneYet
  <2> QED  BY <2>1, <2>2
<1>11. StageFacts'
  <2>1. \A u \in Task : /\ EntriesOf(sid[u])' = EntriesOf(sid[u])
                        /\ TransfersOf(sid[u])' = TransfersOf(sid[u])
    BY <1>1, <1>5, <1>7 DEF EntriesOf, TransfersOf
  <2>2. Knows(t)'
    BY <1>1, <1>3 DEF Knows, Opened, Netted
  <2>3. ASSUME NEW u \in Task, u # t PROVE Knows(u)'
    BY <1>1, <1>8, <1>9, <2>1, <2>3, KnowsStable DEF IInv, StageFacts
  <2> QED  BY <2>2, <2>3 DEF StageFacts
<1>12. CompletedSessionCleared'
  <2>1. ASSUME NEW r \in DOMAIN session', session'[r].status = "COMPLETED"
        PROVE  /\ \A e \in EntriesOf(r)' : ledger'[e].settled
               /\ \A x \in TransfersOf(r)' : transfer'[x].status = "COMPLETED" /\ x \in TakenAsPaid'
    <3>1. CASE r = s
      <4>1. ~ AnyFailed(t)
        BY <1>4, <2>1, <3>1
      <4>2. granted[t] = TransfersOf(s) /\ SettledBy(t) = EntriesOf(s)
        BY <1>3, <4>1 DEF AnyFailed, SettledBy
      <4>3. EntriesOf(s) \subseteq DOMAIN ledger /\ TransfersOf(s) \subseteq DOMAIN transfer
        BY DEF EntriesOf, TransfersOf
      <4>4. \A e \in EntriesOf(s) : ledger'[e].settled
        BY <1>7, <4>2, <4>3
      <4>5. \A x \in TransfersOf(s) : transfer'[x].status = "COMPLETED" /\ x \in TakenAsPaid
        BY <1>3, <1>5, <4>2, <4>3 DEF ResultStatus
      <4> QED  BY <1>1, <1>7, <1>8, <3>1, <4>4, <4>5
    <3>2. CASE r # s
      <4>1. r \in DOMAIN session /\ session[r].status = "COMPLETED"
        BY <1>4, <2>1, <3>2
      <4> QED  BY <1>1, <1>7, <1>8, <3>2, <4>1 DEF IInv, CompletedSessionCleared
    <3> QED  BY <3>1, <3>2
  <2> QED  BY <2>1 DEF CompletedSessionCleared
<1>13. FailedSessionSettlesPaidPairs'
  <2>1. ASSUME NEW r \in DOMAIN session', NEW e \in EntriesOf(r)',
               session'[r].status = "FAILED", ledger'[e].settled
        PROVE  \E x \in TransfersOf(r)' \cap TakenAsPaid' :
                 transfer'[x].status = "COMPLETED" /\ SamePair(x, e)'
    <3>1. CASE r = s
      <4>1. AnyFailed(t)
        BY <1>4, <2>1, <3>1
      <4>2. e \in EntriesOf(s) /\ e \in DOMAIN ledger
        BY <1>7, <3>1 DEF EntriesOf
      <4>3. e \in PaidPairs(s, granted[t])
        BY <1>3, <1>7, <2>1, <4>1, <4>2 DEF SettledBy
      <4>4. PICK x \in granted[t] : SamePair(x, e)
        BY <4>3 DEF PaidPairs
      <4>5. x \in TransfersOf(s) /\ x \in TakenAsPaid /\ x \in DOMAIN transfer
        BY <1>3 DEF TransfersOf
      <4>6. transfer'[x].status = "COMPLETED" /\ SamePair(x, e)'
        BY <1>3, <1>5, <1>7, <4>2, <4>4, <4>5 DEF ResultStatus, SamePair
      <4> QED  BY <1>1, <1>8, <3>1, <4>5, <4>6
    <3>2. CASE r # s
      <4>1. r \in DOMAIN session /\ session[r].status = "FAILED" /\ e \in EntriesOf(r)
        BY <1>4, <1>7, <2>1, <3>2
      <4>2. ledger'[e] = ledger[e]
        BY <1>8, <3>2, <4>1
      <4>3. PICK x \in TransfersOf(r) \cap TakenAsPaid :
              transfer[x].status = "COMPLETED" /\ SamePair(x, e)
        BY <2>1, <4>1, <4>2 DEF IInv, FailedSessionSettlesPaidPairs
      <4>4. x \in DOMAIN transfer
        BY <4>3 DEF TransfersOf
      <4>5. transfer'[x].status = "COMPLETED" /\ SamePair(x, e)'
        BY <1>5, <1>8, <3>2, <4>2, <4>3, <4>4 DEF SamePair
      <4> QED  BY <1>1, <1>8, <4>3, <4>5
    <3> QED  BY <3>1, <3>2
  <2> QED  BY <2>1 DEF FailedSessionSettlesPaidPairs
<1> QED  BY <1>9, <1>10, <1>11, <1>12, <1>13 DEF IInv

(* Every step of a payment, of a task or of a crash keeps the invariant. *)
LEMMA StepIInv == IInv /\ [Next]_vars => IInv'
<1> SUFFICES ASSUME IInv, [Next]_vars PROVE IInv'
  OBVIOUS
<1>0. TypeOK /\ TypeOK'
  BY StepType DEF IInv
<1>1. ASSUME NEW from \in Bank, NEW to \in Bank, NEW amount \in Amounts,
             RecordEntry(from, to, amount)
      PROVE  IInv'
  BY <1>0, <1>1, RecordStep
<1>2. ASSUME NEW t \in Task,
             \/ Start(t) \/ Crash(t) \/ CreateSessionCheck(t) \/ AssignAggregate(t)
             \/ RTGSUnavailable(t) \/ RTGSHealthy(t)
      PROVE  IInv'
  <2>1. UNCHANGED <<rows, sid>> /\ pc' = [pc EXCEPT ![t] = pc'[t]]
    BY <1>0, <1>2
    DEF TypeOK, Start, Crash, CreateSessionCheck, AssignAggregate, RTGSUnavailable, RTGSHealthy, rows
  <2>2. CASE RTGSUnavailable(t)
    <3>1. /\ pc[t] = "dispatch" /\ pc'[t] = "mark"
          /\ asked' = [asked EXCEPT ![t] = TransfersOf(sid[t])]
          /\ UNCHANGED <<granted, executed, presumed>>
      BY <1>0, <2>2 DEF RTGSUnavailable, TypeOK
    <3> QED  BY <1>0, <2>1, <3>1, QuietStep
  <2>3. CASE ~ RTGSUnavailable(t)
    <3>1. /\ UNCHANGED <<asked, granted, executed, presumed>>
          /\ \/ pc[t] \in {"idle", "check"} /\ pc'[t] \in {"check", "insert", "skipped"}
             \/ pc'[t] = "dead"
             \/ pc[t] = "aggregate" /\ pc'[t] = "assign"
             \/ pc[t] = "dispatch" /\ pc'[t] = "send"
      BY <1>0, <1>2, <2>3
      DEF TypeOK, Start, Crash, CreateSessionCheck, AssignAggregate, RTGSHealthy
    <3> QED  BY <1>0, <2>1, <3>1, QuietStep
  <2> QED  BY <2>2, <2>3
<1>3. ASSUME NEW t \in Task, NEW booked \in BOOLEAN, NEW success \in BOOLEAN,
             NEW silent \in BOOLEAN, SettleOne(t, booked, success, silent)
      PROVE  IInv'
  <2>1. /\ UNCHANGED <<rows, sid>> /\ pc' = [pc EXCEPT ![t] = pc'[t]]
        /\ pc[t] = "send" /\ (success => booked \/ silent)
    BY <1>0, <1>3, SuccessIsBooked DEF SettleOne, TypeOK
  <2>2. PICK x \in TransfersOf(sid[t]) \ asked[t] :
          /\ executed' = IF booked THEN executed \cup {x} ELSE executed
          /\ presumed' = IF silent THEN presumed \cup {x} ELSE presumed
          /\ asked' = [asked EXCEPT ![t] = @ \cup {x}]
          /\ granted' = IF success THEN [granted EXCEPT ![t] = @ \cup {x}] ELSE granted
          /\ \/ pc' = [pc EXCEPT ![t] = "save"] /\ TransfersOf(sid[t]) \ asked[t] = {x}
             \/ pc' = [pc EXCEPT ![t] = "send"]
    BY <1>3 DEF SettleOne
  <2>3. /\ executed \subseteq executed' /\ presumed \subseteq presumed'
        /\ \/ UNCHANGED granted
           \/ /\ x \in executed' \cup presumed'
              /\ granted' = [granted EXCEPT ![t] = @ \cup {x}]
        /\ \/ pc'[t] = "send"
           \/ pc'[t] = "save" /\ TransfersOf(sid[t]) \ asked[t] = {x}
    BY <1>0, <2>1, <2>2 DEF TypeOK
  <2> QED  BY <1>0, <2>1, <2>2, <2>3, QuietStep
<1>4. ASSUME NEW t \in Task,
             \/ CreateSessionInsert(t) \/ AssignUpdate(t) \/ RunNetting(t) \/ SettleBalanced(t)
             \/ CompleteWithoutTransfers(t) \/ SaveResult(t) \/ MarkSettled(t)
      PROVE  IInv'
  BY <1>0, <1>4, OpenStep, AssignStep, NettingStep, BalanceStep, CompleteStep, SaveStep, MarkStep
<1>5. CASE UNCHANGED vars
  BY <1>0, <1>5
  DEF vars, IInv, Ownership, OneOwner, Owner, References, NoneYet, StageFacts, Knows,
      EntriesOf, TransfersOf, CompletedSessionCleared, FailedSessionSettlesPaidPairs, SamePair,
      TakenAsPaid
<1> QED  BY <1>1, <1>2, <1>3, <1>4, <1>5 DEF Next, Step, Statement

(* IInv: an active session has at most one owner, and what the owner's     *)
(* program counter and locals say about its rows is true of them, so that  *)
(* mark_settled closes a session on the facts it believes.                 *)
THEOREM Inductive == Spec => []IInv
BY InitIInv, StepIInv, PTL DEF Spec

(* A COMPLETED session has settled all its entries with transfers that are *)
(* all COMPLETED, and booked unless FedNow named no status (tasks.py,      *)
(* mark_settled), in every zone, for any number of tasks that race, crash  *)
(* or lose answers.                                                        *)
THEOREM CompletedIsCleared == Spec => []CompletedSessionCleared
<1>1. IInv => CompletedSessionCleared
  BY DEF IInv
<1> QED  BY <1>1, Inductive, PTL

(* In a FAILED session only entries between two banks with a transfer that *)
(* was booked, or presumed to be, are settled (mark_settled and the        *)
(* RTGSUnavailableError path).                                             *)
THEOREM FailedSettlesPaidPairs == Spec => []FailedSessionSettlesPaidPairs
<1>1. IInv => FailedSessionSettlesPaidPairs
  BY DEF IInv
<1> QED  BY <1>1, Inductive, PTL

-----------------------------------------------------------------------------
(* What a step may never do *)

(* The effect of each kind of step on the ledger and on the sessions, as   *)
(* seen from the session s of the task that takes it.                      *)
Gathers(t) ==
  LET s == sid[t]
  IN  /\ s \in DOMAIN session /\ session[s].status = "OPEN" /\ session[s].zone = ZoneArg[t]
      /\ session'[s].status = "NETTING"
      /\ DOMAIN ledger' = DOMAIN ledger
      /\ \A e \in DOMAIN ledger :
           ledger'[e] = IF e \in Pool(ZoneArg[t]) THEN [ledger[e] EXCEPT !.session = s]
                                                  ELSE ledger[e]
      /\ UNCHANGED transfer

Settles(s, some) ==
  /\ s \in DOMAIN session /\ session[s].status \in {"NETTING", "SETTLING"}
  /\ some \subseteq EntriesOf(s)
  /\ ledger' = Settle(some)
  /\ session'[s].status \in {"SETTLING", "COMPLETED", "FAILED"}
  /\ session'[s].status = "COMPLETED" =>
       \A e \in EntriesOf(s) : ledger[e].settled \/ e \in some

(* Of the sessions, only that of the task changes, in its status alone. *)
OneSession(s) ==
  /\ DOMAIN session' = DOMAIN session
  /\ session'[s].zone = session[s].zone
  /\ \A r \in DOMAIN session : r # s => session'[r] = session[r]

(* assign_pending_entries_to_session takes the pool into an OPEN session. *)
LEMMA AssignEffect ==
  ASSUME IInv, NEW t \in Task, AssignUpdate(t)
  PROVE  Gathers(t) /\ OneSession(sid[t])
<1> DEFINE s == sid[t]
<1>1. /\ pc[t] = "assign"
      /\ session' = [session EXCEPT ![s].status = "NETTING", ![s].counted = seen[t]]
      /\ ledger' = [e \in DOMAIN ledger |->
                      IF e \in Pool(ZoneArg[t]) THEN [ledger[e] EXCEPT !.session = s]
                                                ELSE ledger[e]]
      /\ UNCHANGED transfer
  BY DEF AssignUpdate
<1>2. /\ s \in DOMAIN session /\ session[s] \in SessionRow /\ session[s].status = "OPEN"
      /\ session[s].zone = ZoneArg[t]
  BY <1>1, SeqDomain DEF IInv, TypeOK, Ownership, Owner, Opened
<1>3. OneSession(s) /\ session'[s].status = "NETTING"
  BY <1>1, <1>2 DEF OneSession, SessionRow
<1> QED  BY <1>1, <1>2, <1>3 DEF Gathers

(* Writing the status of the task's session. *)
LEMMA StatusEffect ==
  ASSUME IInv, NEW s \in DOMAIN session, NEW status,
         session' = [session EXCEPT ![s].status = status]
  PROVE  OneSession(s) /\ session'[s].status = status
<1>1. session[s] \in SessionRow
  BY SeqDomain DEF IInv, TypeOK
<1> QED  BY <1>1 DEF OneSession, SessionRow

(* The two shortcuts for sessions without transfers, and mark_settled,     *)
(* settle entries of the task's own session only, and complete it only     *)
(* with the last of them.                                                  *)
LEMMA SettlesEffect ==
  ASSUME IInv, NEW t \in Task,
         SettleBalanced(t) \/ CompleteWithoutTransfers(t) \/ MarkSettled(t)
  PROVE  \E some : Settles(sid[t], some) /\ OneSession(sid[t])
<1> DEFINE s == sid[t]
<1>1. s \in DOMAIN session /\ session[s].status \in {"NETTING", "SETTLING"}
  BY DEF IInv, Ownership, Owner, Netted, Settling, SettleBalanced, CompleteWithoutTransfers,
         MarkSettled
<1>2. CASE SettleBalanced(t)
  <2>1. /\ ledger' = Settle(EntriesOf(s)) /\ UNCHANGED session
        /\ session[s].status = "SETTLING"
    BY <1>2 DEF SettleBalanced, IInv, Ownership, Owner, Settling
  <2> QED  BY <1>1, <2>1 DEF Settles, OneSession
<1>3. CASE CompleteWithoutTransfers(t)
  <2>1. /\ session' = [session EXCEPT ![s].status = "COMPLETED"]
        /\ ledger' = ledger /\ pc[t] \in {"empty", "close"}
    BY <1>3 DEF CompleteWithoutTransfers
  <2>2. \A e \in EntriesOf(s) : ledger[e].settled
    BY <2>1 DEF IInv, StageFacts, Knows
  <2>3. ledger = Settle({})
    BY SeqDomain DEF Settle, IInv, TypeOK
  <2> QED  BY <1>1, <2>1, <2>2, <2>3, StatusEffect DEF Settles
<1>4. CASE MarkSettled(t)
  <2>1. /\ session' = [session EXCEPT ![s].status = IF AnyFailed(t) THEN "FAILED" ELSE "COMPLETED"]
        /\ ledger' = Settle(SettledBy(t))
    BY <1>4 DEF MarkSettled
  <2>2. SettledBy(t) \subseteq EntriesOf(s)
    BY DEF SettledBy, PaidPairs
  <2>3. OneSession(s) /\ session'[s].status = IF AnyFailed(t) THEN "FAILED" ELSE "COMPLETED"
    BY <1>1, <2>1, StatusEffect
  <2>4. ~ AnyFailed(t) => SettledBy(t) = EntriesOf(s)
    BY DEF SettledBy
  <2> QED  BY <1>1, <2>1, <2>2, <2>3, <2>4 DEF Settles
<1> QED  BY <1>2, <1>3, <1>4

(* run_netting, the saving of results and mark_settled write transfers of  *)
(* the task's own session only.                                            *)
LEMMA TransfersEffect ==
  ASSUME IInv, NEW t \in Task, RunNetting(t) \/ SaveResult(t) \/ MarkSettled(t),
         NEW r \in DOMAIN session, r # sid[t]
  PROVE  /\ TransfersOf(r)' = TransfersOf(r)
         /\ \A x \in TransfersOf(r) : transfer'[x] = transfer[x]
<1> DEFINE s == sid[t]
<1>1. CASE RunNetting(t)
  <2> DEFINE net == NetObligations(Obligations(s))
             new == [k \in DOMAIN net |-> [session |-> s, from |-> net[k].from, to |-> net[k].to,
                                           amount |-> net[k].amount,
                                           status |-> "PENDING", note |-> "none"]]
  <2>1. /\ transfer' = transfer \o new
        /\ net \in Seq([from : Bank, to : Bank, amount : Nat])
    BY <1>1 DEF RunNetting, Insertable
  <2>2. new \in Seq(TransferRow) /\ \A k \in DOMAIN new : new[k].session = s
    <3> HIDE DEF net
    <3>1. net \in [1 .. Len(net) -> [from : Bank, to : Bank, amount : Nat]] /\ Len(net) \in Nat
      BY <2>1, SeqDomain
    <3>2. new \in [1 .. Len(net) -> TransferRow]
      BY <3>1 DEF TransferRow, IInv, TypeOK
    <3> QED  BY <3>1, <3>2, FunctionIsSeq
  <2> HIDE DEF new
  <2>3. /\ DOMAIN transfer \subseteq DOMAIN transfer'
        /\ \A x \in DOMAIN transfer : transfer'[x] = transfer[x]
        /\ \A x \in DOMAIN transfer' \ DOMAIN transfer : transfer'[x].session = s
    BY <2>1, <2>2 DEF IInv, TypeOK
  <2> QED  BY <2>3 DEF TransfersOf
<1>2. CASE SaveResult(t)
  <2>1. PICK x \in asked[t], note \in {"reference", "reason"} :
          transfer' = [transfer EXCEPT ![x].note = note]
    BY <1>2 DEF SaveResult
  <2>2. x \in TransfersOf(s)
    BY <1>2 DEF SaveResult, IInv, StageFacts, Knows
  <2>3. \A y \in DOMAIN transfer : transfer[y] \in TransferRow
    BY SeqDomain DEF IInv, TypeOK
  <2>4. /\ DOMAIN transfer' = DOMAIN transfer
        /\ \A y \in DOMAIN transfer : /\ transfer'[y].session = transfer[y].session
                                      /\ y # x => transfer'[y] = transfer[y]
    BY <2>1, <2>3 DEF TransferRow
  <2> QED  BY <2>2, <2>4 DEF TransfersOf
<1>3. CASE MarkSettled(t)
  <2>1. asked[t] = TransfersOf(s)
    BY <1>3 DEF MarkSettled, IInv, StageFacts, Knows
  <2>2. \A y \in DOMAIN transfer : transfer[y] \in TransferRow
    BY SeqDomain DEF IInv, TypeOK
  <2>3. /\ DOMAIN transfer' = DOMAIN transfer
        /\ \A y \in DOMAIN transfer : /\ transfer'[y].session = transfer[y].session
                                      /\ y \notin asked[t] => transfer'[y] = transfer[y]
    BY <1>3, <2>2 DEF MarkSettled, TransferRow
  <2> QED  BY <2>1, <2>3 DEF TransfersOf
<1> QED  BY <1>1, <1>2, <1>3

-----------------------------------------------------------------------------
(* Steps that leave the ledger and the sessions alone *)
Aside(t) ==
  \/ Start(t) \/ Crash(t) \/ CreateSessionCheck(t) \/ AssignAggregate(t)
  \/ RTGSUnavailable(t) \/ RTGSHealthy(t) \/ SaveResult(t)
  \/ \E booked, success, silent \in BOOLEAN : SettleOne(t, booked, success, silent)

(* They write to transfers only when run_netting's results are saved. *)
LEMMA AsideEffect ==
  ASSUME NEW t \in Task, Aside(t)
  PROVE  UNCHANGED <<ledger, session>> /\ (~ SaveResult(t) => UNCHANGED transfer)
BY DEF Aside, Start, Crash, CreateSessionCheck, AssignAggregate, RTGSUnavailable, RTGSHealthy,
       SaveResult, SettleOne, rows

(* Every step, by what it writes. *)
LEMMA StepKinds ==
  ASSUME [Next]_vars
  PROVE  \/ \E from, to \in Bank, amount \in Amounts : RecordEntry(from, to, amount)
         \/ \E t \in Task :
              \/ Aside(t) \/ CreateSessionInsert(t) \/ AssignUpdate(t) \/ RunNetting(t)
              \/ SettleBalanced(t) \/ CompleteWithoutTransfers(t) \/ MarkSettled(t)
         \/ UNCHANGED vars
BY DEF Next, Step, Statement, Aside

(* assign_pending_entries_to_session takes free entries only, and no       *)
(* statement of the pipeline releases one or unsettles it.                 *)
LEMMA TakenStep ==
  ASSUME IInv, [Next]_vars
  PROVE  EntryTakenOnce
<1> USE DEF EntryTakenOnce
<1>1. CASE UNCHANGED ledger
  BY <1>1
<1>2. ASSUME NEW from \in Bank, NEW to \in Bank, NEW amount \in Amounts,
             RecordEntry(from, to, amount)
      PROVE  EntryTakenOnce
  <2>1. \A e \in DOMAIN ledger : ledger'[e] = ledger[e]
    BY <1>2 DEF RecordEntry, IInv, TypeOK
  <2> QED  BY <2>1
<1>3. ASSUME NEW t \in Task, AssignUpdate(t) PROVE EntryTakenOnce
  BY <1>3, AssignEffect DEF Gathers, Pool
<1>4. ASSUME NEW t \in Task,
             SettleBalanced(t) \/ CompleteWithoutTransfers(t) \/ MarkSettled(t)
      PROVE  EntryTakenOnce
  <2>1. PICK some : Settles(sid[t], some)
    BY <1>4, SettlesEffect
  <2>2. \A e \in DOMAIN ledger : ledger[e].settled => ledger'[e] = ledger[e]
    <3>1. \A e \in DOMAIN ledger : ledger[e] \in EntryRow
      BY SeqDomain DEF IInv, TypeOK
    <3> QED  BY <2>1, <3>1 DEF Settles, Settle, EntryRow
  <2> QED  BY <2>1, <2>2, SettleEffect DEF Settles, IInv, TypeOK
<1>5. ASSUME NEW t \in Task, CreateSessionInsert(t) \/ RunNetting(t) PROVE UNCHANGED ledger
  BY <1>5 DEF CreateSessionInsert, RunNetting
<1> QED  BY <1>1, <1>2, <1>3, <1>4, <1>5, AsideEffect, StepKinds DEF vars

(* A session that took an entry keeps it while it has not FAILED, and a    *)
(* settled entry never changes: two tasks that race in create_session      *)
(* never clear it twice.                                                   *)
THEOREM EntriesAreTakenOnce == Spec => TakenOnce
<1>1. IInv /\ [Next]_vars => EntryTakenOnce
  BY TakenStep
<1> QED  BY <1>1, Inductive, PTL DEF Spec, TakenOnce

-----------------------------------------------------------------------------
(* A new entry joins no session. *)
LEMMA RecordEffect ==
  ASSUME IInv, NEW from \in Bank, NEW to \in Bank, NEW amount \in Amounts,
         RecordEntry(from, to, amount), NEW r \in DOMAIN session
  PROVE  /\ UNCHANGED <<session, transfer>>
         /\ EntriesOf(r)' = EntriesOf(r)
         /\ \A e \in EntriesOf(r) : ledger'[e] = ledger[e]
<1> DEFINE row == [from |-> from, to |-> to, amount |-> amount,
                   session |-> NULL, settled |-> FALSE]
<1>1. r # NULL
  BY SeqDomain DEF IInv, TypeOK, NULL
<1>2. row \in EntryRow
  BY SettlementAssumption DEF EntryRow, NULL
<1>3. ledger' = Append(ledger, row) /\ UNCHANGED <<session, transfer>>
  BY DEF RecordEntry
<1>4. /\ DOMAIN ledger' = DOMAIN ledger \cup {Len(ledger) + 1}
      /\ \A e \in DOMAIN ledger : ledger'[e] = ledger[e]
      /\ ledger'[Len(ledger) + 1] = row
  BY <1>2, <1>3, AppendRow DEF IInv, TypeOK
<1> QED  BY <1>1, <1>3, <1>4 DEF EntriesOf

(* Entries of a session, when the others' entries are written. *)
LEMMA OtherEntriesKept ==
  ASSUME IInv, NEW t \in Task, NEW r \in DOMAIN session, r # sid[t],
         \/ AssignUpdate(t) \/ SettleBalanced(t) \/ CompleteWithoutTransfers(t) \/ MarkSettled(t)
  PROVE  /\ EntriesOf(r)' = EntriesOf(r)
         /\ \A e \in EntriesOf(r) : ledger'[e] = ledger[e]
<1>1. r # NULL
  BY SeqDomain DEF IInv, TypeOK, NULL
<1>2. CASE AssignUpdate(t)
  <2>1. \A e \in DOMAIN ledger : ledger[e] \in EntryRow
    BY SeqDomain DEF IInv, TypeOK
  <2>2. /\ DOMAIN ledger' = DOMAIN ledger
        /\ \A e \in DOMAIN ledger :
             IF e \in Pool(ZoneArg[t])
               THEN ledger[e].session = NULL /\ ledger'[e].session = sid[t]
               ELSE ledger'[e] = ledger[e]
    BY <1>2, <2>1, AssignEffect DEF Gathers, Pool, EntryRow
  <2> QED  BY <1>1, <2>2 DEF EntriesOf
<1>3. ASSUME SettleBalanced(t) \/ CompleteWithoutTransfers(t) \/ MarkSettled(t)
      PROVE  /\ EntriesOf(r)' = EntriesOf(r)
             /\ \A e \in EntriesOf(r) : ledger'[e] = ledger[e]
  <2>1. PICK some : Settles(sid[t], some)
    BY <1>3, SettlesEffect
  <2>2. \A e \in EntriesOf(r) : e \in DOMAIN ledger /\ e \notin some
    BY <2>1 DEF Settles, EntriesOf
  <2> QED  BY <2>1, <2>2, SettleEffect DEF Settles, IInv, TypeOK
<1> QED  BY <1>2, <1>3

(* No statement writes to a session that is closed: its owner, if it had   *)
(* one, is through with it, and the guards of ledger_service hold of every *)
(* session that a task still owns.                                         *)
LEMMA ClosedStep ==
  ASSUME IInv, [Next]_vars
  PROVE  ClosedSessionKept
<1> SUFFICES ASSUME NEW s \in DOMAIN session, session[s].status \in Closed
             PROVE  /\ session'[s] = session[s]
                    /\ TransfersOf(s)' = TransfersOf(s)
                    /\ \A x \in TransfersOf(s) : transfer'[x] = transfer[x]
                    /\ EntriesOf(s)' = EntriesOf(s)
                    /\ \A e \in EntriesOf(s) : ledger'[e] = ledger[e]
  BY DEF ClosedSessionKept
<1> DEFINE Kept == /\ session'[s] = session[s]
                   /\ TransfersOf(s)' = TransfersOf(s)
                   /\ \A x \in TransfersOf(s) : transfer'[x] = transfer[x]
                   /\ EntriesOf(s)' = EntriesOf(s)
                   /\ \A e \in EntriesOf(s) : ledger'[e] = ledger[e]
<1>1. ASSUME NEW t \in Task, pc[t] \in Owning PROVE s # sid[t]
  BY <1>1 DEF IInv, Ownership, Owner, Owning, Closed
<1>2. ASSUME UNCHANGED ledger PROVE /\ EntriesOf(s)' = EntriesOf(s)
                                    /\ \A e \in EntriesOf(s) : ledger'[e] = ledger[e]
  BY <1>2 DEF EntriesOf
<1>3. ASSUME UNCHANGED transfer PROVE /\ TransfersOf(s)' = TransfersOf(s)
                                      /\ \A x \in TransfersOf(s) : transfer'[x] = transfer[x]
  BY <1>3 DEF TransfersOf
<1>4. ASSUME NEW from \in Bank, NEW to \in Bank, NEW amount \in Amounts,
             RecordEntry(from, to, amount)
      PROVE  Kept
  BY <1>3, <1>4, RecordEffect
<1>5. ASSUME NEW t \in Task, Aside(t) PROVE Kept
  <2>1. CASE SaveResult(t)
    <3>1. s # sid[t]
      BY <1>1, <2>1 DEF SaveResult, Owning, Settling
    <3> QED  BY <1>2, <1>5, <2>1, <3>1, AsideEffect, TransfersEffect
  <2>2. CASE ~ SaveResult(t)
    BY <1>2, <1>3, <1>5, <2>2, AsideEffect
  <2> QED  BY <2>1, <2>2
<1>6. ASSUME NEW t \in Task, CreateSessionInsert(t) PROVE Kept
  <2>1. [zone |-> ZoneArg[t], status |-> "OPEN", counted |-> {}] \in SessionRow
    BY SettlementAssumption DEF SessionRow, Active
  <2>2. session'[s] = session[s] /\ UNCHANGED <<ledger, transfer>>
    BY <1>6, <2>1, AppendRow DEF CreateSessionInsert, IInv, TypeOK
  <2> QED  BY <1>2, <1>3, <2>2
<1>7. ASSUME NEW t \in Task, AssignUpdate(t) PROVE Kept
  <2>1. s # sid[t]
    BY <1>1, <1>7 DEF AssignUpdate, Owning, Opened
  <2> QED  BY <1>3, <1>7, <2>1, AssignEffect, OtherEntriesKept DEF OneSession, Gathers
<1>8. ASSUME NEW t \in Task, RunNetting(t) PROVE Kept
  <2>1. s # sid[t]
    BY <1>1, <1>8 DEF RunNetting, Owning, Netted
  <2>2. session'[s] = session[s] /\ UNCHANGED ledger
    BY <1>8, <2>1 DEF RunNetting
  <2> QED  BY <1>2, <1>8, <2>1, <2>2, TransfersEffect
<1>9. ASSUME NEW t \in Task, SettleBalanced(t) \/ CompleteWithoutTransfers(t) PROVE Kept
  <2>1. s # sid[t] /\ UNCHANGED transfer
    BY <1>1, <1>9 DEF SettleBalanced, CompleteWithoutTransfers, Owning, Netted, Settling
  <2> QED  BY <1>3, <1>9, <2>1, SettlesEffect, OtherEntriesKept DEF OneSession
<1>10. ASSUME NEW t \in Task, MarkSettled(t) PROVE Kept
  <2>1. s # sid[t]
    BY <1>1, <1>10 DEF MarkSettled, Owning, Settling
  <2> QED  BY <1>10, <2>1, SettlesEffect, OtherEntriesKept, TransfersEffect DEF OneSession
<1>11. CASE UNCHANGED vars
  BY <1>2, <1>3, <1>11 DEF vars
<1> QED
  BY <1>4, <1>5, <1>6, <1>7, <1>8, <1>9, <1>10, <1>11, StepKinds

(* Nothing changes in or joins a session that is COMPLETED or FAILED,      *)
(* however many tasks still run.  (ClosedStep proves more than it needs:   *)
(* no entry leaves one either.)                                            *)
THEOREM ClosedSessionsStay == Spec => ClosedStaysClosed
<1>1. IInv /\ [Next]_vars => ClosedSessionKept
  BY ClosedStep
<1> QED  BY <1>1, Inductive, PTL DEF Spec, ClosedStaysClosed

-----------------------------------------------------------------------------
(* Settlement implements Clearing *)

(* The rows of the two mapped sequences *)
EntryView   == [zone : Zone, session : Nat, settled : BOOLEAN]
SessionView == [zone : Zone, state : {"open", "clearing", "completed", "failed"}]

Mapped ==
  /\ AbstractEntries \in Seq(EntryView) /\ AbstractSessions \in Seq(SessionView)
  /\ Len(AbstractEntries) = Len(ledger) /\ DOMAIN AbstractEntries = DOMAIN ledger
  /\ Len(AbstractSessions) = Len(session) /\ DOMAIN AbstractSessions = DOMAIN session
  /\ \A e \in DOMAIN ledger :
       AbstractEntries[e] = [zone |-> EntryZone(e), session |-> ledger[e].session,
                             settled |-> ledger[e].settled]
  /\ \A s \in DOMAIN session :
       AbstractSessions[s] = [zone |-> session[s].zone,
                              state |-> AbstractState(session[s].status)]

(* The mapping of well typed tables is well typed, row by row. *)
LEMMA MappedRows == TypeOK => Mapped
<1> SUFFICES ASSUME TypeOK PROVE Mapped
  OBVIOUS
<1>1. /\ Len(ledger) \in Nat /\ DOMAIN ledger = 1 .. Len(ledger)
      /\ \A e \in DOMAIN ledger : ledger[e] \in EntryRow
  BY SeqDomain DEF TypeOK
<1>2. /\ Len(session) \in Nat /\ DOMAIN session = 1 .. Len(session)
      /\ \A s \in DOMAIN session : session[s] \in SessionRow
  BY SeqDomain DEF TypeOK
<1>3. AbstractEntries \in [1 .. Len(ledger) -> EntryView]
  BY <1>1, SettlementAssumption DEF AbstractEntries, EntryZone, EntryRow, EntryView
<1>4. AbstractSessions \in [1 .. Len(session) -> SessionView]
  BY <1>2 DEF AbstractSessions, AbstractState, SessionRow, SessionView, Active, Closed
<1>5. /\ \A e \in DOMAIN ledger :
           AbstractEntries[e] = [zone |-> EntryZone(e), session |-> ledger[e].session,
                                 settled |-> ledger[e].settled]
      /\ \A s \in DOMAIN session :
           AbstractSessions[s] = [zone |-> session[s].zone,
                                  state |-> AbstractState(session[s].status)]
  BY DEF AbstractEntries, AbstractSessions
<1> HIDE DEF AbstractEntries, AbstractSessions
<1>6. AbstractEntries \in Seq(EntryView)
      /\ Len(AbstractEntries) = Len(ledger) /\ DOMAIN AbstractEntries = DOMAIN ledger
  BY <1>1, <1>3, FunctionIsSeq
<1>7. AbstractSessions \in Seq(SessionView)
      /\ Len(AbstractSessions) = Len(session) /\ DOMAIN AbstractSessions = DOMAIN session
  BY <1>2, <1>4, FunctionIsSeq
<1> QED  BY <1>5, <1>6, <1>7 DEF Mapped

(* ... after a step as well as before it. *)
LEMMA MappedNext == TypeOK' => Mapped'
BY MappedRows, PTL

(* A step that leaves a table alone leaves its abstraction alone. *)
LEMMA MappedStutter ==
  /\ UNCHANGED ledger => UNCHANGED AbstractEntries
  /\ UNCHANGED session => UNCHANGED AbstractSessions
BY DEF AbstractEntries, AbstractSessions, EntryZone

(* The empty database is the empty pool. *)
LEMMA MappedInit == Init => Abstract!Init
BY SeqDomain DEF Init, Abstract!Init, AbstractEntries, AbstractSessions

(* record_c2b_transaction posts to the pool of the zone. *)
LEMMA PostStep ==
  ASSUME TypeOK, TypeOK', NEW from \in Bank, NEW to \in Bank, NEW amount \in Amounts,
         RecordEntry(from, to, amount)
  PROVE  \E zone \in Zone : Abstract!Post(zone)
<1> DEFINE row == [from |-> from, to |-> to, amount |-> amount,
                   session |-> NULL, settled |-> FALSE]
           mapped == [zone |-> ZoneOf[from], session |-> 0, settled |-> FALSE]
<1>1. row \in EntryRow /\ mapped \in EntryView
  BY SettlementAssumption DEF EntryRow, EntryView, NULL
<1>2. /\ DOMAIN ledger' = DOMAIN ledger \cup {Len(ledger) + 1}
      /\ \A e \in DOMAIN ledger : ledger'[e] = ledger[e]
      /\ ledger'[Len(ledger) + 1] = row
  BY <1>1, AppendRow DEF RecordEntry, TypeOK
<1>3. Mapped /\ Mapped'
  BY MappedRows, MappedNext
<1>4. \A e \in DOMAIN ledger : AbstractEntries'[e] = AbstractEntries[e]
  BY <1>2, <1>3 DEF Mapped, EntryZone
<1>5. AbstractEntries'[Len(ledger) + 1] = mapped
  <2> DEFINE n == Len(ledger) + 1
  <2>1. n \in DOMAIN ledger' /\ ledger'[n] = row
    BY <1>2
  <2>2. AbstractEntries'[n] = [zone |-> ZoneOf[ledger'[n].from], session |-> ledger'[n].session,
                               settled |-> ledger'[n].settled]
    <3> HIDE DEF n
    <3> QED  BY <1>3, <2>1 DEF Mapped, EntryZone
  <2> QED  BY <2>1, <2>2 DEF NULL
<1>6. AbstractEntries' = Append(AbstractEntries, mapped)
  <2> HIDE DEF mapped, row
  <2>1. /\ Append(AbstractEntries, mapped) \in Seq(EntryView)
        /\ DOMAIN Append(AbstractEntries, mapped) = DOMAIN AbstractEntries \cup {Len(ledger) + 1}
        /\ \A i \in DOMAIN AbstractEntries :
             Append(AbstractEntries, mapped)[i] = AbstractEntries[i]
        /\ Append(AbstractEntries, mapped)[Len(ledger) + 1] = mapped
    <3>1. AbstractEntries \in Seq(EntryView) /\ Len(AbstractEntries) = Len(ledger)
      BY <1>3 DEF Mapped
    <3> QED  BY <1>1, <3>1, AppendRow
  <2> QED  BY <1>2, <1>3, <1>4, <1>5, <2>1, SameSeq DEF Mapped
<1>7. UNCHANGED AbstractSessions
  BY MappedStutter DEF RecordEntry
<1> QED  BY <1>6, <1>7, SettlementAssumption DEF Abstract!Post

(* create_session opens a session for its zone. *)
LEMMA OpenRefines ==
  ASSUME TypeOK, TypeOK', NEW t \in Task, CreateSessionInsert(t)
  PROVE  \E zone \in Zone : Abstract!Open(zone)
<1> DEFINE row == [zone |-> ZoneArg[t], status |-> "OPEN", counted |-> {}]
           mapped == [zone |-> ZoneArg[t], state |-> "open"]
<1>1. row \in SessionRow /\ mapped \in SessionView
  BY SettlementAssumption DEF SessionRow, SessionView, Active
<1>2. /\ DOMAIN session' = DOMAIN session \cup {Len(session) + 1}
      /\ \A s \in DOMAIN session : session'[s] = session[s]
      /\ session'[Len(session) + 1] = row
  BY <1>1, AppendRow DEF CreateSessionInsert, TypeOK
<1>3. Mapped /\ Mapped'
  BY MappedRows, MappedNext
<1>4. \A s \in DOMAIN session : AbstractSessions'[s] = AbstractSessions[s]
  BY <1>2, <1>3 DEF Mapped
<1>5. AbstractSessions'[Len(session) + 1] = mapped
  <2> DEFINE n == Len(session) + 1
  <2>1. n \in DOMAIN session' /\ session'[n] = row
    BY <1>2
  <2>2. AbstractSessions'[n] = [zone |-> session'[n].zone,
                                state |-> AbstractState(session'[n].status)]
    <3> HIDE DEF n
    <3> QED  BY <1>3, <2>1 DEF Mapped
  <2> QED  BY <2>1, <2>2 DEF AbstractState
<1>6. AbstractSessions' = Append(AbstractSessions, mapped)
  <2> HIDE DEF mapped, row
  <2>1. /\ Append(AbstractSessions, mapped) \in Seq(SessionView)
        /\ DOMAIN Append(AbstractSessions, mapped) = DOMAIN AbstractSessions \cup {Len(session) + 1}
        /\ \A i \in DOMAIN AbstractSessions :
             Append(AbstractSessions, mapped)[i] = AbstractSessions[i]
        /\ Append(AbstractSessions, mapped)[Len(session) + 1] = mapped
    <3>1. AbstractSessions \in Seq(SessionView) /\ Len(AbstractSessions) = Len(session)
      BY <1>3 DEF Mapped
    <3> QED  BY <1>1, <3>1, AppendRow
  <2> QED  BY <1>2, <1>3, <1>4, <1>5, <2>1, SameSeq DEF Mapped
<1>7. UNCHANGED AbstractEntries
  BY MappedStutter DEF CreateSessionInsert
<1> QED  BY <1>6, <1>7, SettlementAssumption DEF Abstract!Open

(* The status of one session changes. *)
LEMMA SessionMoved ==
  ASSUME TypeOK, TypeOK', NEW s \in DOMAIN session, OneSession(s)
  PROVE  AbstractSessions' =
           [AbstractSessions EXCEPT ![s].state = AbstractState(session'[s].status)]
<1> DEFINE state == AbstractState(session'[s].status)
           moved == [AbstractSessions EXCEPT ![s].state = state]
<1>1. Mapped /\ Mapped'
  BY MappedRows, MappedNext
<1>2. /\ AbstractSessions \in Seq(SessionView) /\ AbstractSessions' \in Seq(SessionView)
      /\ DOMAIN AbstractSessions = DOMAIN session /\ DOMAIN AbstractSessions' = DOMAIN session
  BY <1>1 DEF Mapped, OneSession
<1>3. AbstractSessions'[s] = [zone |-> session[s].zone, state |-> state]
  BY <1>1 DEF Mapped, OneSession
<1>4. AbstractSessions[s] = [zone |-> session[s].zone, state |-> AbstractState(session[s].status)]
  BY <1>1 DEF Mapped
<1>5. \A r \in DOMAIN session : r # s => AbstractSessions'[r] = AbstractSessions[r]
  BY <1>1 DEF Mapped, OneSession
<1> HIDE DEF state
<1>6. /\ moved = [AbstractSessions EXCEPT ![s] = [zone |-> session[s].zone, state |-> state]]
      /\ [zone |-> session[s].zone, state |-> state] \in SessionView
  <2>1. [AbstractSessions[s] EXCEPT !.state = state] = [zone |-> session[s].zone, state |-> state]
    BY <1>4
  <2>2. AbstractSessions'[s] \in SessionView
    BY <1>2, SeqDomain
  <2> QED  BY <1>3, <2>1, <2>2
<1>7. moved \in Seq(SessionView) /\ DOMAIN moved = DOMAIN session
  BY <1>2, <1>6, ReplaceRow
<1>8. \A r \in DOMAIN session : moved[r] = AbstractSessions'[r]
  <2>1. moved[s] = AbstractSessions'[s]
    BY <1>2, <1>3, <1>6
  <2>2. \A r \in DOMAIN session : r # s => moved[r] = AbstractSessions[r]
    BY <1>2
  <2> QED  BY <1>5, <2>1, <2>2
<1> HIDE DEF moved
<1>9. moved = AbstractSessions'
  BY <1>2, <1>7, <1>8, SameSeq
<1> QED  BY <1>9 DEF moved, state

(* Two functions of the entries that agree on every entry. *)
LEMMA EntriesMoved ==
  ASSUME TypeOK', NEW f, f = [e \in DOMAIN ledger |-> f[e]], DOMAIN ledger' = DOMAIN ledger,
         \A e \in DOMAIN ledger :
           f[e] = [zone |-> EntryZone(e)', session |-> ledger'[e].session,
                   settled |-> ledger'[e].settled]
  PROVE  AbstractEntries' = f
BY DEF AbstractEntries

(* One column of an abstract entry is written. *)
LEMMA ViewExcept ==
  ASSUME NEW v \in EntryView, NEW s \in Nat
  PROVE  /\ [v EXCEPT !.session = s] = [zone |-> v.zone, session |-> s, settled |-> v.settled]
         /\ [v EXCEPT !.settled = TRUE] =
              [zone |-> v.zone, session |-> v.session, settled |-> TRUE]
<1>1. \A r \in EntryView : r = [zone |-> r.zone, session |-> r.session, settled |-> r.settled]
  BY DEF EntryView
<1>2. [v EXCEPT !.session = s] \in EntryView /\ [v EXCEPT !.settled = TRUE] \in EntryView
  BY DEF EntryView
<1>3. /\ [v EXCEPT !.session = s].zone = v.zone
      /\ [v EXCEPT !.session = s].session = s
      /\ [v EXCEPT !.session = s].settled = v.settled
  BY DEF EntryView
<1>4. /\ [v EXCEPT !.settled = TRUE].zone = v.zone
      /\ [v EXCEPT !.settled = TRUE].session = v.session
      /\ [v EXCEPT !.settled = TRUE].settled = TRUE
  BY DEF EntryView
<1> QED  BY <1>1, <1>2, <1>3, <1>4

(* assign_pending_entries_to_session collects the pool. *)
LEMMA CollectRefines ==
  ASSUME IInv, TypeOK', NEW t \in Task, AssignUpdate(t)
  PROVE  \E s \in DOMAIN AbstractSessions :
           \E again \in SUBSET Abstract!LeftUnsettled(s) : Abstract!Collect(s, again)
<1> DEFINE s == sid[t]
           taken == Pool(ZoneArg[t])
           f == [e \in DOMAIN AbstractEntries |->
                   IF /\ Abstract!Collectable(e, s)
                      /\ AbstractEntries[e].session = 0 \/ e \in {}
                   THEN [AbstractEntries[e] EXCEPT !.session = s]
                   ELSE AbstractEntries[e]]
<1>1. TypeOK /\ Mapped
  BY MappedRows DEF IInv
<1>2. Gathers(t) /\ OneSession(s) /\ s \in DOMAIN session
  BY AssignEffect DEF Gathers
<1>3. /\ s \in DOMAIN AbstractSessions
      /\ AbstractSessions[s].state = "open" /\ AbstractSessions[s].zone = ZoneArg[t]
  BY <1>1, <1>2 DEF Mapped, Gathers, AbstractState
<1>4. AbstractSessions' = [AbstractSessions EXCEPT ![s].state = "clearing"]
  BY <1>1, <1>2, SessionMoved DEF Gathers, AbstractState
<1>5. \A e \in DOMAIN ledger :
        /\ ledger[e] \in EntryRow
        /\ AbstractEntries[e] = [zone |-> EntryZone(e), session |-> ledger[e].session,
                                 settled |-> ledger[e].settled]
  BY <1>1, SeqDomain DEF Mapped, TypeOK
<1>6. \A e \in DOMAIN ledger :
        f[e] = [zone |-> EntryZone(e)', session |-> ledger'[e].session,
                settled |-> ledger'[e].settled]
  <2> SUFFICES ASSUME NEW e \in DOMAIN ledger
               PROVE  f[e] = [zone |-> EntryZone(e)', session |-> ledger'[e].session,
                              settled |-> ledger'[e].settled]
    OBVIOUS
  <2>1. f[e] = IF e \in taken THEN [AbstractEntries[e] EXCEPT !.session = s]
                              ELSE AbstractEntries[e]
    BY <1>1, <1>3, <1>5 DEF Mapped, Pool, NULL, Abstract!Collectable
  <2>2. ledger'[e] = IF e \in taken THEN [ledger[e] EXCEPT !.session = s] ELSE ledger[e]
    BY <1>2 DEF Gathers
  <2> HIDE DEF f, taken, s
  <2>3. CASE e \in taken
    <3>1. f[e] = [zone |-> EntryZone(e), session |-> s, settled |-> ledger[e].settled]
      <4> DEFINE v == AbstractEntries[e]
      <4>1. v \in EntryView /\ s \in Nat
        BY <1>1, SeqDomain DEF Mapped, TypeOK, s
      <4>2. v.zone = EntryZone(e) /\ v.settled = ledger[e].settled
        <5>1. v = [zone |-> EntryZone(e), session |-> ledger[e].session,
                   settled |-> ledger[e].settled]
          BY <1>5
        <5> HIDE DEF v
        <5> QED  BY <5>1
      <4> HIDE DEF v
      <4>3. [v EXCEPT !.session = s] = [zone |-> v.zone, session |-> s, settled |-> v.settled]
        BY <4>1, ViewExcept
      <4> QED  BY <2>1, <2>3, <4>2, <4>3 DEF v
    <3>2. /\ ledger'[e].from = ledger[e].from /\ ledger'[e].session = s
          /\ ledger'[e].settled = ledger[e].settled
      BY <1>5, <2>2, <2>3 DEF EntryRow
    <3> QED  BY <3>1, <3>2 DEF EntryZone
  <2>4. CASE e \notin taken
    BY <1>5, <2>1, <2>2, <2>4 DEF EntryZone
  <2> QED  BY <2>3, <2>4
<1>7. AbstractEntries' = f
  <2>1. f = [e \in DOMAIN ledger |-> f[e]] /\ DOMAIN ledger' = DOMAIN ledger
    BY <1>1, <1>2 DEF Mapped, Gathers
  <2> HIDE DEF f
  <2> QED  BY <1>6, <2>1, EntriesMoved
<1>8. Abstract!Collect(s, {})
  BY <1>3, <1>4, <1>7 DEF Abstract!Collect
<1> QED  BY <1>3, <1>8

(* Settling entries of a session, and closing it, is a step of its         *)
(* clearing.                                                               *)
LEMMA ClearRefines ==
  ASSUME IInv, TypeOK', NEW t \in Task,
         SettleBalanced(t) \/ CompleteWithoutTransfers(t) \/ MarkSettled(t)
  PROVE  \E s \in DOMAIN AbstractSessions :
           \E some \in SUBSET DOMAIN AbstractEntries,
              after \in {"clearing", "completed", "failed"} : Abstract!Clear(s, some, after)
<1>1. PICK some : Settles(sid[t], some) /\ OneSession(sid[t])
  BY SettlesEffect
<1> DEFINE s == sid[t]
           after == AbstractState(session'[s].status)
           f == [e \in DOMAIN AbstractEntries |->
                   IF e \in some THEN [AbstractEntries[e] EXCEPT !.settled = TRUE]
                                 ELSE AbstractEntries[e]]
<1>2. TypeOK /\ Mapped
  BY MappedRows DEF IInv
<1>3. s \in DOMAIN session /\ s \in DOMAIN AbstractSessions /\ AbstractSessions[s].state = "clearing"
  BY <1>1, <1>2 DEF Mapped, Settles, AbstractState
<1>4. after \in {"clearing", "completed", "failed"}
  BY <1>1 DEF Settles, AbstractState
<1>5. AbstractSessions' = [AbstractSessions EXCEPT ![s].state = after]
  BY <1>1, <1>2, <1>3, SessionMoved
<1>6. /\ DOMAIN AbstractEntries = DOMAIN ledger
      /\ \A e \in DOMAIN ledger :
           /\ ledger[e] \in EntryRow
           /\ AbstractEntries[e] = [zone |-> EntryZone(e), session |-> ledger[e].session,
                                    settled |-> ledger[e].settled]
  BY <1>2, SeqDomain DEF Mapped, TypeOK
<1>7. some \subseteq DOMAIN AbstractEntries /\ \A e \in some : AbstractEntries[e].session = s
  BY <1>1, <1>6 DEF Settles, EntriesOf
<1>8. after = "completed" =>
        \A e \in DOMAIN AbstractEntries :
          AbstractEntries[e].session = s => AbstractEntries[e].settled \/ e \in some
  <2>1. after = "completed" => session'[s].status = "COMPLETED"
    BY <1>1 DEF Settles, AbstractState
  <2> QED  BY <1>1, <1>6, <2>1 DEF Settles, EntriesOf
<1>9. /\ DOMAIN ledger' = DOMAIN ledger
      /\ \A e \in DOMAIN ledger :
           ledger'[e] = IF e \in some THEN [ledger[e] EXCEPT !.settled = TRUE] ELSE ledger[e]
  BY <1>1 DEF Settles, Settle
<1>10. \A e \in DOMAIN ledger :
         f[e] = [zone |-> EntryZone(e)', session |-> ledger'[e].session,
                 settled |-> ledger'[e].settled]
  <2> SUFFICES ASSUME NEW e \in DOMAIN ledger
               PROVE  f[e] = [zone |-> EntryZone(e)', session |-> ledger'[e].session,
                              settled |-> ledger'[e].settled]
    OBVIOUS
  <2>1. f[e] = IF e \in some THEN [AbstractEntries[e] EXCEPT !.settled = TRUE]
                             ELSE AbstractEntries[e]
    BY <1>6
  <2> HIDE DEF f
  <2>2. CASE e \in some
    <3>1. f[e] = [zone |-> EntryZone(e), session |-> ledger[e].session, settled |-> TRUE]
      <4> DEFINE v == AbstractEntries[e]
      <4>1. v \in EntryView
        BY <1>2, <1>6, SeqDomain DEF Mapped
      <4>2. v.zone = EntryZone(e) /\ v.session = ledger[e].session
        BY <1>6
      <4> HIDE DEF v
      <4>3. [v EXCEPT !.settled = TRUE] = [zone |-> v.zone, session |-> v.session, settled |-> TRUE]
        BY <4>1, ViewExcept
      <4> QED  BY <2>1, <2>2, <4>2, <4>3 DEF v
    <3>2. /\ ledger'[e].from = ledger[e].from /\ ledger'[e].session = ledger[e].session
          /\ ledger'[e].settled = TRUE
      BY <1>6, <1>9, <2>2 DEF EntryRow
    <3> QED  BY <3>1, <3>2 DEF EntryZone
  <2>3. CASE e \notin some
    BY <1>6, <1>9, <2>1, <2>3 DEF EntryZone
  <2> QED  BY <2>2, <2>3
<1>11. AbstractEntries' = f
  <2>1. f = [e \in DOMAIN ledger |-> f[e]]
    BY <1>6
  <2> HIDE DEF f
  <2> QED  BY <1>9, <1>10, <2>1, EntriesMoved
<1> HIDE DEF after
<1> QED  BY <1>3, <1>4, <1>5, <1>7, <1>8, <1>11 DEF Abstract!Clear

(* Every step of the detailed specification is one of the abstract one, or *)
(* changes nothing that it shows.                                          *)
LEMMA StepRefines ==
  ASSUME IInv, [Next]_vars
  PROVE  [Abstract!Next]_(Abstract!vars)
<1>0. TypeOK /\ TypeOK'
  BY StepType DEF IInv
<1>1. ASSUME UNCHANGED <<AbstractEntries, AbstractSessions>> PROVE [Abstract!Next]_(Abstract!vars)
  BY <1>1 DEF Abstract!vars
<1>2. ASSUME NEW from \in Bank, NEW to \in Bank, NEW amount \in Amounts,
             RecordEntry(from, to, amount)
      PROVE  Abstract!Next
  BY <1>0, <1>2, PostStep DEF Abstract!Next
<1>3. ASSUME NEW t \in Task, CreateSessionInsert(t) PROVE Abstract!Next
  BY <1>0, <1>3, OpenRefines DEF Abstract!Next
<1>4. ASSUME NEW t \in Task, AssignUpdate(t) PROVE Abstract!Next
  BY <1>0, <1>4, CollectRefines DEF Abstract!Next
<1>5. ASSUME NEW t \in Task,
             SettleBalanced(t) \/ CompleteWithoutTransfers(t) \/ MarkSettled(t)
      PROVE  Abstract!Next
  BY <1>0, <1>5, ClearRefines DEF Abstract!Next
<1>6. ASSUME NEW t \in Task, RunNetting(t)
      PROVE  UNCHANGED <<AbstractEntries, AbstractSessions>>
  <2> DEFINE s == sid[t]
  <2>1. session' = [session EXCEPT ![s].status = "SETTLING"] /\ UNCHANGED ledger
    BY <1>6 DEF RunNetting
  <2>2. s \in DOMAIN session /\ session[s].status = "NETTING"
    BY <1>6 DEF RunNetting, IInv, Ownership, Owner, Netted
  <2>3. OneSession(s) /\ session'[s].status = "SETTLING"
    BY <2>1, <2>2, StatusEffect
  <2>4. AbstractSessions' = AbstractSessions
    <3>1. \A r \in DOMAIN session : /\ session'[r].zone = session[r].zone
                                    /\ AbstractState(session'[r].status) =
                                         AbstractState(session[r].status)
      BY <2>2, <2>3 DEF OneSession, AbstractState
    <3> QED  BY <2>3, <3>1 DEF OneSession, AbstractSessions
  <2> QED  BY <2>1, <2>4, MappedStutter
<1>7. ASSUME NEW t \in Task, Aside(t)
      PROVE  UNCHANGED <<AbstractEntries, AbstractSessions>>
  BY <1>7, AsideEffect, MappedStutter
<1>8. CASE UNCHANGED vars
  BY <1>1, <1>8, MappedStutter DEF vars
<1> QED  BY <1>1, <1>2, <1>3, <1>4, <1>5, <1>6, <1>7, <1>8, StepKinds

(* Settlement implements Clearing: the database of the pipeline, seen as   *)
(* pools and sessions, is what the abstract specification promises.        *)
THEOREM Refinement == Spec => ImplementsClearing
<1>1. IInv /\ [Next]_vars => [Abstract!Next]_(Abstract!vars)
  BY StepRefines
<1> QED  BY <1>1, MappedInit, Inductive, PTL DEF Spec, ImplementsClearing, Abstract!Spec

-----------------------------------------------------------------------------
(* The transfers of a session move what its entries owe *)

(* Rows with a debtor, a creditor and an amount, seen as flows. *)
Flows(table) ==
  [i \in DOMAIN table |-> Obligation(table[i].from, table[i].to, table[i].amount)]

(* The net position over some rows depends on their money columns alone. *)
Agree(table, other, some) ==
  /\ IsFiniteSet(some) /\ some \subseteq DOMAIN table /\ some \subseteq DOMAIN other
  /\ \A i \in some : /\ other[i].from = table[i].from
                     /\ other[i].to = table[i].to
                     /\ other[i].amount = table[i].amount

LEMMA SameMoney ==
  ASSUME NEW table, NEW other, NEW some, Agree(table, other, some), NEW bank
  PROVE  NetAmong(other, some, bank) = NetAmong(table, some, bank)
<1> DEFINE got  == {i \in some : table[i].to = bank}
           paid == {i \in some : table[i].from = bank}
<1>1. /\ got = {i \in some : other[i].to = bank}
      /\ paid = {i \in some : other[i].from = bank}
  BY DEF Agree
<1>2. IsFiniteSet(got) /\ IsFiniteSet(paid)
  BY FS_Subset DEF Agree
<1>3. \A i \in some : AmountsOf(other)[i] = AmountsOf(table)[i]
  BY DEF AmountsOf, Agree
<1>4. /\ SumFunctionOnSet(AmountsOf(other), got) = SumFunctionOnSet(AmountsOf(table), got)
      /\ SumFunctionOnSet(AmountsOf(other), paid) = SumFunctionOnSet(AmountsOf(table), paid)
  BY <1>2, <1>3, SumSame
<1> QED  BY <1>1, <1>4 DEF NetAmong

(* A list of rows of a table, one each of those in `some`, nets to what    *)
(* they do.                                                                *)
LEMMA ListedMoney ==
  ASSUME NEW table, NEW n \in Nat, DOMAIN table = 1 .. n,
         \A i \in DOMAIN table : Flows(table)[i] \in Flow(Bank),
         NEW some \in SUBSET (DOMAIN table),
         NEW m \in Nat, NEW order \in Bijection(1 .. m, some), NEW bank
  PROVE  NetOf([k \in 1 .. m |-> Flows(table)[order[k]]], bank) = NetAmong(table, some, bank)
<1>1. Flows(table) \in Seq(Flow(Bank)) /\ DOMAIN Flows(table) = 1 .. n
  <2>1. Flows(table) \in [1 .. n -> Flow(Bank)]
    BY DEF Flows
  <2> QED  BY <2>1, FunctionIsSeq
<1>2. some \in SUBSET (DOMAIN Flows(table))
  BY <1>1
<1>3. NetOf([k \in 1 .. m |-> Flows(table)[order[k]]], bank) =
        SumFunctionOnSet(AmountsOf(Flows(table)), {e \in some : Flows(table)[e].to = bank}) -
        SumFunctionOnSet(AmountsOf(Flows(table)), {e \in some : Flows(table)[e].from = bank})
  BY <1>1, <1>2, NetOfListed
<1>4. /\ DOMAIN Flows(table) = DOMAIN table
      /\ \A i \in DOMAIN table : /\ Flows(table)[i].from = table[i].from
                                 /\ Flows(table)[i].to = table[i].to
                                 /\ Flows(table)[i].amount = table[i].amount
  BY DEF Flows, Obligation
<1>5. AmountsOf(Flows(table)) = AmountsOf(table)
  BY <1>4 DEF AmountsOf
<1>6. /\ {e \in some : Flows(table)[e].to = bank} = {e \in some : table[e].to = bank}
      /\ {e \in some : Flows(table)[e].from = bank} = {e \in some : table[e].from = bank}
  BY <1>4
<1> QED  BY <1>3, <1>5, <1>6 DEF NetAmong

(* run_netting turns entries into obligations with the same net positions. *)
LEMMA ObligationsOwe ==
  ASSUME TypeOK, NEW some \in SUBSET (DOMAIN ledger)
  PROVE  /\ NewestFirst(some) \in Seq(Flow(Bank))
         /\ \A bank : NetOf(NewestFirst(some), bank) = NetAmong(ledger, some, bank)
<1> DEFINE R == {p \in some \X some : p[1] > p[2]}
           n == Len(ledger)
           m == Cardinality(some)
<1>1. n \in Nat /\ DOMAIN ledger = 1 .. n /\ \A e \in DOMAIN ledger : ledger[e] \in EntryRow
  BY SeqDomain DEF TypeOK
<1>2. \A e \in DOMAIN ledger : Flows(ledger)[e] \in Flow(Bank)
  BY <1>1, SettlementAssumption DEF Flows, Flow, Obligation, EntryRow
<1>3. some \subseteq Int
  BY <1>1
<1>4. IsFiniteSet(some)
  <2>1. IsFiniteSet(1 .. n)
    BY <1>1, FS_Interval
  <2> QED  BY <1>1, <2>1, FS_Subset
<1>5. Orders(R, some)
  <2>1. \A x, y \in some : <<x, y>> \in R <=> x > y
    OBVIOUS
  <2> HIDE DEF R
  <2> QED  BY <1>3, <2>1 DEF Orders
<1>6. /\ m \in Nat
      /\ DOMAIN Sorted(some, R) = 1 .. m
      /\ Sorted(some, R) \in Bijection(1 .. m, some)
  <2> HIDE DEF R
  <2> QED  BY <1>4, <1>5, SortedLists
<1> DEFINE order == Sorted(some, R)
<1>7. NewestFirst(some) = [k \in 1 .. m |-> Flows(ledger)[order[k]]]
  <2>1. \A k \in 1 .. m : order[k] \in DOMAIN ledger
    BY <1>6 DEF Bijection, Injection, Surjection
  <2>2. NewestFirst(some) = [k \in DOMAIN order |->
          Obligation(ledger[order[k]].from, ledger[order[k]].to, ledger[order[k]].amount)]
    BY DEF NewestFirst
  <2> HIDE DEF order
  <2> QED  BY <1>6, <2>1, <2>2 DEF Flows, order
<1> HIDE DEF order, m, n, R
<1>8. NewestFirst(some) \in Seq(Flow(Bank))
  <2>1. \A k \in 1 .. m : order[k] \in DOMAIN ledger
    BY <1>6 DEF Bijection, Injection, Surjection, order
  <2>2. [k \in 1 .. m |-> Flows(ledger)[order[k]]] \in [1 .. m -> Flow(Bank)]
    BY <1>2, <2>1
  <2> QED  BY <1>6, <1>7, <2>2, FunctionIsSeq
<1>9. ASSUME NEW bank PROVE NetOf(NewestFirst(some), bank) = NetAmong(ledger, some, bank)
  <2>1. order \in Bijection(1 .. m, some)
    BY <1>6 DEF order
  <2> QED  BY <1>1, <1>2, <1>6, <1>7, <2>1, ListedMoney
<1> QED  BY <1>8, <1>9

(* What the CheckConstraints ask of a transfer holds of every list that    *)
(* net_obligations returns: a task that has assigned entries can net them. *)
LEMMA AlwaysInsertable ==
  ASSUME TypeOK, NEW s
  PROVE  /\ NetObligations(Obligations(s)) \in Seq(Flow(Bank))
         /\ Insertable(NetObligations(Obligations(s)))
<1> DEFINE some == {e \in EntriesOf(s) : ~ ledger[e].settled}
<1>1. some \in SUBSET (DOMAIN ledger)
  BY DEF EntriesOf
<1>2. Obligations(s) = NewestFirst(some)
  BY DEF Obligations
<1> HIDE DEF some
<1>3. Obligations(s) \in Seq(Flow(Bank))
  BY <1>1, <1>2, ObligationsOwe
<1>4. /\ NetObligations(Obligations(s)) \in Seq(Flow(Bank))
      /\ RealTransfers(NetObligations(Obligations(s)))
  BY <1>3, NetObligationsNet
<1> QED  BY <1>4 DEF Insertable, RealTransfers, Flow

(* No session is left behind by run_netting: whatever entries it has       *)
(* collected, a worker that lives gets its transfers past the guards of    *)
(* ledger_service and the constraints of the table.                        *)
NettingGoesThrough == \A t \in Task : pc[t] = "net" => NettingReady(t)

THEOREM NettingNeverStops == Spec => []NettingGoesThrough
<1>1. IInv => NettingGoesThrough
  <2> SUFFICES ASSUME IInv, NEW t \in Task, pc[t] = "net" PROVE NettingReady(t)
    BY DEF NettingGoesThrough
  <2>1. session[sid[t]].status = "NETTING"
    BY DEF IInv, Ownership, Owner, Netted
  <2>2. Insertable(NetObligations(Obligations(sid[t])))
    BY AlwaysInsertable DEF IInv
  <2> QED  BY <2>1, <2>2 DEF NettingReady
<1> QED  BY <1>1, Inductive, PTL

(* The rows run_netting inserts carry what it has computed. *)
LEMMA NettingMoves ==
  ASSUME IInv, TypeOK', NEW t \in Task, RunNetting(t), NEW bank
  PROVE  NetAmong(transfer', TransfersOf(sid[t])', bank) =
           NetAmong(ledger, EntriesOf(sid[t]), bank)
<1> DEFINE s == sid[t]
           net == NetObligations(Obligations(s))
           new == [k \in DOMAIN net |-> [session |-> s, from |-> net[k].from, to |-> net[k].to,
                                         amount |-> net[k].amount,
                                         status |-> "PENDING", note |-> "none"]]
           old == Len(transfer)
           m == Len(net)
<1>1. /\ pc[t] = "net" /\ transfer' = transfer \o new
      /\ sid' = sid
  BY DEF RunNetting
<1>2. /\ TransfersOf(s) = {}
      /\ \A e \in EntriesOf(s) : ~ ledger[e].settled
      /\ EntriesOf(s) \in SUBSET (DOMAIN ledger)
  BY <1>1 DEF IInv, NoneYet, StageFacts, Knows, Ownership, Owner, Netted, EntriesOf
<1>3. Obligations(s) = NewestFirst(EntriesOf(s))
  <2>1. {e \in EntriesOf(s) : ~ ledger[e].settled} = EntriesOf(s)
    BY <1>2
  <2> QED  BY <2>1 DEF Obligations
<1>4. /\ Obligations(s) \in Seq(Flow(Bank))
      /\ NetOf(Obligations(s), bank) = NetAmong(ledger, EntriesOf(s), bank)
  BY <1>2, <1>3, ObligationsOwe DEF IInv
<1>5. /\ net \in Seq(Flow(Bank))
      /\ NetOf(net, bank) = NetAmong(ledger, EntriesOf(s), bank)
  BY <1>4, NetObligationsNet
<1> HIDE DEF net
<1>6. /\ m \in Nat /\ DOMAIN net = 1 .. m /\ \A k \in DOMAIN net : net[k] \in Flow(Bank)
      /\ old \in Nat /\ DOMAIN transfer = 1 .. old
      /\ \A x \in DOMAIN transfer : transfer[x] \in TransferRow
  BY <1>5, SeqDomain DEF IInv, TypeOK
<1>7. /\ new \in Seq(TransferRow) /\ Len(new) = m /\ DOMAIN new = 1 .. m
      /\ \A k \in 1 .. m : /\ new[k].session = s /\ new[k].from = net[k].from
                           /\ new[k].to = net[k].to /\ new[k].amount = net[k].amount
  <2>1. new \in [1 .. m -> TransferRow]
    BY <1>6 DEF TransferRow, Flow, IInv, TypeOK
  <2> QED  BY <1>6, <2>1, FunctionIsSeq
<1> HIDE DEF new
<1>8. /\ DOMAIN transfer' = 1 .. old + m
      /\ \A x \in 1 .. old : transfer'[x] = transfer[x]
      /\ \A k \in 1 .. m : transfer'[old + k] = new[k]
  <2>1. transfer \in Seq(TransferRow) /\ new \in Seq(TransferRow)
    BY <1>7 DEF IInv, TypeOK
  <2>2. Len(transfer') = old + m /\ DOMAIN transfer' = 1 .. old + m
    <3>1. transfer \o new \in Seq(TransferRow) /\ Len(transfer \o new) = old + Len(new)
      BY <2>1
    <3> QED  BY <1>1, <1>7, <3>1, SeqDomain
  <2>3. \A x \in 1 .. old : transfer'[x] = transfer[x]
    BY <1>1, <2>1
  <2>4. \A k \in 1 .. m : transfer'[old + k] = new[k]
    BY <1>1, <1>6, <1>7, <2>1
  <2> QED  BY <2>2, <2>3, <2>4
<1>9. TransfersOf(s)' = {x \in 1 .. old + m : x > old}
  <2>1. \A x \in 1 .. old : transfer'[x].session # s
    BY <1>2, <1>6, <1>8 DEF TransfersOf
  <2>2. \A x \in 1 .. old + m : x > old => transfer'[x].session = s
    <3>1. \A x \in 1 .. old + m : x > old => x - old \in 1 .. m /\ x = old + (x - old)
      BY <1>6
    <3>2. \A k \in 1 .. m : transfer'[old + k].session = s
      BY <1>7, <1>8
    <3> HIDE DEF old, m
    <3> QED  BY <3>1, <3>2
  <2>3. TransfersOf(s)' = {x \in DOMAIN transfer' : transfer'[x].session = s}
    BY <1>1 DEF TransfersOf
  <2> QED  BY <1>6, <1>8, <2>1, <2>2, <2>3
<1> DEFINE order == [k \in 1 .. m |-> old + k]
<1>10. order \in Bijection(1 .. m, TransfersOf(s)')
  <2>1. order \in [1 .. m -> TransfersOf(s)']
    BY <1>6, <1>9
  <2>2. \A j, k \in 1 .. m : order[j] = order[k] => j = k
    BY <1>6
  <2>3. \A x \in TransfersOf(s)' : \E k \in 1 .. m : order[k] = x
    <3>1. \A x \in TransfersOf(s)' : x - old \in 1 .. m /\ order[x - old] = x
      BY <1>6, <1>9
    <3> QED  BY <3>1
  <2> HIDE DEF order
  <2> QED  BY <2>1, <2>2, <2>3 DEF Bijection, Injection, Surjection, IsInjective
<1>11. \A x \in DOMAIN transfer' : Flows(transfer')[x] \in Flow(Bank)
  <2>1. \A x \in DOMAIN transfer' : transfer'[x] \in TransferRow
    BY SeqDomain DEF TypeOK
  <2> QED  BY <2>1 DEF Flows, Flow, Obligation, TransferRow
<1>12. [k \in 1 .. m |-> Flows(transfer')[order[k]]] = net
  <2>1. \A k \in 1 .. m : Flows(transfer')[old + k] = net[k]
    <3> SUFFICES ASSUME NEW k \in 1 .. m PROVE Flows(transfer')[old + k] = net[k]
      OBVIOUS
    <3>1. old + k \in DOMAIN transfer'
      BY <1>6, <1>8
    <3>2. Flows(transfer')[old + k] = Obligation(net[k].from, net[k].to, net[k].amount)
      BY <1>7, <1>8, <3>1 DEF Flows
    <3>3. net[k] \in Flow(Bank)
      BY <1>6
    <3> QED  BY <3>2, <3>3 DEF Obligation, Flow
  <2>2. net = [k \in 1 .. m |-> net[k]]
    BY <1>5, <1>6
  <2> QED  BY <2>1, <2>2
<1>13. TransfersOf(s)' \in SUBSET (DOMAIN transfer')
  BY <1>8, <1>9
<1> HIDE DEF order
<1>14. old + m \in Nat
  BY <1>6
<1> DEFINE table == transfer'
           some == TransfersOf(s)'
<1>15. NetOf([k \in 1 .. m |-> Flows(table)[order[k]]], bank) = NetAmong(table, some, bank)
  <2>1. /\ DOMAIN table = 1 .. old + m /\ m \in Nat /\ order \in Bijection(1 .. m, some)
        /\ \A x \in DOMAIN table : Flows(table)[x] \in Flow(Bank)
        /\ some \in SUBSET (DOMAIN table)
    BY <1>6, <1>8, <1>10, <1>11, <1>13
  <2> HIDE DEF table, some
  <2> QED  BY <1>14, <2>1, ListedMoney
<1> QED  BY <1>1, <1>5, <1>12, <1>15

(* From SETTLING on, the transfers of a session move the net positions of  *)
(* its entries: the rows of both are only ever annotated.                  *)
Transferred == {"SETTLING"} \cup Closed

NetsKept ==
  \A s \in DOMAIN session :
    session[s].status \in Transferred =>
      \A bank \in Bank :
        NetAmong(transfer, TransfersOf(s), bank) = NetAmong(ledger, EntriesOf(s), bank)

(* The same rows, with the same money in them. *)
MoneyKept(r) ==
  /\ TransfersOf(r)' = TransfersOf(r)
  /\ \A x \in TransfersOf(r) : /\ transfer'[x].from = transfer[x].from
                               /\ transfer'[x].to = transfer[x].to
                               /\ transfer'[x].amount = transfer[x].amount
  /\ EntriesOf(r)' = EntriesOf(r)
  /\ \A e \in EntriesOf(r) : /\ ledger'[e].from = ledger[e].from
                             /\ ledger'[e].to = ledger[e].to
                             /\ ledger'[e].amount = ledger[e].amount

(* Then the sums are the same. *)
LEMMA SumsKept ==
  ASSUME TypeOK, TypeOK', NEW r, MoneyKept(r), NEW bank
  PROVE  /\ NetAmong(transfer', TransfersOf(r)', bank) = NetAmong(transfer, TransfersOf(r), bank)
         /\ NetAmong(ledger', EntriesOf(r)', bank) = NetAmong(ledger, EntriesOf(r), bank)
<1>1. /\ DOMAIN transfer = 1 .. Len(transfer) /\ Len(transfer) \in Nat
      /\ DOMAIN ledger = 1 .. Len(ledger) /\ Len(ledger) \in Nat
  BY SeqDomain DEF TypeOK
<1>2. IsFiniteSet(DOMAIN transfer) /\ IsFiniteSet(DOMAIN ledger)
  BY <1>1, FS_Interval
<1>3. /\ TransfersOf(r) \subseteq DOMAIN transfer /\ TransfersOf(r)' \subseteq DOMAIN transfer'
      /\ EntriesOf(r) \subseteq DOMAIN ledger /\ EntriesOf(r)' \subseteq DOMAIN ledger'
  <2>1. /\ TransfersOf(r) \subseteq DOMAIN transfer
        /\ EntriesOf(r) \subseteq DOMAIN ledger
    BY DEF TransfersOf, EntriesOf
  <2>2. /\ TransfersOf(r)' \subseteq DOMAIN transfer'
        /\ EntriesOf(r)' \subseteq DOMAIN ledger'
    BY DEF TransfersOf, EntriesOf
  <2> QED  BY <2>1, <2>2
<1>4. IsFiniteSet(TransfersOf(r)) /\ IsFiniteSet(EntriesOf(r))
  BY <1>2, <1>3, FS_Subset
<1>5. NetAmong(transfer', TransfersOf(r), bank) = NetAmong(transfer, TransfersOf(r), bank)
  <2>1. Agree(transfer, transfer', TransfersOf(r))
    BY <1>3, <1>4 DEF MoneyKept, Agree
  <2> QED  BY <2>1, SameMoney
<1>6. NetAmong(ledger', EntriesOf(r), bank) = NetAmong(ledger, EntriesOf(r), bank)
  <2>1. Agree(ledger, ledger', EntriesOf(r))
    BY <1>3, <1>4 DEF MoneyKept, Agree
  <2> QED  BY <2>1, SameMoney
<1> QED  BY <1>5, <1>6 DEF MoneyKept

(* Only run_netting adds to the transfers of a session and only            *)
(* assign_pending_entries_to_session to its entries; nothing rewrites the  *)
(* banks or the amount of a row.                                           *)
LEMMA MoneyStays ==
  ASSUME IInv, [Next]_vars, NEW r \in DOMAIN session,
         \A t \in Task : AssignUpdate(t) \/ RunNetting(t) => r # sid[t]
  PROVE  MoneyKept(r)
<1>1. ASSUME UNCHANGED ledger PROVE /\ EntriesOf(r)' = EntriesOf(r)
                                    /\ \A e \in EntriesOf(r) : ledger'[e] = ledger[e]
  BY <1>1 DEF EntriesOf
<1>2. ASSUME UNCHANGED transfer PROVE /\ TransfersOf(r)' = TransfersOf(r)
                                      /\ \A x \in TransfersOf(r) : transfer'[x] = transfer[x]
  BY <1>2 DEF TransfersOf
<1>3. ASSUME NEW from \in Bank, NEW to \in Bank, NEW amount \in Amounts,
             RecordEntry(from, to, amount)
      PROVE  MoneyKept(r)
  BY <1>2, <1>3, RecordEffect DEF MoneyKept
<1>4. ASSUME NEW t \in Task, SaveResult(t) \/ MarkSettled(t)
      PROVE  /\ TransfersOf(r)' = TransfersOf(r)
             /\ \A x \in TransfersOf(r) : /\ transfer'[x].from = transfer[x].from
                                          /\ transfer'[x].to = transfer[x].to
                                          /\ transfer'[x].amount = transfer[x].amount
  <2>1. \A y \in DOMAIN transfer : transfer[y] \in TransferRow
    BY SeqDomain DEF IInv, TypeOK
  <2>2. /\ DOMAIN transfer' = DOMAIN transfer
        /\ \A y \in DOMAIN transfer : /\ transfer'[y].session = transfer[y].session
                                      /\ transfer'[y].from = transfer[y].from
                                      /\ transfer'[y].to = transfer[y].to
                                      /\ transfer'[y].amount = transfer[y].amount
    <3>1. CASE SaveResult(t)
      <4>1. PICK x \in asked[t], note \in {"reference", "reason"} :
              transfer' = [transfer EXCEPT ![x].note = note]
        BY <3>1 DEF SaveResult
      <4> QED  BY <2>1, <4>1 DEF TransferRow
    <3>2. CASE MarkSettled(t)
      BY <2>1, <3>2 DEF MarkSettled, TransferRow
    <3> QED  BY <1>4, <3>1, <3>2
  <2> QED  BY <2>2 DEF TransfersOf
<1>5. ASSUME NEW t \in Task, Aside(t) PROVE MoneyKept(r)
  <2>1. CASE SaveResult(t)
    BY <1>1, <1>4, <1>5, <2>1, AsideEffect DEF MoneyKept
  <2>2. CASE ~ SaveResult(t)
    BY <1>1, <1>2, <1>5, <2>2, AsideEffect DEF MoneyKept
  <2> QED  BY <2>1, <2>2
<1>6. ASSUME NEW t \in Task, CreateSessionInsert(t) PROVE MoneyKept(r)
  BY <1>1, <1>2, <1>6 DEF CreateSessionInsert, MoneyKept
<1>7. ASSUME NEW t \in Task, AssignUpdate(t) PROVE MoneyKept(r)
  <2>1. r # sid[t] /\ UNCHANGED transfer
    BY <1>7 DEF AssignUpdate
  <2> QED  BY <1>2, <1>7, <2>1, OtherEntriesKept DEF MoneyKept
<1>8. ASSUME NEW t \in Task, RunNetting(t) PROVE MoneyKept(r)
  <2>1. r # sid[t] /\ UNCHANGED ledger
    BY <1>8 DEF RunNetting
  <2> QED  BY <1>1, <1>8, <2>1, TransfersEffect DEF MoneyKept
<1>9. ASSUME NEW t \in Task,
             SettleBalanced(t) \/ CompleteWithoutTransfers(t) \/ MarkSettled(t)
      PROVE  MoneyKept(r)
  <2>1. PICK some : Settles(sid[t], some)
    BY <1>9, SettlesEffect
  <2>2. /\ EntriesOf(r)' = EntriesOf(r)
        /\ \A e \in EntriesOf(r) : /\ ledger'[e].from = ledger[e].from
                                   /\ ledger'[e].to = ledger[e].to
                                   /\ ledger'[e].amount = ledger[e].amount
    <3>1. EntriesOf(r) \subseteq DOMAIN ledger
      BY DEF EntriesOf
    <3> QED  BY <2>1, <3>1, SettleEffect DEF Settles, IInv, TypeOK
  <2>3. ~ MarkSettled(t) => UNCHANGED transfer
    BY <1>9 DEF SettleBalanced, CompleteWithoutTransfers
  <2> QED  BY <1>2, <1>4, <2>2, <2>3 DEF MoneyKept
<1>10. CASE UNCHANGED vars
  BY <1>1, <1>2, <1>10 DEF vars, MoneyKept
<1> QED  BY <1>3, <1>5, <1>6, <1>7, <1>8, <1>9, <1>10, StepKinds

(* How a session comes to have transfers that count. *)
LEMMA BecomesTransferred ==
  ASSUME IInv, [Next]_vars, NEW s \in DOMAIN session',
         session'[s].status \in Transferred
  PROVE  /\ s \in DOMAIN session
         /\ \/ session[s].status \in Transferred
            \/ \E t \in Task : s = sid[t] /\ RunNetting(t)
            \/ EntriesOf(s) = {} /\ TransfersOf(s) = {}
         /\ \A t \in Task : AssignUpdate(t) => s # sid[t]
<1> USE DEF Transferred
<1>1. ASSUME UNCHANGED session PROVE s \in DOMAIN session /\ session[s].status \in Transferred
  BY <1>1
<1>2. ASSUME NEW t \in Task, CreateSessionInsert(t)
      PROVE  s \in DOMAIN session /\ session[s].status \in Transferred
  <2> DEFINE row == [zone |-> ZoneArg[t], status |-> "OPEN", counted |-> {}]
  <2>1. row \in SessionRow /\ session' = Append(session, row)
    BY <1>2, SettlementAssumption DEF CreateSessionInsert, SessionRow, Active
  <2>2. row.status \notin Transferred
    BY DEF Closed
  <2> HIDE DEF row
  <2>3. /\ DOMAIN session' = DOMAIN session \cup {Len(session) + 1}
        /\ \A r \in DOMAIN session : session'[r] = session[r]
        /\ session'[Len(session) + 1] = row
    BY <2>1, AppendRow DEF IInv, TypeOK
  <2> QED  BY <2>2, <2>3
<1>3. ASSUME NEW t \in Task, AssignUpdate(t)
      PROVE  s \in DOMAIN session /\ s # sid[t] /\ session[s].status \in Transferred
  <2>1. Gathers(t) /\ OneSession(sid[t])
    BY <1>3, AssignEffect
  <2>2. s # sid[t]
    BY <2>1 DEF Gathers, Closed
  <2> QED  BY <2>1, <2>2 DEF OneSession
<1>4. ASSUME NEW t \in Task, RunNetting(t)
      PROVE  s \in DOMAIN session /\ (s = sid[t] \/ session[s].status \in Transferred)
  <2>1. session' = [session EXCEPT ![sid[t]].status = "SETTLING"]
    BY <1>4 DEF RunNetting
  <2> QED  BY <2>1
<1>5. ASSUME NEW t \in Task, SettleBalanced(t) \/ CompleteWithoutTransfers(t) \/ MarkSettled(t)
      PROVE  /\ s \in DOMAIN session
             /\ \/ session[s].status \in Transferred
                \/ EntriesOf(s) = {} /\ TransfersOf(s) = {}
  <2>1. OneSession(sid[t]) /\ sid[t] \in DOMAIN session
    BY <1>5, SettlesEffect DEF Settles
  <2>2. CASE s # sid[t]
    BY <2>1, <2>2 DEF OneSession
  <2>3. CASE s = sid[t] /\ pc[t] # "empty"
    <3>1. pc[t] \in Settling
      BY <1>5, <2>3 DEF SettleBalanced, CompleteWithoutTransfers, MarkSettled, Settling
    <3> QED  BY <2>1, <2>3, <3>1 DEF IInv, Ownership, Owner
  <2>4. CASE s = sid[t] /\ pc[t] = "empty"
    BY <2>1, <2>4 DEF IInv, Ownership, Owner, Netted, NoneYet, StageFacts, Knows
  <2> QED  BY <2>2, <2>3, <2>4
<1>6. \A t \in Task : AssignUpdate(t) => s # sid[t]
  BY <1>3
<1>7. ASSUME NEW t \in Task, Aside(t) PROVE UNCHANGED session
  BY <1>7, AsideEffect
<1>8. ASSUME NEW from \in Bank, NEW to \in Bank, NEW amount \in Amounts,
             RecordEntry(from, to, amount)
      PROVE  UNCHANGED session
  BY <1>8 DEF RecordEntry
<1> QED
  BY <1>1, <1>2, <1>3, <1>4, <1>5, <1>6, <1>7, <1>8, StepKinds DEF vars

(* The step of NetsKept *)
LEMMA NetsStep ==
  ASSUME IInv, TypeOK', NetsKept, [Next]_vars
  PROVE  NetsKept'
<1> SUFFICES ASSUME NEW s \in DOMAIN session', session'[s].status \in Transferred,
                    NEW bank \in Bank
             PROVE  NetAmong(transfer', TransfersOf(s)', bank) =
                      NetAmong(ledger', EntriesOf(s)', bank)
  BY DEF NetsKept
<1>1. /\ s \in DOMAIN session
      /\ \/ session[s].status \in Transferred
         \/ \E t \in Task : s = sid[t] /\ RunNetting(t)
         \/ EntriesOf(s) = {} /\ TransfersOf(s) = {}
      /\ \A t \in Task : AssignUpdate(t) => s # sid[t]
  BY BecomesTransferred
<1>2. ASSUME NEW t \in Task, s = sid[t], RunNetting(t)
      PROVE  NetAmong(transfer', TransfersOf(s)', bank) =
               NetAmong(ledger', EntriesOf(s)', bank)
  <2>1. UNCHANGED <<ledger, sid>>
    BY <1>2 DEF RunNetting
  <2>2. NetAmong(transfer', TransfersOf(sid[t])', bank) =
          NetAmong(ledger, EntriesOf(sid[t]), bank)
    BY <1>2, NettingMoves
  <2>3. TransfersOf(sid[t])' = TransfersOf(s)' /\ EntriesOf(s)' = EntriesOf(s)
    BY <1>2, <2>1 DEF TransfersOf, EntriesOf
  <2> QED  BY <1>2, <2>1, <2>2, <2>3
<1>3. ASSUME \A t \in Task : ~ (s = sid[t] /\ RunNetting(t))
      PROVE  NetAmong(transfer', TransfersOf(s)', bank) =
               NetAmong(ledger', EntriesOf(s)', bank)
  <2>1. MoneyKept(s)
    BY <1>1, <1>3, MoneyStays
  <2>2. NetAmong(transfer, TransfersOf(s), bank) = NetAmong(ledger, EntriesOf(s), bank)
    <3>1. CASE session[s].status \in Transferred
      BY <1>1, <3>1 DEF NetsKept
    <3>2. CASE EntriesOf(s) = {} /\ TransfersOf(s) = {}
      <4>1. /\ {i \in TransfersOf(s) : transfer[i].to = bank} = {}
            /\ {i \in TransfersOf(s) : transfer[i].from = bank} = {}
            /\ {i \in EntriesOf(s) : ledger[i].to = bank} = {}
            /\ {i \in EntriesOf(s) : ledger[i].from = bank} = {}
        BY <3>2
      <4> QED  BY <4>1, SumOfNothing DEF NetAmong
    <3> QED  BY <1>1, <1>3, <3>1, <3>2
  <2> QED  BY <2>1, <2>2, SumsKept DEF IInv
<1> QED  BY <1>2, <1>3

(* A COMPLETED session has moved, by its transfers, exactly what its       *)
(* entries owe each bank (run_netting, mark_settled): whatever entries     *)
(* the banks record, in whatever number, while it runs.                    *)
THEOREM CompletedMovedNet == Spec => []CompletedSessionMovedNet
<1>1. Init => NetsKept
  BY DEF Init, NetsKept
<1>2. IInv /\ NetsKept /\ [Next]_vars => NetsKept'
  <2>1. IInv /\ [Next]_vars => TypeOK'
    BY StepType DEF IInv
  <2> QED  BY <2>1, NetsStep
<1>3. NetsKept => CompletedSessionMovedNet
  BY DEF NetsKept, CompletedSessionMovedNet, Transferred, Closed
<1> QED  BY <1>1, <1>2, <1>3, Inductive, PTL DEF Spec
=============================================================================
