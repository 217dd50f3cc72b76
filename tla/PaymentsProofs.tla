--------------------------- MODULE PaymentsProofs ---------------------------
(***************************************************************************)
(* Proofs about Payments: what holds however requests, tasks, webhooks and *)
(* confirms interleave, die and repeat, and whatever the administrator     *)
(* does; then, where banks keep their webhook_url, the decision.           *)
(***************************************************************************)
EXTENDS Payments, SeqLemmas

USE PaymentsAssumption

(* The stages of a request that has a transaction *)
Made == {"cache", "enqueue", "remember", "answered"}

TaskRow == [stage : {"none"} \cup Working \cup Ended, tries : Nat]

(* What names a code or a transaction names one that exists. *)
References ==
  /\ Len(issued) <= MaxIssues
  /\ \A k \in code : k.issue \in DOMAIN issued
  /\ \A r \in Request : at[r] = "create" => held[r] \in DOMAIN issued
  /\ \A r \in Request : at[r] \in Made => mine[r] \in DOMAIN tx
  /\ \A row \in idem : row.tx \in DOMAIN tx
  /\ \A x \in DOMAIN tx : tx[x].issue \in DOMAIN issued
  /\ \A i \in DOMAIN confirm : confirm[i].tx \in DOMAIN tx

(* The confirm that a bank waits for is about one of its own payments, which *)
(* its payer can still afford.                                             *)
Blocked ==
  \A b \in Bank : waiting[b] # 0 =>
    LET c == confirm[waiting[b]]
    IN  /\ tx[c.tx].bank = b
        /\ c.decision = "COMPLETED" => balance[b] > 0

Typed == TypeOK /\ References /\ Blocked

-----------------------------------------------------------------------------
(* The tables of a typed state, as functions of their row numbers. *)
LEMMA Tables ==
  ASSUME TypeOK
  PROVE  /\ Len(tx) \in Nat /\ DOMAIN tx = 1 .. Len(tx) /\ tx \in [1 .. Len(tx) -> TxRow]
         /\ cache \in [1 .. Len(tx) -> Decided \cup {"PENDING", "none"}]
         /\ task \in [1 .. Len(tx) -> TaskRow]
         /\ charged \in [1 .. Len(tx) -> Nat]
         /\ Len(issued) \in Nat /\ DOMAIN issued = 1 .. Len(issued)
         /\ issued \in [1 .. Len(issued) -> Bank]
         /\ Len(confirm) \in Nat /\ DOMAIN confirm = 1 .. Len(confirm)
         /\ confirm \in [1 .. Len(confirm) -> ConfirmRow]
<1>1. tx \in Seq(TxRow) /\ issued \in Seq(Bank) /\ confirm \in Seq(ConfirmRow)
  BY DEF TypeOK
<1>2. /\ Len(tx) \in Nat /\ DOMAIN tx = 1 .. Len(tx) /\ tx \in [1 .. Len(tx) -> TxRow]
      /\ Len(issued) \in Nat /\ DOMAIN issued = 1 .. Len(issued)
      /\ issued \in [1 .. Len(issued) -> Bank]
      /\ Len(confirm) \in Nat /\ DOMAIN confirm = 1 .. Len(confirm)
      /\ confirm \in [1 .. Len(confirm) -> ConfirmRow]
  BY <1>1, SeqDomain
<1> QED  BY <1>2 DEF TypeOK, TaskRow

(* The row of a new transaction *)
NewRow(r) ==
  [agent |-> AgentOf[r], key |-> KeyOf[r], code |-> CodeOf[r], issue |-> held[r],
   bank |-> issued[held[r]], onUs |-> issued[held[r]] = MerchantBank[r], due |-> FALSE,
   status |-> "PENDING"]

(* Transaction.objects.create, in a transaction that is not refused. *)
LEMMA Created ==
  ASSUME Typed, NEW r \in Request, CreateTransaction(r), ~ Taken(r)
  PROVE  /\ tx' \in Seq(TxRow) /\ Len(tx') = Len(tx) + 1
         /\ DOMAIN tx' = 1 .. Len(tx) + 1
         /\ DOMAIN tx = 1 .. Len(tx) /\ Len(tx) \in Nat
         /\ \A x \in DOMAIN tx : tx'[x] = tx[x]
         /\ tx'[Len(tx) + 1] = NewRow(r)
         /\ task' \in [DOMAIN tx' -> TaskRow]
         /\ \A x \in DOMAIN tx : task'[x] = task[x]
         /\ task'[Len(tx) + 1] = [stage |-> "none", tries |-> 0]
         /\ cache' \in [DOMAIN tx' -> Decided \cup {"PENDING", "none"}]
         /\ \A x \in DOMAIN tx : cache'[x] = cache[x]
         /\ cache'[Len(tx) + 1] = "none"
         /\ charged' \in [DOMAIN tx' -> Nat]
         /\ \A x \in DOMAIN tx : charged'[x] = charged[x]
         /\ charged'[Len(tx) + 1] = 0
         /\ at' = [at EXCEPT ![r] = "cache"] /\ mine' = [mine EXCEPT ![r] = Len(tx) + 1]
<1> DEFINE new == NewRow(r)
<1>1. /\ at[r] = "create" /\ tx' = Append(tx, new) /\ cache' = Append(cache, "none")
      /\ task' = Append(task, [stage |-> "none", tries |-> 0])
      /\ charged' = Append(charged, 0)
      /\ at' = [at EXCEPT ![r] = "cache"] /\ mine' = [mine EXCEPT ![r] = Len(tx')]
  BY DEF CreateTransaction, Advance, NewRow
<1>2. issued[held[r]] \in Bank
  BY <1>1, Tables DEF Typed, References
<1>3. new \in TxRow
  BY <1>2 DEF Typed, TypeOK, TxRow, NewRow
<1>4. [stage |-> "none", tries |-> 0] \in TaskRow
  BY DEF TaskRow
<1> HIDE DEF new
<1>5. /\ tx' \in Seq(TxRow) /\ Len(tx') = Len(tx) + 1
      /\ DOMAIN tx' = DOMAIN tx \cup {Len(tx) + 1}
      /\ (\A x \in DOMAIN tx : tx'[x] = tx[x]) /\ tx'[Len(tx) + 1] = new
  BY <1>1, <1>3, AppendRow DEF Typed, TypeOK
<1>6. DOMAIN tx' = 1 .. Len(tx) + 1 /\ DOMAIN tx = 1 .. Len(tx) /\ Len(tx) \in Nat
  BY <1>5, Tables DEF Typed
<1>7. /\ task' \in [1 .. Len(tx) + 1 -> TaskRow]
      /\ \A x \in 1 .. Len(tx) : task'[x] = task[x]
      /\ task'[Len(tx) + 1] = [stage |-> "none", tries |-> 0]
  <2> DEFINE none == [stage |-> "none", tries |-> 0]
  <2>1. task \in Seq(TaskRow) /\ Len(task) = Len(tx)
    BY Tables, FunctionIsSeq DEF Typed
  <2>2. none \in TaskRow /\ task' = Append(task, none)
    BY <1>1, <1>4
  <2> HIDE DEF none
  <2>3. /\ task' \in [1 .. Len(tx) + 1 -> TaskRow] /\ task'[Len(tx) + 1] = none
        /\ \A x \in 1 .. Len(tx) : task'[x] = task[x]
    BY <2>1, <2>2, AppendTable
  <2> QED  BY <2>3 DEF none
<1>8. /\ cache' \in [1 .. Len(tx) + 1 -> Decided \cup {"PENDING", "none"}]
      /\ \A x \in 1 .. Len(tx) : cache'[x] = cache[x]
      /\ cache'[Len(tx) + 1] = "none"
  <2> DEFINE S == Decided \cup {"PENDING", "none"}
  <2>1. "none" \in S /\ cache \in [1 .. Len(tx) -> S]
    BY Tables DEF Typed
  <2> HIDE DEF S
  <2>2. cache \in Seq(S) /\ Len(cache) = Len(tx)
    BY <1>6, <2>1, FunctionIsSeq
  <2>3. /\ cache' \in [1 .. Len(tx) + 1 -> S] /\ cache'[Len(tx) + 1] = "none"
        /\ \A x \in 1 .. Len(tx) : cache'[x] = cache[x]
    BY <1>1, <2>1, <2>2, AppendTable
  <2> QED  BY <2>3 DEF S
<1>9. /\ charged' \in [1 .. Len(tx) + 1 -> Nat]
      /\ \A x \in 1 .. Len(tx) : charged'[x] = charged[x]
      /\ charged'[Len(tx) + 1] = 0
  <2> DEFINE none == 0
             Counts == Nat
  <2>1. charged \in Seq(Counts) /\ Len(charged) = Len(tx)
    BY Tables, FunctionIsSeq DEF Typed
  <2>2. none \in Counts /\ charged' = Append(charged, none)
    BY <1>1
  <2> HIDE DEF none, Counts
  <2>3. /\ charged' \in [1 .. Len(tx) + 1 -> Counts] /\ charged'[Len(tx) + 1] = none
        /\ \A x \in 1 .. Len(tx) : charged'[x] = charged[x]
    BY <2>1, <2>2, AppendTable
  <2> QED  BY <2>3 DEF none, Counts
<1> QED  BY <1>1, <1>5, <1>6, <1>7, <1>8, <1>9 DEF new

(* The call of POST /payments/confirm, and its row. *)
LEMMA Sent ==
  ASSUME Typed, NEW x \in DOMAIN tx, NEW decision \in {"COMPLETED", "REJECTED"},
         SendConfirm(x, decision)
  PROVE  /\ confirm' \in Seq(ConfirmRow) /\ Len(confirm') = Len(confirm) + 1
         /\ DOMAIN confirm' = 1 .. Len(confirm) + 1
         /\ DOMAIN confirm = 1 .. Len(confirm) /\ Len(confirm) \in Nat
         /\ \A i \in DOMAIN confirm : confirm'[i] = confirm[i]
         /\ confirm'[Len(confirm) + 1] = [tx |-> x, decision |-> decision,
                                          stage |-> "received", ok |-> FALSE]
<1> DEFINE new == [tx |-> x, decision |-> decision, stage |-> "received", ok |-> FALSE]
<1>1. new \in ConfirmRow
  BY Tables DEF Typed, ConfirmRow
<1>2. confirm' = Append(confirm, new) /\ confirm \in Seq(ConfirmRow)
  BY DEF SendConfirm, Typed, TypeOK
<1> HIDE DEF new
<1>3. /\ confirm' \in Seq(ConfirmRow) /\ Len(confirm') = Len(confirm) + 1
      /\ DOMAIN confirm' = DOMAIN confirm \cup {Len(confirm) + 1}
      /\ \A i \in DOMAIN confirm : confirm'[i] = confirm[i]
      /\ confirm'[Len(confirm) + 1] = new
  BY <1>1, <1>2, AppendRow
<1>4. DOMAIN confirm' = 1 .. Len(confirm) + 1 /\ DOMAIN confirm = 1 .. Len(confirm)
      /\ Len(confirm) \in Nat
  BY <1>3, Tables DEF Typed
<1> QED  BY <1>3, <1>4 DEF new

(* One row is written, and who asked for what with which code stays. *)
LEMMA RowWritten ==
  ASSUME Typed, NEW x \in DOMAIN tx, NEW row \in TxRow, tx' = [tx EXCEPT ![x] = row],
         row.agent = tx[x].agent, row.key = tx[x].key, row.issue = tx[x].issue,
         row.bank = tx[x].bank, row.onUs = tx[x].onUs
  PROVE  /\ tx' \in Seq(TxRow) /\ DOMAIN tx' = DOMAIN tx /\ Len(tx') = Len(tx)
         /\ tx'[x] = row /\ \A y \in DOMAIN tx : y # x => tx'[y] = tx[y]
         /\ \A y \in DOMAIN tx : /\ tx'[y].agent = tx[y].agent /\ tx'[y].key = tx[y].key
                                 /\ tx'[y].issue = tx[y].issue /\ tx'[y].bank = tx[y].bank
                                 /\ tx'[y].onUs = tx[y].onUs
<1>1. tx \in Seq(TxRow)
  BY DEF Typed, TypeOK
<1>2. tx' \in Seq(TxRow) /\ DOMAIN tx' = DOMAIN tx /\ Len(tx') = Len(tx)
  BY <1>1, ReplaceRow
<1>3. tx'[x] = row /\ \A y \in DOMAIN tx : y # x => tx'[y] = tx[y]
  OBVIOUS
<1> QED  BY <1>2, <1>3

(* The status of one transaction is written, and nothing else of its row. *)
LEMMA StatusWritten ==
  ASSUME Typed, NEW x \in DOMAIN tx, NEW status \in Decided,
         tx' = [tx EXCEPT ![x].status = status]
  PROVE  /\ tx' \in Seq(TxRow) /\ DOMAIN tx' = DOMAIN tx /\ Len(tx') = Len(tx)
         /\ tx'[x].status = status /\ tx'[x].due = tx[x].due
         /\ \A y \in DOMAIN tx : y # x => tx'[y] = tx[y]
         /\ \A y \in DOMAIN tx : /\ tx'[y].agent = tx[y].agent /\ tx'[y].key = tx[y].key
                                 /\ tx'[y].issue = tx[y].issue /\ tx'[y].bank = tx[y].bank
                                 /\ tx'[y].onUs = tx[y].onUs
<1>1. tx[x] \in TxRow
  BY Tables DEF Typed
<1> DEFINE row == [tx[x] EXCEPT !.status = status]
<1>2. /\ row \in TxRow /\ row.status = status /\ row.due = tx[x].due
      /\ row.agent = tx[x].agent /\ row.key = tx[x].key /\ row.onUs = tx[x].onUs
      /\ row.issue = tx[x].issue /\ row.bank = tx[x].bank
  BY <1>1 DEF TxRow
<1>3. tx' = [tx EXCEPT ![x] = row]
  OBVIOUS
<1> HIDE DEF row
<1> QED  BY <1>2, <1>3, RowWritten

(* _process_accepted or _process_rejected writes one row. *)
LEMMA DecisionWritten ==
  ASSUME Typed, NEW i \in DOMAIN confirm, ConfirmDecide(i)
  PROVE  LET x == confirm[i].tx  decision == confirm[i].decision
         IN  /\ x \in DOMAIN tx /\ decision \in {"COMPLETED", "REJECTED"}
             /\ tx[x].status = "PENDING"
             /\ tx' \in Seq(TxRow) /\ DOMAIN tx' = DOMAIN tx /\ Len(tx') = Len(tx)
             /\ tx'[x].status = decision /\ tx'[x].due \in BOOLEAN
             /\ tx'[x].due => decision = "COMPLETED"
             /\ decision = "COMPLETED" => tx'[x].due \/ tx[x].onUs
             /\ Booked(x, tx'[x].due)
             /\ \A y \in DOMAIN tx : y # x => tx'[y] = tx[y]
             /\ \A y \in DOMAIN tx : /\ tx'[y].agent = tx[y].agent /\ tx'[y].key = tx[y].key
                                     /\ tx'[y].issue = tx[y].issue /\ tx'[y].bank = tx[y].bank
                                     /\ tx'[y].onUs = tx[y].onUs
<1> DEFINE x == confirm[i].tx
           decision == confirm[i].decision
<1>1. /\ x \in DOMAIN tx /\ decision \in {"COMPLETED", "REJECTED"} /\ tx[x] \in TxRow
  BY Tables DEF Typed, References, ConfirmRow
<1>2. PICK due \in BOOLEAN :
         /\ tx[x].status = "PENDING"
         /\ due => decision = "COMPLETED"
         /\ decision = "COMPLETED" => due \/ tx[x].onUs
         /\ tx' = [tx EXCEPT ![x] = [@ EXCEPT !.status = decision, !.due = due]]
         /\ Booked(x, due)
  BY DEF ConfirmDecide
<1> HIDE DEF x, decision
<1> DEFINE row == [tx[x] EXCEPT !.status = decision, !.due = due]
<1>3. /\ row \in TxRow /\ row.status = decision /\ row.due = due
      /\ row.agent = tx[x].agent /\ row.key = tx[x].key /\ row.onUs = tx[x].onUs
      /\ row.issue = tx[x].issue /\ row.bank = tx[x].bank
  BY <1>1 DEF TxRow, Decided
<1>4. tx' = [tx EXCEPT ![x] = row]
  BY <1>2
<1> HIDE DEF row
<1>5. /\ tx' \in Seq(TxRow) /\ DOMAIN tx' = DOMAIN tx /\ Len(tx') = Len(tx)
      /\ tx'[x] = row /\ \A y \in DOMAIN tx : y # x => tx'[y] = tx[y]
      /\ \A y \in DOMAIN tx : /\ tx'[y].agent = tx[y].agent /\ tx'[y].key = tx[y].key
                              /\ tx'[y].issue = tx[y].issue /\ tx'[y].bank = tx[y].bank
                              /\ tx'[y].onUs = tx[y].onUs
  BY <1>1, <1>3, <1>4, RowWritten
<1>6. tx'[x].status = decision /\ tx'[x].due = due
  BY <1>3, <1>5
<1> QED  BY <1>1, <1>2, <1>5, <1>6 DEF x, decision

(* A confirm moves on, and is still about the same transaction and decision. *)
LEMMA ConfirmMoved ==
  ASSUME Typed, NEW i \in DOMAIN confirm, NEW row \in ConfirmRow,
         confirm' = [confirm EXCEPT ![i] = row],
         row.tx = confirm[i].tx, row.decision = confirm[i].decision
  PROVE  /\ confirm' \in Seq(ConfirmRow) /\ DOMAIN confirm' = DOMAIN confirm
         /\ Len(confirm') = Len(confirm)
         /\ confirm'[i] = row /\ \A j \in DOMAIN confirm : j # i => confirm'[j] = confirm[j]
         /\ \A j \in DOMAIN confirm : /\ confirm'[j].tx = confirm[j].tx
                                      /\ confirm'[j].decision = confirm[j].decision
<1>1. confirm \in Seq(ConfirmRow)
  BY DEF Typed, TypeOK
<1>2. /\ confirm' \in Seq(ConfirmRow) /\ DOMAIN confirm' = DOMAIN confirm
      /\ Len(confirm') = Len(confirm)
  BY <1>1, ReplaceRow
<1>3. confirm'[i] = row /\ \A j \in DOMAIN confirm : j # i => confirm'[j] = confirm[j]
  OBVIOUS
<1> QED  BY <1>2, <1>3

(* The stage of one task is written. *)
LEMMA TaskMoved ==
  ASSUME Typed, NEW x \in DOMAIN tx, NEW stage \in {"none"} \cup Working \cup Ended,
         task' = [task EXCEPT ![x].stage = stage]
  PROVE  /\ task' \in [DOMAIN tx -> TaskRow]
         /\ task'[x].stage = stage /\ task'[x].tries = task[x].tries
         /\ \A y \in DOMAIN tx : y # x => task'[y] = task[y]
<1>1. task \in [DOMAIN tx -> TaskRow]
  BY Tables DEF Typed
<1>2. task[x] \in TaskRow
  BY <1>1
<1> DEFINE row == [task[x] EXCEPT !.stage = stage]
<1>3. row \in TaskRow /\ row.stage = stage /\ row.tries = task[x].tries
  BY <1>2 DEF TaskRow
<1>4. task' = [task EXCEPT ![x] = row]
  OBVIOUS
<1> HIDE DEF row
<1> QED  BY <1>1, <1>3, <1>4

-----------------------------------------------------------------------------
(* Type correctness, with what it needs *)

(* Codes are issued in order, so that each issue has a bank. *)
LEMMA CodesTyped ==
  ASSUME Typed,
         \/ \E b \in Bank, number \in Number : GenerateCode(b, number)
         \/ \E k \in code : ExpireCode(k)
  PROVE  Typed'
<1>1. CASE \E k \in code : ExpireCode(k)
  BY <1>1 DEF Typed, TypeOK, References, Blocked, ExpireCode, request, link, bank
<1>2. CASE \E b \in Bank, number \in Number : GenerateCode(b, number)
  <2>1. PICK b \in Bank, number \in Number : GenerateCode(b, number)
    BY <1>2
  <2> DEFINE new == [number |-> number, issue |-> Len(issued'), status |-> "ACTIVE"]
  <2>2. /\ issued' = Append(issued, b) /\ code' = code \cup {new} /\ Len(issued) < MaxIssues
        /\ UNCHANGED <<idem, tx, entry, cache, request, task, link, confirm, bank>>
    BY <2>1 DEF GenerateCode
  <2>3. issued \in Seq(Bank)
    BY DEF Typed, TypeOK
  <2>4. /\ issued' \in Seq(Bank) /\ Len(issued') = Len(issued) + 1 /\ Len(issued) \in Nat
        /\ DOMAIN issued' = DOMAIN issued \cup {Len(issued) + 1}
    BY <2>2, <2>3, AppendRow, SeqDomain
  <2>5. new \in CodeRow /\ new.issue \in DOMAIN issued'
    BY <2>4 DEF CodeRow
  <2> HIDE DEF new
  <2>6. TypeOK'
    BY <2>2, <2>4, <2>5 DEF Typed, TypeOK, request, link, bank
  <2>7. References'
    BY <2>2, <2>4, <2>5 DEF Typed, References, request
  <2>8. Blocked'
    BY <2>2 DEF Typed, Blocked, bank
  <2> QED  BY <2>6, <2>7, <2>8 DEF Typed
<1> QED  BY <1>1, <1>2

(* PaymentInitiateView.post up to the transaction *)
LEMMA ReceiveTyped ==
  ASSUME Typed, NEW r \in Request, Receive(r) \/ MarkUsed(r)
  PROVE  Typed'
<1>1. CASE Receive(r)
  <2>1. /\ at' \in [Request -> {"idle", "answered", "dead"} \cup Writing \cup Refused]
        /\ \A q \in Request : q # r => at'[q] = at[q] /\ mine'[q] = mine[q]
        /\ mine' \in [Request -> Nat] /\ at'[r] \in {"mark", "answered", "conflict"}
        /\ at'[r] = "answered" => mine'[r] \in DOMAIN tx
    BY <1>1 DEF Receive, Advance, Typed, TypeOK, References, Writing, Refused
  <2>2. UNCHANGED <<codes, idem, tx, entry, cache, held, task, link, confirm, bank>>
    BY <1>1 DEF Receive
  <2>3. TypeOK'
    BY <2>1, <2>2 DEF Typed, TypeOK, codes, link, bank
  <2>4. References'
    BY <2>1, <2>2 DEF Typed, References, Made, codes
  <2>5. Blocked'
    BY <2>2 DEF Typed, Blocked, bank
  <2> QED  BY <2>3, <2>4, <2>5 DEF Typed
<1>2. CASE MarkUsed(r)
  <2>1. UNCHANGED <<issued, idem, tx, entry, cache, mine, task, link, confirm, bank>>
    BY <1>2 DEF MarkUsed
  <2>2. /\ code' \subseteq CodeRow /\ \A k \in code' : k.issue \in DOMAIN issued
        /\ held' \in [Request -> Nat]
        /\ at' \in [Request -> {"idle", "answered", "dead"} \cup Writing \cup Refused]
        /\ \A q \in Request : q # r => at'[q] = at[q] /\ held'[q] = held[q]
        /\ at'[r] \in {"expired", "create", "mismatch", "used"}
        /\ at'[r] = "create" => held'[r] \in DOMAIN issued
    <3>1. at \in [Request -> {"idle", "answered", "dead"} \cup Writing \cup Refused]
      BY DEF Typed, TypeOK
    <3>2. held \in [Request -> Nat] /\ code \subseteq CodeRow
      BY DEF Typed, TypeOK
    <3>3. \A k \in code : k.issue \in DOMAIN issued
      BY DEF Typed, References
    <3>4. CASE Advance(r, "expired") /\ UNCHANGED <<code, held>>
      BY <3>1, <3>2, <3>3, <3>4 DEF Advance, Refused
    <3>5. CASE \E k \in code :
                 IF k.status = "ACTIVE"
                   THEN /\ code' = (code \ {k}) \cup {Used(k)}
                        /\ held' = [held EXCEPT ![r] = k.issue]
                        /\ Advance(r, IF ZoneOf[issued[k.issue]] = ZoneOf[AgentOf[r]]
                                        THEN "create" ELSE "mismatch")
                   ELSE Advance(r, "used") /\ UNCHANGED <<code, held>>
      <4>1. PICK k \in code :
                 IF k.status = "ACTIVE"
                   THEN /\ code' = (code \ {k}) \cup {Used(k)}
                        /\ held' = [held EXCEPT ![r] = k.issue]
                        /\ Advance(r, IF ZoneOf[issued[k.issue]] = ZoneOf[AgentOf[r]]
                                        THEN "create" ELSE "mismatch")
                   ELSE Advance(r, "used") /\ UNCHANGED <<code, held>>
        BY <3>5
      <4>2. k.issue \in Nat /\ Used(k) \in CodeRow /\ Used(k).issue = k.issue
        BY <3>2 DEF Used, CodeRow
      <4>3. CASE k.status = "ACTIVE"
        BY <4>1, <4>2, <4>3, <3>1, <3>2, <3>3 DEF Advance, Writing, Refused
      <4>4. CASE k.status # "ACTIVE"
        BY <4>1, <4>4, <3>1, <3>2, <3>3 DEF Advance, Refused
      <4> QED  BY <4>3, <4>4
    <3> QED  BY <1>2, <3>4, <3>5 DEF MarkUsed
  <2>3. TypeOK'
    BY <2>1, <2>2 DEF Typed, TypeOK, link, bank
  <2>4. References'
    BY <2>1, <2>2 DEF Typed, References, Made
  <2>5. Blocked'
    BY <2>1 DEF Typed, Blocked, bank
  <2> QED  BY <2>3, <2>4, <2>5 DEF Typed
<1> QED  BY <1>1, <1>2

(* Transaction.objects.create, or the refusal by the unique constraint *)
LEMMA CreateTyped ==
  ASSUME Typed, NEW r \in Request, CreateTransaction(r)
  PROVE  Typed'
<1>1. UNCHANGED <<codes, idem, entry, held, link, confirm, pending, waiting, balance>>
  BY DEF CreateTransaction
<1>2. CASE Taken(r)
  <2>1. Advance(r, "duplicate") /\ UNCHANGED <<tx, cache, mine, task, charged>>
    BY <1>2 DEF CreateTransaction
  <2> QED  BY <1>1, <2>1 DEF Typed, TypeOK, References, Blocked, Made, Advance, Refused,
                             codes, link
<1>3. CASE ~ Taken(r)
  <2> DEFINE n == Len(tx) + 1
  <2>1. /\ tx' \in Seq(TxRow) /\ DOMAIN tx' = 1 .. n /\ DOMAIN tx = 1 .. Len(tx)
        /\ Len(tx) \in Nat
        /\ \A x \in DOMAIN tx : tx'[x] = tx[x]
        /\ tx'[n].issue = held[r]
        /\ task' \in [DOMAIN tx' -> TaskRow]
        /\ cache' \in [DOMAIN tx' -> Decided \cup {"PENDING", "none"}]
        /\ charged' \in [DOMAIN tx' -> Nat]
        /\ at' = [at EXCEPT ![r] = "cache"] /\ mine' = [mine EXCEPT ![r] = n]
    <3>0. tx'[Len(tx) + 1] = NewRow(r)
      BY <1>3, Created
    <3>1. tx'[Len(tx) + 1].issue = held[r]
      BY <3>0 DEF NewRow
    <3> QED  BY <1>3, <3>1, Created
  <2>2. DOMAIN tx \subseteq DOMAIN tx' /\ n \in Nat /\ n \in DOMAIN tx'
    BY <2>1
  <2>3. DOMAIN tx' = DOMAIN tx \cup {n}
    BY <2>1
  <2>4. at[r] = "create" /\ held[r] \in DOMAIN issued
    BY DEF CreateTransaction, Typed, References
  <2> HIDE DEF n
  <2>5. TypeOK'
    <3>1. /\ at' \in [Request -> {"idle", "answered", "dead"} \cup Writing \cup Refused]
          /\ mine' \in [Request -> Nat]
      BY <2>1, <2>2 DEF Typed, TypeOK, Writing
    <3>2. /\ entry' \subseteq [ref : Key, tx : DOMAIN tx']
          /\ sent' \subseteq (DOMAIN tx') \X Nat /\ pending' \subseteq DOMAIN tx'
      BY <1>1, <2>2 DEF Typed, TypeOK, link
    <3> QED  BY <1>1, <2>1, <3>1, <3>2 DEF Typed, TypeOK, TaskRow, codes, link
  <2>6. References'
    BY <1>1, <2>1, <2>2, <2>3, <2>4 DEF Typed, TypeOK, References, Made, codes
  <2>7. Blocked'
    <3> SUFFICES ASSUME NEW b \in Bank, waiting[b] # 0
                 PROVE  LET c == confirm[waiting[b]]
                        IN  /\ tx'[c.tx].bank = b
                            /\ c.decision = "COMPLETED" => balance[b] > 0
      BY <1>1 DEF Blocked
    <3>1. confirm[waiting[b]].tx \in DOMAIN tx
      BY Tables DEF Typed, TypeOK, References
    <3> QED  BY <2>1, <3>1 DEF Typed, Blocked
  <2> QED  BY <2>5, <2>6, <2>7 DEF Typed
<1> QED  BY <1>2, <1>3

(* The rest of the view, its wrapper, and a request that dies *)
LEMMA AnswerTyped ==
  ASSUME Typed,
         \/ \E r \in Request : \/ CachePending(r) \/ Enqueue(r) \/ Remember(r)
                               \/ CrashRequest(r)
         \/ \E row \in idem : Forget(row)
  PROVE  Typed'
<1>1. ASSUME NEW r \in Request, CachePending(r)
      PROVE  Typed'
  BY <1>1 DEF Typed, TypeOK, References, Blocked, CachePending, Advance, Made, Writing,
              codes, link, bank
<1>2. ASSUME NEW r \in Request, Enqueue(r)
      PROVE  Typed'
  <2>1. task' \in [DOMAIN tx -> TaskRow]
    BY <1>2, TaskMoved DEF Enqueue, Working, Typed, References, Made
  <2>2. TypeOK'
    BY <1>2, <2>1 DEF Typed, TypeOK, Enqueue, Advance, Writing, TaskRow, codes, link, bank
  <2>3. References' /\ Blocked'
    BY <1>2 DEF Typed, TypeOK, References, Blocked, Enqueue, Advance, Made, codes, bank
  <2> QED  BY <2>2, <2>3 DEF Typed
<1>3. ASSUME NEW r \in Request, Remember(r)
      PROVE  Typed'
  <2>1. mine[r] \in DOMAIN tx
    BY <1>3 DEF Remember, Made, Typed, References
  <2>2. /\ idem' \subseteq [agent : Agent, key : Key, code : Number, tx : Nat]
        /\ \A row \in idem' : row.tx \in DOMAIN tx
    <3>1. idem' \subseteq idem \cup {[agent |-> AgentOf[r], key |-> KeyOf[r],
                                      code |-> CodeOf[r], tx |-> mine[r]]}
      BY <1>3 DEF Remember
    <3>2. /\ idem \subseteq [agent : Agent, key : Key, code : Number, tx : Nat]
          /\ mine[r] \in Nat
      BY DEF Typed, TypeOK
    <3>4. AgentOf[r] \in Agent /\ KeyOf[r] \in Key /\ CodeOf[r] \in Number
      BY PaymentsAssumption
    <3>3. \A row \in idem : row.tx \in DOMAIN tx
      BY DEF Typed, References
    <3> QED  BY <2>1, <3>1, <3>2, <3>3, <3>4
  <2> QED  BY <1>3, <2>1, <2>2 DEF Typed, TypeOK, References, Blocked, Remember, Advance, Made,
                             codes, link, bank
<1>4. ASSUME NEW r \in Request, CrashRequest(r)
      PROVE  Typed'
  BY <1>4 DEF Typed, TypeOK, References, Blocked, CrashRequest, Advance, Made, codes, link,
              bank
<1>5. ASSUME NEW row \in idem, Forget(row)
      PROVE  Typed'
  BY <1>5 DEF Typed, TypeOK, References, Blocked, Forget, request, codes, link, bank
<1> QED  BY <1>1, <1>2, <1>3, <1>4, <1>5

(* authorize_webhook_task and the administrator *)
LEMMA TasksTyped ==
  ASSUME Typed,
         \/ \E x \in DOMAIN tx : TaskStep(x) \/ CrashTask(x)
         \/ \E b \in Bank : Disconnect(b)
  PROVE  Typed'
<1>1. ASSUME NEW x \in DOMAIN tx, StartAttempt(x)
      PROVE  Typed'
  <2>1. /\ task' \in [DOMAIN tx -> TaskRow]
        /\ sent \subseteq sent' /\ sent' \subseteq sent \cup {<<x, task[x].tries>>}
    <3>1. PICK stage \in {"skipped", "stale", "waiting"} :
             task' = [task EXCEPT ![x].stage = stage]
      BY <1>1 DEF StartAttempt
    <3>2. task' \in [DOMAIN tx -> TaskRow]
      BY <3>1, TaskMoved DEF Working, Ended
    <3>3. sent \subseteq sent' /\ sent' \subseteq sent \cup {<<x, task[x].tries>>}
      BY <1>1 DEF StartAttempt
    <3> QED  BY <3>2, <3>3
  <2>2. task[x].tries \in Nat
    BY Tables DEF Typed, TaskRow
  <2>3. heard' \subseteq sent' /\ sent' \subseteq (DOMAIN tx) \X Nat
    BY <1>1, <2>1, <2>2 DEF StartAttempt, Typed, TypeOK
  <2> QED  BY <1>1, <2>1, <2>3 DEF Typed, TypeOK, References, Blocked, StartAttempt, TaskRow,
                                   codes, request, bank
<1>2. ASSUME NEW x \in DOMAIN tx, RetryOrFail(x)
      PROVE  Typed'
  <2>1. task' \in [DOMAIN tx -> TaskRow]
    BY <1>2, Tables DEF Typed, RetryOrFail, TaskRow, Working, Ended
  <2> QED  BY <1>2, <2>1 DEF Typed, TypeOK, References, Blocked, RetryOrFail, TaskRow,
                             codes, request, link, bank
<1>3. ASSUME NEW x \in DOMAIN tx, MarkTimeout(x)
      PROVE  Typed'
  <2>1. task' \in [DOMAIN tx -> TaskRow]
    BY <1>3, TaskMoved DEF MarkTimeout, Working
  <2>2. /\ tx' \in Seq(TxRow) /\ DOMAIN tx' = DOMAIN tx
        /\ \A y \in DOMAIN tx : tx'[y].issue = tx[y].issue /\ tx'[y].bank = tx[y].bank
    BY <1>3, StatusWritten DEF MarkTimeout, Decided
  <2>3. TypeOK'
    BY <1>3, <2>1, <2>2 DEF Typed, TypeOK, MarkTimeout, TaskRow, codes, request, link, bank
  <2>4. References'
    BY <1>3, <2>2 DEF Typed, References, MarkTimeout, codes, request
  <2>5. Blocked'
    <3>1. \A b \in Bank : waiting[b] # 0 => confirm[waiting[b]].tx \in DOMAIN tx
      <4>1. \A b \in Bank : waiting[b] # 0 => waiting[b] \in DOMAIN confirm
        BY DEF Typed, TypeOK
      <4>2. \A k \in DOMAIN confirm : confirm[k].tx \in DOMAIN tx
        BY DEF Typed, References
      <4> QED  BY <4>1, <4>2
    <3> QED  BY <1>3, <2>2, <3>1 DEF Typed, Blocked, MarkTimeout, bank
  <2> QED  BY <2>3, <2>4, <2>5 DEF Typed
<1>4. ASSUME NEW x \in DOMAIN tx, CacheTimeout(x)
      PROVE  Typed'
  <2>1. task' \in [DOMAIN tx -> TaskRow]
    BY <1>4, TaskMoved DEF CacheTimeout, Ended
  <2>2. cache' \in [DOMAIN tx -> Decided \cup {"PENDING", "none"}]
    <3>1. cache \in [DOMAIN tx -> Decided \cup {"PENDING", "none"}]
      BY DEF Typed, TypeOK
    <3> QED  BY <1>4, <3>1 DEF CacheTimeout, Decided
  <2> QED  BY <1>4, <2>1, <2>2 DEF Typed, TypeOK, References, Blocked, CacheTimeout, TaskRow,
                             codes, request, link, bank
<1>5. ASSUME NEW x \in DOMAIN tx, CrashTask(x)
      PROVE  Typed'
  <2>1. task' \in [DOMAIN tx -> TaskRow]
    BY <1>5, TaskMoved DEF CrashTask, Ended
  <2> QED  BY <1>5, <2>1 DEF Typed, TypeOK, References, Blocked, CrashTask, TaskRow,
                             codes, request, link, bank
<1>6. ASSUME NEW b \in Bank, Disconnect(b)
      PROVE  Typed'
  BY <1>6 DEF Typed, TypeOK, References, Blocked, Disconnect, codes, request, bank
<1> QED  BY <1>1, <1>2, <1>3, <1>4, <1>5, <1>6 DEF TaskStep

(* What a bank that waits for KLIK knows of the confirm it waits for *)
LEMMA WaitingFor ==
  ASSUME Typed, NEW b \in Bank, waiting[b] # 0
  PROVE  /\ waiting[b] \in DOMAIN confirm
         /\ confirm[waiting[b]] \in ConfirmRow
         /\ confirm[waiting[b]].tx \in DOMAIN tx
         /\ tx[confirm[waiting[b]].tx].bank = b
         /\ confirm[waiting[b]].decision = "COMPLETED" => balance[b] > 0
<1>1. waiting[b] \in DOMAIN confirm /\ confirm[waiting[b]] \in ConfirmRow
  BY Tables DEF Typed, TypeOK
<1> QED  BY <1>1 DEF Typed, References, Blocked

(* The bank's application, when it is not waiting *)
LEMMA BankTyped ==
  ASSUME Typed, NEW x \in DOMAIN tx,
         \/ \E attempt \in 0 .. MaxRetries, answered \in BOOLEAN :
              HearWebhook(x, attempt, answered)
         \/ ExpirePending(x)
         \/ \E decision \in {"COMPLETED", "REJECTED"} : SendConfirm(x, decision)
  PROVE  Typed'
<1>1. tx[x].bank \in Bank
  BY Tables DEF Typed, TxRow
<1>2. ASSUME NEW attempt \in 0 .. MaxRetries, NEW answered \in BOOLEAN,
             HearWebhook(x, attempt, answered)
      PROVE  Typed'
  <2>1. UNCHANGED <<codes, idem, tx, entry, cache, request, webhook, sent, confirm, waiting,
                    balance, charged>>
    BY <1>2 DEF HearWebhook
  <2>2. task' \in [DOMAIN tx -> TaskRow]
    BY <1>2, TaskMoved, Tables DEF HearWebhook, Ended, Typed
  <2>3. heard' \subseteq sent' /\ pending \subseteq pending' /\ pending' \subseteq DOMAIN tx
    BY <1>2, <2>1 DEF HearWebhook, Typed, TypeOK
  <2>4. TypeOK'
    BY <2>1, <2>2, <2>3 DEF Typed, TypeOK, TaskRow, codes, request
  <2>5. References' /\ Blocked'
    BY <2>1, <2>3 DEF Typed, References, Blocked, codes, request
  <2> QED  BY <2>4, <2>5 DEF Typed
<1>3. ASSUME ExpirePending(x)
      PROVE  Typed'
  <2>1. /\ pending' = pending \ {x}
        /\ UNCHANGED <<codes, idem, tx, entry, cache, request, task, link, confirm, waiting,
                       balance, charged>>
    BY <1>3 DEF ExpirePending
  <2>2. TypeOK' /\ References'
    BY <2>1 DEF Typed, TypeOK, References, codes, request, link
  <2>3. Blocked'
    BY <2>1 DEF Typed, Blocked
  <2> QED  BY <2>2, <2>3 DEF Typed
<1>4. ASSUME NEW decision \in {"COMPLETED", "REJECTED"}, SendConfirm(x, decision)
      PROVE  Typed'
  <2> DEFINE n == Len(confirm) + 1
  <2>1. UNCHANGED <<codes, idem, tx, entry, cache, request, task, link, pending, balance,
                    charged>>
    BY <1>4 DEF SendConfirm
  <2>2. /\ confirm' \in Seq(ConfirmRow) /\ Len(confirm') = n
        /\ DOMAIN confirm' = 1 .. n /\ DOMAIN confirm = 1 .. Len(confirm)
        /\ Len(confirm) \in Nat
        /\ \A i \in DOMAIN confirm : confirm'[i] = confirm[i]
        /\ confirm'[n] = [tx |-> x, decision |-> decision, stage |-> "received",
                          ok |-> FALSE]
    BY <1>4, Sent
  <2>3. waiting' = [waiting EXCEPT ![tx[x].bank] = n]
    BY <1>4, <2>2 DEF SendConfirm
  <2>4. waiting \in [Bank -> 0 .. Len(confirm)]
    BY DEF Typed, TypeOK
  <2>5. waiting' \in [Bank -> 0 .. n]
    <3>1. n \in 0 .. n /\ \A i \in 0 .. Len(confirm) : i \in 0 .. n
      BY <2>2
    <3> HIDE DEF n
    <3> QED  BY <2>3, <2>4, <3>1
  <2>6. TypeOK'
    BY <2>1, <2>2, <2>5 DEF Typed, TypeOK, codes, request, link
  <2>7. References'
    <3>1. \A i \in DOMAIN confirm' : confirm'[i].tx \in DOMAIN tx
      BY <2>2 DEF Typed, References
    <3> QED  BY <2>1, <3>1 DEF Typed, References, codes, request
  <2>8. Blocked'
    <3> SUFFICES ASSUME NEW b \in Bank, waiting'[b] # 0
                 PROVE  LET c == confirm'[waiting'[b]]
                        IN  /\ tx[c.tx].bank = b
                            /\ c.decision = "COMPLETED" => balance[b] > 0
      BY <2>1 DEF Blocked
    <3>1. CASE b = tx[x].bank
      <4>1. waiting'[b] = n
        BY <2>3, <2>4, <3>1
      <4>2. confirm'[n].tx = x /\ confirm'[n].decision = decision
        BY <2>2
      <4>3. x \in pending /\ (decision = "COMPLETED" => balance[tx[x].bank] > 0)
        BY <1>4 DEF SendConfirm, CanAfford
      <4> QED  BY <3>1, <4>1, <4>2, <4>3
    <3>2. CASE b # tx[x].bank
      <4>1. waiting'[b] = waiting[b]
        BY <2>3, <2>4, <3>2
      <4>2. waiting[b] \in DOMAIN confirm
        BY <4>1, WaitingFor
      <4> QED  BY <2>2, <4>1, <4>2, WaitingFor
    <3> QED  BY <3>1, <3>2
  <2> QED  BY <2>6, <2>7, <2>8 DEF Typed
<1> QED  BY <1>2, <1>3, <1>4

(* KLIK's answer, or none *)
LEMMA AnswersTyped ==
  ASSUME Typed, NEW b \in Bank, HearAnswer(b) \/ GiveUp(b)
  PROVE  Typed'
<1> DEFINE c == confirm[waiting[b]]
<1>1. /\ waiting[b] # 0 /\ waiting' = [waiting EXCEPT ![b] = 0]
      /\ UNCHANGED <<codes, idem, tx, entry, cache, request, task, link, confirm>>
  BY DEF HearAnswer, GiveUp
<1>2. waiting \in [Bank -> 0 .. Len(confirm)] /\ Len(confirm) \in Nat
  BY Tables DEF Typed, TypeOK
<1>3. waiting' \in [Bank -> 0 .. Len(confirm)]
  BY <1>1, <1>2
<1>4. c.tx \in DOMAIN tx /\ tx[c.tx].bank = b
  BY <1>1, WaitingFor
<1>5. /\ pending' \subseteq pending
      /\ balance' \in [Bank -> Nat] /\ charged' \in [DOMAIN tx -> Nat]
      /\ \A d \in Bank : d # b => balance'[d] = balance[d]
  <2>1. balance \in [Bank -> Nat] /\ charged \in [DOMAIN tx -> Nat]
    BY DEF Typed, TypeOK
  <2>2. CASE GiveUp(b)
    BY <2>1, <2>2 DEF GiveUp
  <2>3. CASE HearAnswer(b)
    <3>1. /\ pending' = StillPending(c)
          /\ IF c.ok /\ c.decision = "COMPLETED"
               THEN /\ balance' = [balance EXCEPT ![b] = @ - 1]
                    /\ charged' = [charged EXCEPT ![c.tx] = @ + 1]
               ELSE UNCHANGED <<balance, charged>>
      BY <2>3 DEF HearAnswer
    <3>2. c.decision = "COMPLETED" => balance[b] > 0
      BY <1>1, WaitingFor
    <3> HIDE DEF c
    <3>3. pending' \subseteq pending
      BY <3>1 DEF StillPending
    <3>4. CASE c.ok /\ c.decision = "COMPLETED"
      BY <1>4, <2>1, <3>1, <3>2, <3>3, <3>4
    <3>5. CASE ~ (c.ok /\ c.decision = "COMPLETED")
      BY <2>1, <3>1, <3>3, <3>5
    <3> QED  BY <3>4, <3>5
  <2> QED  BY <2>2, <2>3
<1>6. TypeOK'
  BY <1>1, <1>3, <1>5 DEF Typed, TypeOK, codes, request, link
<1>7. References'
  BY <1>1 DEF Typed, References, codes, request
<1>8. Blocked'
  <2> SUFFICES ASSUME NEW d \in Bank, waiting'[d] # 0
               PROVE  LET k == confirm[waiting'[d]]
                      IN  /\ tx[k.tx].bank = d
                          /\ k.decision = "COMPLETED" => balance'[d] > 0
    BY <1>1 DEF Blocked
  <2>1. d # b /\ waiting'[d] = waiting[d]
    BY <1>1, <1>2
  <2>2. /\ tx[confirm[waiting[d]].tx].bank = d
        /\ confirm[waiting[d]].decision = "COMPLETED" => balance[d] > 0
    BY <2>1, WaitingFor
  <2> QED  BY <1>5, <2>1, <2>2
<1> QED  BY <1>6, <1>7, <1>8 DEF Typed

(* The row of a confirm that is answered *)
LEMMA ConfirmReplied ==
  ASSUME Typed, NEW i \in DOMAIN confirm, NEW ok \in BOOLEAN, Reply(i, ok)
  PROVE  /\ confirm' \in Seq(ConfirmRow) /\ DOMAIN confirm' = DOMAIN confirm
         /\ Len(confirm') = Len(confirm)
         /\ confirm'[i].stage = "replied" /\ confirm'[i].ok = ok
         /\ \A j \in DOMAIN confirm : j # i => confirm'[j] = confirm[j]
         /\ \A j \in DOMAIN confirm : /\ confirm'[j].tx = confirm[j].tx
                                      /\ confirm'[j].decision = confirm[j].decision
<1> DEFINE row == [confirm[i] EXCEPT !.stage = "replied", !.ok = ok]
<1>1. confirm[i] \in ConfirmRow
  BY Tables DEF Typed
<1>2. /\ row \in ConfirmRow /\ row.stage = "replied" /\ row.ok = ok
      /\ row.tx = confirm[i].tx /\ row.decision = confirm[i].decision
  BY <1>1 DEF ConfirmRow
<1>3. confirm' = [confirm EXCEPT ![i] = row]
  BY DEF Reply
<1> HIDE DEF row
<1> QED  BY <1>2, <1>3, ConfirmMoved

(* The row of a confirm that goes on to another stage *)
LEMMA ConfirmStaged ==
  ASSUME Typed, NEW i \in DOMAIN confirm, NEW stage \in {"caching", "dead"},
         confirm' = [confirm EXCEPT ![i].stage = stage]
  PROVE  /\ confirm' \in Seq(ConfirmRow) /\ DOMAIN confirm' = DOMAIN confirm
         /\ Len(confirm') = Len(confirm)
         /\ confirm'[i].stage = stage /\ confirm'[i].ok = confirm[i].ok
         /\ \A j \in DOMAIN confirm : j # i => confirm'[j] = confirm[j]
         /\ \A j \in DOMAIN confirm : /\ confirm'[j].tx = confirm[j].tx
                                      /\ confirm'[j].decision = confirm[j].decision
<1> DEFINE row == [confirm[i] EXCEPT !.stage = stage]
<1>1. confirm[i] \in ConfirmRow
  BY Tables DEF Typed
<1>2. /\ row \in ConfirmRow /\ row.stage = stage /\ row.ok = confirm[i].ok
      /\ row.tx = confirm[i].tx /\ row.decision = confirm[i].decision
  BY <1>1 DEF ConfirmRow
<1>3. confirm' = [confirm EXCEPT ![i] = row]
  OBVIOUS
<1> HIDE DEF row
<1> QED  BY <1>2, <1>3, ConfirmMoved

(* POST /payments/confirm *)
LEMMA ConfirmsTyped ==
  ASSUME Typed, NEW i \in DOMAIN confirm, ConfirmStep(i) \/ CrashConfirm(i)
  PROVE  Typed'
<1> DEFINE x == confirm[i].tx
           d == confirm[i].decision
           Same == /\ confirm' \in Seq(ConfirmRow) /\ DOMAIN confirm' = DOMAIN confirm
                   /\ Len(confirm') = Len(confirm)
                   /\ \A j \in DOMAIN confirm : /\ confirm'[j].tx = confirm[j].tx
                                                /\ confirm'[j].decision = confirm[j].decision
           Rows == /\ tx' \in Seq(TxRow) /\ DOMAIN tx' = DOMAIN tx
                   /\ \A y \in DOMAIN tx : tx'[y].issue = tx[y].issue /\ tx'[y].bank = tx[y].bank
           Kept == /\ entry' \subseteq entry \cup [ref : Key, tx : DOMAIN tx]
                   /\ cache' \in [DOMAIN tx -> Decided \cup {"PENDING", "none"}]
                   /\ UNCHANGED <<codes, idem, request, task, link, bank>>
<1>1. x \in DOMAIN tx /\ d \in {"COMPLETED", "REJECTED"}
  BY Tables DEF Typed, References, ConfirmRow
<1>2. ASSUME Same, Rows, Kept
      PROVE  Typed'
  <2>3. TypeOK'
    BY <1>2 DEF Typed, TypeOK, codes, request, link, bank
  <2>4. References'
    BY <1>2 DEF Typed, References, codes, request
  <2>5. Blocked'
    <3> SUFFICES ASSUME NEW b \in Bank, waiting[b] # 0
                 PROVE  LET k == confirm'[waiting[b]]
                        IN  /\ tx'[k.tx].bank = b
                            /\ k.decision = "COMPLETED" => balance[b] > 0
      BY <1>2 DEF Blocked, bank
    <3>1. /\ waiting[b] \in DOMAIN confirm
          /\ confirm[waiting[b]].tx \in DOMAIN tx
          /\ tx[confirm[waiting[b]].tx].bank = b
          /\ confirm[waiting[b]].decision = "COMPLETED" => balance[b] > 0
      BY WaitingFor
    <3>2. /\ confirm'[waiting[b]].tx = confirm[waiting[b]].tx
          /\ confirm'[waiting[b]].decision = confirm[waiting[b]].decision
      BY <1>2, <3>1
    <3>3. tx'[confirm[waiting[b]].tx].bank = b
      BY <1>2, <3>1
    <3> QED  BY <3>1, <3>2, <3>3
  <2> QED  BY <2>3, <2>4, <2>5 DEF Typed
<1>3. /\ cache \in [DOMAIN tx -> Decided \cup {"PENDING", "none"}]
      /\ tx \in Seq(TxRow)
  BY DEF Typed, TypeOK
<1>4. CASE ConfirmReplay(i) \/ ConfirmRefused(i)
  <2>1. PICK ok \in BOOLEAN : Reply(i, ok)
    BY <1>4 DEF ConfirmReplay, ConfirmRefused, Repeats
  <2>2. UNCHANGED <<codes, idem, tx, entry, cache, request, task, link, bank>>
    BY <1>4 DEF ConfirmReplay, ConfirmRefused
  <2>3. Same
    BY <2>1, ConfirmReplied
  <2>4. Rows /\ Kept
    BY <1>3, <2>2
  <2> QED  BY <1>2, <2>3, <2>4
<1>5. CASE ConfirmDecide(i)
  <2>1. Same
    BY <1>5, ConfirmStaged DEF ConfirmDecide
  <2>2. /\ UNCHANGED <<codes, idem, cache, request, task, link, bank>>
        /\ entry' = entry \/ entry' = entry \cup {[ref |-> tx[x].key, tx |-> x]}
    BY <1>5, DecisionWritten DEF ConfirmDecide, Booked
  <2>3. tx[x].key \in Key
    BY <1>1, Tables DEF Typed, TxRow
  <2>4. Rows
    BY <1>5, DecisionWritten
  <2> HIDE DEF x, d
  <2>5. Kept
    BY <1>1, <1>3, <2>2, <2>3
  <2> QED  BY <1>2, <2>1, <2>4, <2>5
<1>6. CASE CacheDecision(i)
  <2>1. Same
    BY <1>6, ConfirmReplied DEF CacheDecision
  <2>2. /\ cache' = [cache EXCEPT ![x] = d]
        /\ UNCHANGED <<codes, idem, tx, entry, request, task, link, bank>>
    BY <1>6 DEF CacheDecision
  <2> HIDE DEF x, d
  <2>3. Rows /\ Kept
    BY <1>1, <1>3, <2>2 DEF Decided
  <2> QED  BY <1>2, <2>1, <2>3
<1>7. CASE CrashConfirm(i)
  <2>1. Same
    BY <1>7, ConfirmStaged DEF CrashConfirm
  <2>2. Rows /\ Kept
    BY <1>3, <1>7 DEF CrashConfirm
  <2> QED  BY <1>2, <2>1, <2>2
<1> QED  BY <1>4, <1>5, <1>6, <1>7 DEF ConfirmStep

(* The empty system is well typed. *)
LEMMA TypedInit == Init => Typed
<1> SUFFICES ASSUME Init PROVE Typed
  OBVIOUS
<1>1. tx = <<>> /\ issued = <<>> /\ confirm = <<>> /\ cache = <<>> /\ task = <<>> /\ charged = <<>>
  BY DEF Init
<1>2. /\ tx \in Seq(TxRow) /\ issued \in Seq(Bank) /\ confirm \in Seq(ConfirmRow)
      /\ DOMAIN tx = {} /\ DOMAIN confirm = {} /\ Len(issued) = 0 /\ Len(confirm) = 0
  BY <1>1
<1>3. /\ cache \in [DOMAIN tx -> Decided \cup {"PENDING", "none"}]
      /\ charged \in [DOMAIN tx -> Nat]
      /\ task \in [DOMAIN tx -> TaskRow]
  BY <1>1, <1>2
<1>4. TypeOK
  BY <1>2, <1>3 DEF Init, TypeOK, TaskRow
<1>5. References /\ Blocked
  BY <1>2 DEF Init, References, Blocked, Made
<1> QED  BY <1>4, <1>5 DEF Typed

(* Every step of every actor keeps the types and what they rest on. *)
LEMMA TypedStep == Typed /\ [Next]_vars => Typed'
<1> SUFFICES ASSUME Typed, [Next]_vars PROVE Typed'
  OBVIOUS
<1>1. CASE UNCHANGED vars
  BY <1>1 DEF Typed, TypeOK, References, Blocked, vars, codes, request, link, bank
<1>2. CASE Next
  BY <1>2, CodesTyped, ReceiveTyped, CreateTyped, AnswerTyped, TasksTyped, BankTyped,
     AnswersTyped, ConfirmsTyped DEF Next, RequestStep
<1> QED  BY <1>1, <1>2

(* Every reachable state is well typed: what a request, a task, a confirm  *)
(* or a kept answer refers to exists, and no account is overdrawn, since   *)
(* the bank's application does nothing between its look at the balance and *)
(* the debit.                                                              *)
THEOREM TypeCorrect == Spec => []TypeOK
<1>1. Typed => TypeOK
  BY DEF Typed
<1> QED  BY TypedInit, TypedStep, <1>1, PTL DEF Spec

-----------------------------------------------------------------------------
(* One payment per issue of a code, and per order *)

(* Steps that neither issue nor use a code, nor create a transaction *)
Aside ==
  \/ \E r \in Request : Receive(r) \/ CachePending(r) \/ Enqueue(r) \/ Remember(r)
                          \/ CrashRequest(r)
  \/ \E row \in idem : Forget(row)
  \/ \E x \in DOMAIN tx : TaskStep(x) \/ CrashTask(x) \/ ExpirePending(x)
  \/ \E x \in DOMAIN tx, attempt \in 0 .. MaxRetries, answered \in BOOLEAN :
       HearWebhook(x, attempt, answered)
  \/ \E x \in DOMAIN tx, decision \in {"COMPLETED", "REJECTED"} : SendConfirm(x, decision)
  \/ \E i \in DOMAIN confirm : ConfirmStep(i) \/ CrashConfirm(i)
  \/ \E b \in Bank : HearAnswer(b) \/ GiveUp(b) \/ Disconnect(b)
  \/ UNCHANGED vars

(* Every step, by what it can do to codes and rows. *)
LEMMA StepKinds ==
  ASSUME Typed, [Next]_vars
  PROVE  \/ \E b \in Bank, number \in Number : GenerateCode(b, number)
         \/ \E k \in code : ExpireCode(k)
         \/ \E r \in Request : MarkUsed(r) \/ CreateTransaction(r)
         \/ Aside
BY DEF Next, RequestStep, Aside

(* What a transaction is about *)
SameRows ==
  /\ DOMAIN tx' = DOMAIN tx /\ Len(tx') = Len(tx)
  /\ \A x \in DOMAIN tx : /\ tx'[x].agent = tx[x].agent /\ tx'[x].key = tx[x].key
                          /\ tx'[x].issue = tx[x].issue /\ tx'[x].bank = tx[x].bank

(* Only MarkTimeout and ConfirmDecide write to a row. *)
LEMMA RowWriters ==
  ASSUME Aside
  PROVE  \/ tx' = tx
         \/ \E x \in DOMAIN tx : MarkTimeout(x)
         \/ \E i \in DOMAIN confirm : ConfirmDecide(i)
BY DEF Aside, Receive, CachePending, Enqueue, Remember, CrashRequest, Forget, TaskStep,
       StartAttempt, RetryOrFail, CacheTimeout, CrashTask, ExpirePending, HearWebhook,
       SendConfirm, ConfirmStep, ConfirmReplay, ConfirmRefused, CacheDecision, CrashConfirm,
       HearAnswer, GiveUp, Disconnect, vars

(* No statement but the creation says what a transaction is about. *)
LEMMA AsideRows ==
  ASSUME Typed, Aside
  PROVE  SameRows
<1>1. ASSUME NEW x \in DOMAIN tx, MarkTimeout(x)
      PROVE  SameRows
  BY <1>1, StatusWritten DEF MarkTimeout, Decided, SameRows
<1>2. ASSUME NEW i \in DOMAIN confirm, ConfirmDecide(i)
      PROVE  SameRows
  BY <1>2, DecisionWritten DEF SameRows
<1> QED  BY <1>1, <1>2, RowWriters DEF SameRows

(* Nor do they touch the codes, or reach the point of creation. *)
LEMMA AsideCodes ==
  ASSUME Typed, Aside
  PROVE  /\ UNCHANGED <<code, issued, held>>
         /\ \A r \in Request : at'[r] = "create" => at[r] = "create"
<1>1. at \in [Request -> {"idle", "answered", "dead"} \cup Writing \cup Refused]
  BY DEF Typed, TypeOK
<1> QED
  BY <1>1 DEF Aside, Advance, Receive, CachePending, Enqueue, Remember, CrashRequest, Forget,
         TaskStep, StartAttempt, RetryOrFail, MarkTimeout, CacheTimeout, CrashTask,
         ExpirePending, HearWebhook, SendConfirm, ConfirmStep, ConfirmReplay, ConfirmRefused,
         ConfirmDecide, CacheDecision, CrashConfirm, HearAnswer, GiveUp, Disconnect, vars,
         codes, request

(* An issue is in one place: free in Redis, held by one request on its way *)
(* to the database, or in one transaction.                                 *)
Issues ==
  /\ CodePaysOnce
  /\ \A j, k \in code : j.issue = k.issue => j = k
  /\ \A k \in code : k.status = "ACTIVE" =>
       /\ \A x \in DOMAIN tx : tx[x].issue # k.issue
       /\ \A r \in Request : at[r] = "create" => held[r] # k.issue
  /\ \A r \in Request : at[r] = "create" => \A x \in DOMAIN tx : tx[x].issue # held[r]
  /\ \A r, q \in Request : at[r] = "create" /\ at[q] = "create" /\ held[r] = held[q] => r = q

(* MARK_USED_SCRIPT is what moves an issue on: it runs in one piece. *)
LEMMA MarkIssues ==
  ASSUME Typed, Issues, NEW r \in Request, MarkUsed(r)
  PROVE  Issues'
<1>1. UNCHANGED <<issued, tx>>
  BY DEF MarkUsed
<1>2. /\ at \in [Request -> {"idle", "answered", "dead"} \cup Writing \cup Refused]
      /\ held \in [Request -> Nat] /\ code \subseteq CodeRow
  BY DEF Typed, TypeOK
<1>3. CASE code' = code /\ held' = held /\ at'[r] # "create"
            /\ \A q \in Request : q # r => at'[q] = at[q]
  BY <1>1, <1>3 DEF Issues, CodePaysOnce
<1>4. ASSUME NEW k \in code, k.status = "ACTIVE",
             code' = (code \ {k}) \cup {Used(k)}, held' = [held EXCEPT ![r] = k.issue],
             \A q \in Request : q # r => at'[q] = at[q]
      PROVE  Issues'
  <2>1. Used(k).issue = k.issue /\ Used(k).status = "USED"
    BY <1>2 DEF Used, CodeRow
  <2>2. held'[r] = k.issue /\ \A q \in Request : q # r => held'[q] = held[q]
    BY <1>2, <1>4
  <2>3. CodePaysOnce'
    BY <1>1 DEF Issues, CodePaysOnce
  <2>4. \A i, j \in code' : i.issue = j.issue => i = j
    BY <1>4, <2>1 DEF Issues
  <2>5. \A j \in code' : j.status = "ACTIVE" => j \in code /\ j.issue # k.issue
    BY <1>4, <2>1 DEF Issues
  <2>6. \A j \in code' : j.status = "ACTIVE" =>
          /\ \A x \in DOMAIN tx' : tx'[x].issue # j.issue
          /\ \A q \in Request : at'[q] = "create" => held'[q] # j.issue
    BY <1>1, <1>4, <2>2, <2>5 DEF Issues
  <2>7. \A q \in Request : at'[q] = "create" => \A x \in DOMAIN tx' : tx'[x].issue # held'[q]
    BY <1>1, <1>4, <2>2 DEF Issues
  <2>8. \A p, q \in Request : at'[p] = "create" /\ at'[q] = "create" /\ held'[p] = held'[q] => p = q
    BY <1>4, <2>2 DEF Issues
  <2> QED  BY <2>3, <2>4, <2>6, <2>7, <2>8 DEF Issues
<1>5. ASSUME NEW stage \in {"expired", "used"}, Advance(r, stage), UNCHANGED <<code, held>>
      PROVE  Issues'
  BY <1>2, <1>3, <1>5 DEF Advance
<1>6. ASSUME NEW k \in code,
             IF k.status = "ACTIVE"
               THEN /\ code' = (code \ {k}) \cup {Used(k)}
                    /\ held' = [held EXCEPT ![r] = k.issue]
                    /\ Advance(r, IF ZoneOf[issued[k.issue]] = ZoneOf[AgentOf[r]]
                                    THEN "create" ELSE "mismatch")
               ELSE Advance(r, "used") /\ UNCHANGED <<code, held>>
      PROVE  Issues'
  <2>1. CASE k.status = "ACTIVE"
    <3>1. \A q \in Request : q # r => at'[q] = at[q]
      BY <1>2, <1>6, <2>1 DEF Advance
    <3> QED  BY <1>4, <1>6, <2>1, <3>1
  <2>2. CASE k.status # "ACTIVE"
    BY <1>5, <1>6, <2>2
  <2> QED  BY <2>1, <2>2
<1> QED  BY <1>5, <1>6 DEF MarkUsed

(* A new issue is in no transaction; a number that is issued again is a new *)
(* issue; and creation moves the issue that the request holds.             *)
LEMMA IssuesStep == Typed /\ Issues /\ [Next]_vars => Issues'
<1> SUFFICES ASSUME Typed, Issues, [Next]_vars PROVE Issues'
  OBVIOUS
<1>1. ASSUME NEW b \in Bank, NEW number \in Number, GenerateCode(b, number)
      PROVE  Issues'
  <2> DEFINE n == Len(issued) + 1
             new == [number |-> number, issue |-> n, status |-> "ACTIVE"]
  <2>1. issued \in Seq(Bank) /\ issued' = Append(issued, b)
    BY <1>1 DEF GenerateCode, Typed, TypeOK
  <2>2. Len(issued') = n /\ n \notin DOMAIN issued
    BY <2>1, AppendRow, SeqDomain
  <2>3. code' = code \cup {new} /\ UNCHANGED <<tx, at, held>>
    BY <1>1, <2>2 DEF GenerateCode, request
  <2>4. /\ \A k \in code : k.issue # n
        /\ \A x \in DOMAIN tx : tx[x].issue # n
        /\ \A r \in Request : at[r] = "create" => held[r] # n
    BY <2>2 DEF Typed, References
  <2>5. new.issue = n
    OBVIOUS
  <2> HIDE DEF new, n
  <2> QED  BY <2>3, <2>4, <2>5 DEF Issues, CodePaysOnce
<1>2. ASSUME NEW k \in code, ExpireCode(k)
      PROVE  Issues'
  BY <1>2 DEF ExpireCode, request, Issues, CodePaysOnce
<1>3. ASSUME NEW r \in Request, CreateTransaction(r)
      PROVE  Issues'
  <2>1. code' = code /\ held' = held /\ at[r] = "create"
    BY <1>3 DEF CreateTransaction, codes
  <2>2. at \in [Request -> {"idle", "answered", "dead"} \cup Writing \cup Refused]
    BY DEF Typed, TypeOK
  <2>3. CASE Taken(r)
    BY <1>3, <2>1, <2>2, <2>3 DEF CreateTransaction, Advance, Issues, CodePaysOnce
  <2>4. CASE ~ Taken(r)
    <3> DEFINE n == Len(tx) + 1
    <3>1. /\ at' = [at EXCEPT ![r] = "cache"]
          /\ DOMAIN tx' = 1 .. n /\ DOMAIN tx = 1 .. Len(tx) /\ Len(tx) \in Nat
          /\ \A x \in DOMAIN tx : tx'[x] = tx[x]
          /\ tx'[n] = NewRow(r)
      BY <1>3, <2>4, Created
    <3>2. tx'[n].issue = held[r] /\ DOMAIN tx' = DOMAIN tx \cup {n}
      BY <3>1 DEF NewRow
    <3>3. at'[r] # "create" /\ \A q \in Request : q # r => at'[q] = at[q]
      BY <2>2, <3>1
    <3>4. \A x \in DOMAIN tx : tx'[x].issue = tx[x].issue /\ tx[x].issue # held[r]
      BY <2>1, <3>1 DEF Issues
    <3> HIDE DEF n
    <3>5. CodePaysOnce'
      BY <3>2, <3>4 DEF Issues, CodePaysOnce
    <3>6. \A q \in Request : at'[q] = "create" => \A x \in DOMAIN tx' : tx'[x].issue # held'[q]
      BY <2>1, <3>2, <3>3, <3>4 DEF Issues
    <3>7. \A k \in code' : k.status = "ACTIVE" =>
            /\ \A x \in DOMAIN tx' : tx'[x].issue # k.issue
            /\ \A q \in Request : at'[q] = "create" => held'[q] # k.issue
      BY <2>1, <3>2, <3>3, <3>4 DEF Issues
    <3> QED  BY <2>1, <3>3, <3>5, <3>6, <3>7 DEF Issues
  <2> QED  BY <2>3, <2>4
<1>4. CASE Aside
  <2>1. /\ UNCHANGED <<code, held>> /\ DOMAIN tx' = DOMAIN tx
        /\ \A r \in Request : at'[r] = "create" => at[r] = "create"
        /\ \A x \in DOMAIN tx : tx'[x].issue = tx[x].issue
    BY <1>4, AsideRows, AsideCodes DEF SameRows
  <2> QED  BY <2>1 DEF Issues, CodePaysOnce
<1> QED  BY <1>1, <1>2, <1>3, <1>4, MarkIssues, StepKinds

(* One issue of a code pays once, whoever presents it, however often, and  *)
(* even when the number is issued again while the first payment runs.      *)
THEOREM IssuePaysOnce == Spec => []CodePaysOnce
<1>1. Init => Issues
  BY DEF Init, Issues, CodePaysOnce
<1>2. Issues => CodePaysOnce
  BY DEF Issues
<1> QED  BY TypedInit, TypedStep, IssuesStep, <1>1, <1>2, PTL DEF Spec

(* Rows of one order are one row; and a kept answer, like a request that   *)
(* got past the creation, refers to the row of its own order.              *)
Orders ==
  /\ \A x, y \in DOMAIN tx : tx[x].agent = tx[y].agent /\ tx[x].key = tx[y].key => x = y
  /\ \A row \in idem : tx[row.tx].agent = row.agent /\ tx[row.tx].key = row.key
  /\ \A r \in Request : at[r] \in Made => SameOrder(r, tx[mine[r]])

(* The webhook task of a transaction was queued before its answer was kept *)
(* or given.                                                               *)
Queued ==
  /\ \A r \in Request : at[r] \in {"remember", "answered"} => task[mine[r]].stage # "none"
  /\ \A row \in idem : task[row.tx].stage # "none"

(* Who writes to tasks *)
LEMMA TaskWriters ==
  ASSUME Aside
  PROVE  \/ task' = task \/ (\E r \in Request : Enqueue(r))
         \/ \E x \in DOMAIN tx : TaskStep(x) \/ CrashTask(x)
         \/ \E x \in DOMAIN tx, attempt \in 0 .. MaxRetries, answered \in BOOLEAN :
              HearWebhook(x, attempt, answered)
BY DEF Aside, Receive, CachePending, Remember, CrashRequest, Forget, ExpirePending,
       SendConfirm, ConfirmStep, ConfirmReplay, ConfirmRefused, ConfirmDecide, CacheDecision,
       CrashConfirm, HearAnswer, GiveUp, Disconnect, vars

(* A task, once queued, never becomes unqueued. *)
LEMMA TasksGoOn ==
  ASSUME Typed, Aside
  PROVE  \A x \in DOMAIN tx : task'[x].stage = "none" => task[x].stage = "none"
<1>1. ASSUME NEW r \in Request, Enqueue(r)
      PROVE  \A x \in DOMAIN tx : task'[x].stage = "none" => task[x].stage = "none"
  <2>1. mine[r] \in DOMAIN tx
    BY <1>1 DEF Enqueue, Typed, References, Made
  <2> QED  BY <1>1, <2>1, TaskMoved DEF Enqueue, Working
<1>2. ASSUME NEW x \in DOMAIN tx, TaskStep(x) \/ CrashTask(x)
      PROVE  \A y \in DOMAIN tx : task'[y].stage = "none" => task[y].stage = "none"
  <2>1. ASSUME NEW stage \in Working \cup Ended, task' = [task EXCEPT ![x].stage = stage]
        PROVE  \A y \in DOMAIN tx : task'[y].stage = "none" => task[y].stage = "none"
    <3>1. stage # "none" /\ stage \in {"none"} \cup Working \cup Ended
      BY DEF Working, Ended
    <3> QED  BY <2>1, <3>1, TaskMoved
  <2>2. CASE StartAttempt(x)
    <3>1. PICK stage \in {"skipped", "stale", "waiting"} : task' = [task EXCEPT ![x].stage = stage]
      BY <2>2 DEF StartAttempt
    <3> QED  BY <2>1, <3>1 DEF Working, Ended
  <2>3. CASE RetryOrFail(x)
    BY <2>3, Tables DEF RetryOrFail, Typed, TaskRow
  <2>4. CASE MarkTimeout(x)
    BY <2>1, <2>4 DEF MarkTimeout, Working
  <2>5. CASE CacheTimeout(x)
    BY <2>1, <2>5 DEF CacheTimeout, Ended
  <2>6. CASE CrashTask(x)
    BY <2>1, <2>6 DEF CrashTask, Ended
  <2> QED  BY <1>2, <2>2, <2>3, <2>4, <2>5, <2>6 DEF TaskStep
<1>3. ASSUME NEW x \in DOMAIN tx, NEW attempt \in 0 .. MaxRetries, NEW answered \in BOOLEAN,
             HearWebhook(x, attempt, answered)
      PROVE  \A y \in DOMAIN tx : task'[y].stage = "none" => task[y].stage = "none"
  <2>1. task' = task \/ task' = [task EXCEPT ![x].stage = "delivered"]
    BY <1>3 DEF HearWebhook
  <2> QED  BY <2>1, TaskMoved DEF Ended
<1> QED  BY <1>1, <1>2, <1>3, TaskWriters

(* Steps that give no answer and keep none leave the requests that have a  *)
(* transaction where they are.                                             *)
LEMMA AsideAnswers ==
  ASSUME Typed, Aside
  PROVE  \/ \E r \in Request : Receive(r) \/ CachePending(r) \/ Enqueue(r) \/ Remember(r)
         \/ /\ idem' \subseteq idem
            /\ \A r \in Request : at'[r] \in Made => at'[r] = at[r] /\ mine'[r] = mine[r]
<1>1. ASSUME NEW r \in Request, CrashRequest(r)
      PROVE  /\ idem' = idem /\ mine' = mine
             /\ \A q \in Request : at'[q] \in Made => at'[q] = at[q]
  BY <1>1 DEF CrashRequest, Advance, Made, Typed, TypeOK
<1>2. ASSUME ~ \E r \in Request : \/ Receive(r) \/ CachePending(r) \/ Enqueue(r)
                                  \/ Remember(r) \/ CrashRequest(r)
      PROVE  idem' \subseteq idem /\ UNCHANGED <<at, mine>>
  BY <1>2 DEF Aside, Forget, TaskStep, StartAttempt, RetryOrFail, MarkTimeout, CacheTimeout,
         CrashTask, ExpirePending, HearWebhook, SendConfirm, ConfirmStep, ConfirmReplay,
         ConfirmRefused, ConfirmDecide, CacheDecision, CrashConfirm, HearAnswer, GiveUp,
         Disconnect, vars, request
<1> QED  BY <1>1, <1>2

(* Receive, and the rest of the view after the creation *)
LEMMA AnswerSteps ==
  ASSUME Typed, Orders, Queued, Aside, NEW r \in Request,
         Receive(r) \/ CachePending(r) \/ Enqueue(r) \/ Remember(r)
  PROVE  Orders' /\ Queued'
<1>1. UNCHANGED tx
  BY DEF Receive, CachePending, Enqueue, Remember
<1>2. at \in [Request -> {"idle", "answered", "dead"} \cup Writing \cup Refused]
  BY DEF Typed, TypeOK
<1>3. \A x \in DOMAIN tx : task'[x].stage = "none" => task[x].stage = "none"
  BY TasksGoOn
<1>4. \A q \in Request : at[q] \in Made => mine[q] \in DOMAIN tx
  BY DEF Typed, References
<1>5. \A row \in idem : row.tx \in DOMAIN tx
  BY DEF Typed, References
<1>6. \A q \in Request : at[q] \in {"remember", "answered"} => at[q] \in Made
  BY DEF Made
<1>7. CASE Receive(r)
  <2>1. idem' = idem /\ \A q \in Request : q # r => at'[q] = at[q] /\ mine'[q] = mine[q]
    BY <1>7 DEF Receive, Advance, Typed, TypeOK
  <2>2. \/ at'[r] \in {"mark", "conflict"}
        \/ \E row \in idem : at'[r] = "answered" /\ mine'[r] = row.tx /\ SameOrder(r, row)
    BY <1>2, <1>7 DEF Receive, Advance, Typed, TypeOK
  <2>3. at'[r] \in Made => SameOrder(r, tx[mine'[r]]) /\ task[mine'[r]].stage # "none"
                           /\ mine'[r] \in DOMAIN tx
    BY <1>5, <2>2 DEF Orders, Queued, SameOrder, Made
  <2>4. Orders'
    BY <1>1, <2>1, <2>3 DEF Orders, SameOrder
  <2>5. Queued'
    BY <1>3, <1>4, <1>5, <1>6, <2>1, <2>2, <2>3 DEF Queued, Made
  <2> QED  BY <2>4, <2>5
<1>8. CASE CachePending(r) \/ Enqueue(r)
  <2>1. idem' = idem /\ mine' = mine /\ at[r] \in Made
        /\ \A q \in Request : q # r => at'[q] = at[q]
    BY <1>2, <1>8 DEF CachePending, Enqueue, Advance, Made
  <2>2. Orders'
    BY <1>1, <2>1 DEF Orders, SameOrder
  <2>3. at'[r] = "remember" => task'[mine[r]].stage # "none"
    <3>1. CASE CachePending(r)
      BY <1>2, <3>1 DEF CachePending, Advance
    <3>2. CASE Enqueue(r)
      <4>1. mine[r] \in DOMAIN tx
        BY <1>4, <2>1
      <4>2. task'[mine[r]].stage = "queued"
        BY <3>2, <4>1, TaskMoved DEF Enqueue, Working
      <4> QED  BY <4>2
    <3> QED  BY <1>8, <3>1, <3>2
  <2>4. at'[r] # "answered"
    BY <1>2, <1>8 DEF CachePending, Enqueue, Advance
  <2>5. Queued'
    BY <1>3, <1>4, <1>5, <1>6, <2>1, <2>3, <2>4 DEF Queued
  <2> QED  BY <2>2, <2>5
<1>9. CASE Remember(r)
  <2>1. /\ mine' = mine /\ at[r] = "remember" /\ at'[r] = "answered" /\ task' = task
        /\ \A q \in Request : q # r => at'[q] = at[q]
    BY <1>2, <1>9 DEF Remember, Advance
  <2>2. SameOrder(r, tx[mine[r]]) /\ task[mine[r]].stage # "none"
    BY <2>1 DEF Orders, Queued, Made
  <2>3. \A row \in idem' : row \in idem \/ row = [agent |-> AgentOf[r], key |-> KeyOf[r],
                                                  code |-> CodeOf[r], tx |-> mine[r]]
    BY <1>9 DEF Remember
  <2>4. \A row \in idem' : /\ tx[row.tx].agent = row.agent /\ tx[row.tx].key = row.key
                           /\ task[row.tx].stage # "none"
    BY <2>2, <2>3 DEF Orders, Queued, SameOrder
  <2>5. Orders'
    BY <1>1, <2>1, <2>2, <2>4 DEF Orders, SameOrder
  <2>6. Queued'
    BY <2>1, <2>2, <2>4 DEF Queued
  <2> QED  BY <2>5, <2>6
<1> QED  BY <1>7, <1>8, <1>9

(* tx_unique_agent_idempotency is what keeps one row per order: the kept   *)
(* answers do not, since they are read and written in two steps.           *)
LEMMA OrdersStep == Typed /\ Orders /\ Queued /\ [Next]_vars => Orders' /\ Queued'
<1> SUFFICES ASSUME Typed, Orders, Queued, [Next]_vars PROVE Orders' /\ Queued'
  OBVIOUS
<1>1. at \in [Request -> {"idle", "answered", "dead"} \cup Writing \cup Refused]
  BY DEF Typed, TypeOK
<1>2. \A q \in Request : at[q] \in Made => mine[q] \in DOMAIN tx
  BY DEF Typed, References
<1>3. \A row \in idem : row.tx \in DOMAIN tx
  BY DEF Typed, References
<1>4. ASSUME /\ idem' \subseteq idem
             /\ \A r \in Request : at'[r] \in Made => at'[r] = at[r] /\ mine'[r] = mine[r],
             SameRows,
             \A x \in DOMAIN tx : task'[x].stage = "none" => task[x].stage = "none"
      PROVE  Orders' /\ Queued'
  <2>1. Orders'
    <3>1. \A x, y \in DOMAIN tx' :
             tx'[x].agent = tx'[y].agent /\ tx'[x].key = tx'[y].key => x = y
      BY <1>4 DEF Orders, SameRows
    <3>2. \A row \in idem' : tx'[row.tx].agent = row.agent /\ tx'[row.tx].key = row.key
      BY <1>3, <1>4 DEF Orders, SameRows
    <3>3. \A r \in Request : at'[r] \in Made => SameOrder(r, tx'[mine'[r]])
      <4> SUFFICES ASSUME NEW r \in Request, at'[r] \in Made
                   PROVE  SameOrder(r, tx'[mine'[r]])
        OBVIOUS
      <4>1. mine'[r] = mine[r] /\ mine[r] \in DOMAIN tx /\ SameOrder(r, tx[mine[r]])
        BY <1>2, <1>4 DEF Orders
      <4> QED  BY <1>4, <4>1 DEF SameRows, SameOrder
    <3> QED  BY <3>1, <3>2, <3>3 DEF Orders
  <2>2. Queued'
    BY <1>2, <1>3, <1>4 DEF Queued, Made
  <2> QED  BY <2>1, <2>2
<1>5. ASSUME NEW b \in Bank, NEW number \in Number, GenerateCode(b, number)
      PROVE  Orders' /\ Queued'
  BY <1>4, <1>5 DEF GenerateCode, request, SameRows
<1>6. ASSUME NEW k \in code, ExpireCode(k)
      PROVE  Orders' /\ Queued'
  BY <1>4, <1>6 DEF ExpireCode, request, SameRows
<1>7. ASSUME NEW r \in Request, MarkUsed(r)
      PROVE  Orders' /\ Queued'
  <2>1. \A q \in Request : at'[q] \in Made => at'[q] = at[q]
    BY <1>1, <1>7 DEF MarkUsed, Advance, Made
  <2> QED  BY <1>4, <1>7, <2>1 DEF MarkUsed, SameRows
<1>8. ASSUME NEW r \in Request, CreateTransaction(r)
      PROVE  Orders' /\ Queued'
  <2>1. CASE Taken(r)
    <3>1. \A q \in Request : at'[q] \in Made => at'[q] = at[q]
      BY <1>1, <1>8, <2>1 DEF CreateTransaction, Advance, Made
    <3> QED  BY <1>4, <1>8, <2>1, <3>1 DEF CreateTransaction, SameRows
  <2>2. CASE ~ Taken(r)
    <3> DEFINE n == Len(tx) + 1
    <3>1. /\ DOMAIN tx' = 1 .. n /\ DOMAIN tx = 1 .. Len(tx) /\ Len(tx) \in Nat
          /\ \A x \in DOMAIN tx : tx'[x] = tx[x] /\ task'[x] = task[x]
          /\ tx'[n] = NewRow(r)
          /\ at' = [at EXCEPT ![r] = "cache"] /\ mine' = [mine EXCEPT ![r] = n]
      BY <1>8, <2>2, Created
    <3>2. /\ tx'[n].agent = AgentOf[r] /\ tx'[n].key = KeyOf[r]
          /\ DOMAIN tx' = DOMAIN tx \cup {n}
      BY <3>1 DEF NewRow
    <3>3. /\ at'[r] = "cache" /\ mine'[r] = n /\ idem' = idem
          /\ \A q \in Request : q # r => at'[q] = at[q] /\ mine'[q] = mine[q]
      BY <1>1, <1>8, <3>1 DEF CreateTransaction, Typed, TypeOK
    <3>4. \A x \in DOMAIN tx : /\ tx'[x].agent = tx[x].agent /\ tx'[x].key = tx[x].key
                               /\ task'[x] = task[x] /\ ~ SameOrder(r, tx[x])
      BY <2>2, <3>1 DEF Taken
    <3> HIDE DEF n
    <3>5. Orders'
      <4>1. \A x, y \in DOMAIN tx' :
              tx'[x].agent = tx'[y].agent /\ tx'[x].key = tx'[y].key => x = y
        BY <3>2, <3>4 DEF Orders, SameOrder
      <4>2. \A row \in idem' : tx'[row.tx].agent = row.agent /\ tx'[row.tx].key = row.key
        BY <1>3, <3>3, <3>4 DEF Orders
      <4>3. \A q \in Request : at'[q] \in Made => SameOrder(q, tx'[mine'[q]])
        BY <1>2, <3>2, <3>3, <3>4 DEF Orders, SameOrder
      <4> QED  BY <4>1, <4>2, <4>3 DEF Orders, SameOrder
    <3>6. Queued'
      BY <1>2, <1>3, <3>3, <3>4 DEF Queued, Made
    <3> QED  BY <3>5, <3>6
  <2> QED  BY <2>1, <2>2
<1>9. CASE Aside
  BY <1>4, <1>9, AsideRows, AsideAnswers, TasksGoOn, AnswerSteps
<1> QED  BY <1>5, <1>6, <1>7, <1>8, <1>9, StepKinds

(* No order, no answer. *)
LEMMA OrdersInit == Init => Orders /\ Queued
<1> SUFFICES ASSUME Init PROVE Orders /\ Queued
  OBVIOUS
<1>1. DOMAIN tx = {} /\ idem = {} /\ \A r \in Request : at[r] = "idle"
  BY DEF Init
<1> QED  BY <1>1 DEF Orders, Queued, Made

(* Calls of one order that are answered 202 are answered with one and the  *)
(* same transaction, however the look at the kept answers, the use of the  *)
(* code and the creation interleave, and whenever the answers are dropped. *)
THEOREM OneAnswer == Spec => []SameAnswer
<1>1. Typed /\ Orders => SameAnswer
  BY DEF Typed, References, Orders, SameAnswer, SameOrder, Made
<1> QED  BY TypedInit, TypedStep, OrdersInit, OrdersStep, <1>1, PTL DEF Spec

(* What was answered with 202 had its webhook task queued, even if the     *)
(* answer is a replay for a call whose predecessor died.                   *)
THEOREM AnsweredIsOnItsWay == Spec => []AnsweredIsEnqueued
<1>1. Queued => AnsweredIsEnqueued
  BY DEF Queued, AnsweredIsEnqueued
<1> QED  BY TypedInit, TypedStep, OrdersInit, OrdersStep, <1>1, PTL DEF Spec

-----------------------------------------------------------------------------
(* The bank debits once for each time it was asked *)

(* A confirm is never about another payment, or another decision. *)
SameConfirms ==
  /\ DOMAIN confirm' = DOMAIN confirm
  /\ \A i \in DOMAIN confirm : /\ confirm'[i].tx = confirm[i].tx
                               /\ confirm'[i].decision = confirm[i].decision

(* The database transaction of a confirm, and its death *)
LEMMA ConfirmKept ==
  ASSUME Typed, NEW i \in DOMAIN confirm, ConfirmStep(i) \/ CrashConfirm(i)
  PROVE  SameConfirms
<1>1. CASE ConfirmReplay(i) \/ ConfirmRefused(i) \/ CacheDecision(i)
  <2>1. PICK ok \in BOOLEAN : Reply(i, ok)
    BY <1>1 DEF ConfirmReplay, ConfirmRefused, CacheDecision, Repeats
  <2> QED  BY <2>1, ConfirmReplied DEF SameConfirms
<1>2. CASE ConfirmDecide(i) \/ CrashConfirm(i)
  BY <1>2, ConfirmStaged DEF ConfirmDecide, CrashConfirm, SameConfirms
<1> QED  BY <1>1, <1>2 DEF ConfirmStep

(* Who writes to the calls of /payments/confirm *)
LEMMA ConfirmWriters ==
  ASSUME Typed, Aside
  PROVE  \/ SameConfirms
         \/ \E x \in DOMAIN tx, decision \in {"COMPLETED", "REJECTED"} :
              SendConfirm(x, decision)
<1>1. \/ confirm' = confirm
      \/ \E x \in DOMAIN tx, decision \in {"COMPLETED", "REJECTED"} : SendConfirm(x, decision)
      \/ \E i \in DOMAIN confirm : ConfirmStep(i) \/ CrashConfirm(i)
  BY DEF Aside, Receive, CachePending, Enqueue, Remember, CrashRequest, Forget, TaskStep,
         StartAttempt, RetryOrFail, MarkTimeout, CacheTimeout, CrashTask, ExpirePending,
         HearWebhook, HearAnswer, GiveUp, Disconnect, vars
<1> QED  BY <1>1, ConfirmKept DEF SameConfirms

Prompts(x) == {m \in heard : m[1] = x}

(* The bank may still debit the payment: it lists it, or waits for KLIK's   *)
(* answer about it.                                                        *)
Listed(x) ==
  \/ x \in pending
  \/ LET b == tx[x].bank
     IN  waiting[b] # 0 /\ confirm[waiting[b]].tx = x

Prompted ==
  /\ IsFiniteSet(heard)
  /\ \A x \in DOMAIN tx : charged[x] + (IF Listed(x) THEN 1 ELSE 0) <= Cardinality(Prompts(x))

(* The webhooks of one transaction that were handled can be counted. *)
LEMMA PromptsCounted ==
  ASSUME IsFiniteSet(heard), NEW x
  PROVE  IsFiniteSet(Prompts(x)) /\ Cardinality(Prompts(x)) \in Nat
<1>1. Prompts(x) \subseteq heard
  BY DEF Prompts
<1> QED  BY <1>1, FS_Subset, FS_CardinalityType

(* One more webhook puts the payment on the list, at most. *)
LEMMA PromptHeard ==
  ASSUME Typed, Prompted, NEW x \in DOMAIN tx, NEW attempt \in 0 .. MaxRetries,
         NEW answered \in BOOLEAN, HearWebhook(x, attempt, answered)
  PROVE  Prompted'
<1> DEFINE m == <<x, attempt>>
<1>1. /\ m \notin heard /\ heard' = heard \cup {m} /\ pending' = pending \cup {x}
      /\ UNCHANGED <<tx, charged, waiting, confirm>>
  BY DEF HearWebhook
<1>2. m[1] = x
  OBVIOUS
<1> HIDE DEF m
<1>3. IsFiniteSet(heard')
  BY <1>1, FS_AddElement DEF Prompted
<1>4. Prompts(x)' = Prompts(x) \cup {m} /\ m \notin Prompts(x)
  BY <1>1, <1>2 DEF Prompts
<1>5. Cardinality(Prompts(x)') = Cardinality(Prompts(x)) + 1
  BY <1>4, PromptsCounted, FS_AddElement DEF Prompted
<1>6. \A y \in DOMAIN tx : y # x => Prompts(y)' = Prompts(y)
  BY <1>1, <1>2 DEF Prompts
<1>7. charged \in [DOMAIN tx -> Nat] /\ \A y : Cardinality(Prompts(y)) \in Nat
  BY PromptsCounted DEF Typed, TypeOK, Prompted
<1>8. ASSUME NEW y \in DOMAIN tx
      PROVE  charged[y] + (IF Listed(y)' THEN 1 ELSE 0) <= Cardinality(Prompts(y)')
  <2>1. CASE y = x
    <3>1. charged[x] <= Cardinality(Prompts(x))
      BY <1>7 DEF Prompted
    <3> QED  BY <1>5, <1>7, <2>1, <3>1
  <2>2. CASE y # x
    <3>1. Listed(y)' <=> Listed(y)
      BY <1>1, <2>2 DEF Listed
    <3> QED  BY <1>6, <2>2, <3>1 DEF Prompted
  <2> QED  BY <2>1, <2>2
<1> QED  BY <1>1, <1>3, <1>8 DEF Prompted

(* Nothing else makes a debit possible that was not. *)
LEMMA ListedKept ==
  ASSUME Typed, Aside, NEW x \in DOMAIN tx, Listed(x)',
         \A attempt \in 0 .. MaxRetries, answered \in BOOLEAN : ~ HearWebhook(x, attempt, answered)
  PROVE  Listed(x)
<1> DEFINE b == tx[x].bank
<1>1. tx'[x].bank = b /\ b \in Bank
  BY AsideRows, Tables DEF SameRows, Typed, TxRow
<1>2. x \in pending' => x \in pending
  BY DEF Aside, Receive, CachePending, Enqueue, Remember, CrashRequest, Forget, TaskStep,
         StartAttempt, RetryOrFail, MarkTimeout, CacheTimeout, CrashTask, ExpirePending,
         HearWebhook, SendConfirm, ConfirmStep, ConfirmReplay, ConfirmRefused, ConfirmDecide,
         CacheDecision, CrashConfirm, HearAnswer, StillPending, GiveUp, Disconnect, vars, bank
<1>3. waiting \in [Bank -> 0 .. Len(confirm)] /\ DOMAIN confirm = 1 .. Len(confirm)
      /\ Len(confirm) \in Nat
  BY Tables DEF Typed, TypeOK
<1>4. ASSUME NEW y \in DOMAIN tx, NEW decision \in {"COMPLETED", "REJECTED"},
             SendConfirm(y, decision)
      PROVE  Listed(x)
  <2> DEFINE n == Len(confirm) + 1
  <2>1. /\ confirm'[n].tx = y /\ \A i \in DOMAIN confirm : confirm'[i] = confirm[i]
        /\ y \in pending /\ waiting' = [waiting EXCEPT ![tx[y].bank] = n]
    BY <1>4, Sent DEF SendConfirm
  <2>2. n \in Nat /\ n # 0
    BY <1>3
  <2> HIDE DEF n
  <2>3. CASE b = tx[y].bank
    <3>1. waiting'[b] = n
      BY <1>1, <1>3, <2>1, <2>3
    <3> QED  BY <1>1, <1>2, <2>1, <3>1 DEF Listed
  <2>4. CASE b # tx[y].bank
    <3>1. waiting'[b] = waiting[b] /\ waiting[b] # 0 => waiting[b] \in DOMAIN confirm
      BY <1>1, <1>3, <2>1, <2>4
    <3> QED  BY <1>1, <1>2, <2>1, <3>1 DEF Listed
  <2> QED  BY <2>3, <2>4
<1>5. CASE SameConfirms
  <2>1. waiting'[b] = waiting[b] \/ waiting'[b] = 0 \/
          \E y \in DOMAIN tx, decision \in {"COMPLETED", "REJECTED"} : SendConfirm(y, decision)
    <3>1. \/ waiting' = waiting
          \/ \E d \in Bank : waiting' = [waiting EXCEPT ![d] = 0]
          \/ \E y \in DOMAIN tx, decision \in {"COMPLETED", "REJECTED"} : SendConfirm(y, decision)
      BY DEF Aside, Receive, CachePending, Enqueue, Remember, CrashRequest, Forget, TaskStep,
             StartAttempt, RetryOrFail, MarkTimeout, CacheTimeout, CrashTask, ExpirePending,
             HearWebhook, ConfirmStep, ConfirmReplay, ConfirmRefused, ConfirmDecide,
             CacheDecision, CrashConfirm, HearAnswer, GiveUp, Disconnect, vars, bank
    <3> QED  BY <1>1, <1>3, <3>1
  <2>2. waiting[b] # 0 => waiting[b] \in DOMAIN confirm
    BY <1>1, <1>3
  <2> QED  BY <1>1, <1>2, <1>4, <1>5, <2>1, <2>2 DEF Listed, SameConfirms
<1> QED  BY <1>4, <1>5, ConfirmWriters

(* A debit takes the payment off the list, and the bank waits for no other *)
(* answer about it.                                                        *)
LEMMA PromptSpent ==
  ASSUME Typed, Prompted, NEW b \in Bank, HearAnswer(b)
  PROVE  Prompted'
<1>0. PICK c : c = confirm[waiting[b]]
  OBVIOUS
<1>1. /\ heard' = heard /\ tx' = tx /\ confirm' = confirm /\ pending' = StillPending(c)
      /\ waiting[b] # 0 /\ waiting' = [waiting EXCEPT ![b] = 0]
      /\ IF c.ok /\ c.decision = "COMPLETED"
           THEN charged' = [charged EXCEPT ![c.tx] = @ + 1]
           ELSE charged' = charged
  BY <1>0 DEF HearAnswer, link
<1>2. c.tx \in DOMAIN tx /\ tx[c.tx].bank = b
  BY <1>0, WaitingFor DEF HearAnswer
<1>3. /\ charged \in [DOMAIN tx -> Nat] /\ \A y : Cardinality(Prompts(y)) \in Nat
      /\ waiting \in [Bank -> 0 .. Len(confirm)]
  BY PromptsCounted DEF Typed, TypeOK, Prompted
<1>4. \A y : Prompts(y)' = Prompts(y)
  BY <1>1 DEF Prompts
<1>5. ASSUME NEW y \in DOMAIN tx, Listed(y)'
      PROVE  Listed(y)
  <2>1. tx[y].bank \in Bank
    BY Tables DEF Typed, TxRow
  <2>2. waiting'[tx[y].bank] # 0 => waiting'[tx[y].bank] = waiting[tx[y].bank]
    BY <1>1, <1>3, <2>1
  <2>3. pending' \subseteq pending
    BY <1>1 DEF StillPending
  <2> QED  BY <1>1, <1>5, <2>2, <2>3 DEF Listed
<1>6. Listed(c.tx)
  BY <1>0, <1>1, <1>2 DEF Listed
<1>7. c.ok => ~ Listed(c.tx)'
  <2>1. waiting'[b] = 0
    BY <1>1, <1>3
  <2>2. c.ok => c.tx \notin pending'
    BY <1>1 DEF StillPending
  <2> QED  BY <1>1, <1>2, <2>1, <2>2 DEF Listed
<1>8. ASSUME NEW y \in DOMAIN tx
      PROVE  charged'[y] + (IF Listed(y)' THEN 1 ELSE 0) <= Cardinality(Prompts(y))
  <2>1. charged[y] + (IF Listed(y) THEN 1 ELSE 0) <= Cardinality(Prompts(y))
    BY DEF Prompted
  <2>2. CASE c.ok /\ c.decision = "COMPLETED" /\ y = c.tx
    <3>1. charged'[y] = charged[y] + 1 /\ Listed(y) /\ ~ Listed(y)'
      BY <1>1, <1>2, <1>3, <1>6, <1>7, <2>2
    <3> QED  BY <1>3, <2>1, <3>1
  <2>3. CASE ~ (c.ok /\ c.decision = "COMPLETED" /\ y = c.tx)
    <3>1. charged'[y] = charged[y]
      BY <1>1, <1>2, <1>3, <2>3
    <3>2. Listed(y)' => Listed(y)
      BY <1>5
    <3> QED  BY <1>3, <2>1, <3>1, <3>2
  <2> QED  BY <2>2, <2>3
<1> QED  BY <1>1, <1>4, <1>8 DEF Prompted

(* Nobody else debits, or lists a payment. *)
LEMMA PromptedStep == Typed /\ Prompted /\ [Next]_vars => Prompted'
<1> SUFFICES ASSUME Typed, Prompted, [Next]_vars PROVE Prompted'
  OBVIOUS
<1>1. charged \in [DOMAIN tx -> Nat] /\ \A y : Cardinality(Prompts(y)) \in Nat
  BY PromptsCounted DEF Typed, TypeOK, Prompted
<1>2. ASSUME heard' = heard, charged' = charged, DOMAIN tx' = DOMAIN tx,
             \A x \in DOMAIN tx : Listed(x)' => Listed(x)
      PROVE  Prompted'
  <2>1. \A y : Prompts(y)' = Prompts(y)
    BY <1>2 DEF Prompts
  <2>2. ASSUME NEW x \in DOMAIN tx
        PROVE  charged[x] + (IF Listed(x)' THEN 1 ELSE 0) <= Cardinality(Prompts(x))
    <3>1. charged[x] + (IF Listed(x) THEN 1 ELSE 0) <= Cardinality(Prompts(x))
      BY DEF Prompted
    <3>2. Listed(x)' => Listed(x)
      BY <1>2
    <3> QED  BY <1>1, <3>1, <3>2
  <2> QED  BY <1>2, <2>1, <2>2 DEF Prompted
<1>3. ASSUME NEW r \in Request, CreateTransaction(r)
      PROVE  Prompted'
  <2>1. /\ heard' = heard /\ pending' = pending /\ confirm' = confirm /\ waiting' = waiting
        /\ \A b \in Bank : waiting[b] # 0 => confirm[waiting[b]].tx \in DOMAIN tx
    BY <1>3, WaitingFor DEF CreateTransaction, link
  <2>2. CASE Taken(r)
    BY <1>2, <1>3, <2>1, <2>2 DEF CreateTransaction, Listed
  <2>3. CASE ~ Taken(r)
    <3>0. PICK n : n = Len(tx) + 1
      OBVIOUS
    <3>1. /\ DOMAIN tx' = 1 .. n /\ DOMAIN tx = 1 .. Len(tx) /\ Len(tx) \in Nat
          /\ charged'[n] = 0 /\ tx' \in Seq(TxRow)
          /\ \A x \in DOMAIN tx : charged'[x] = charged[x] /\ tx'[x] = tx[x]
      BY <1>3, <2>3, <3>0, Created
    <3>2. n \notin pending /\ DOMAIN tx' = DOMAIN tx \cup {n} /\ n \notin DOMAIN tx
      <4>1. DOMAIN tx' = DOMAIN tx \cup {n} /\ n \notin DOMAIN tx
        BY <3>0, <3>1
      <4>2. pending \subseteq DOMAIN tx
        BY DEF Typed, TypeOK
      <4> QED  BY <4>1, <4>2
    <3>5. tx'[n].bank \in Bank
      <4>1. tx' \in Seq(TxRow) /\ n \in DOMAIN tx'
        BY <3>1, <3>2
      <4>2. tx'[n] \in TxRow
        BY <4>1, SeqDomain
      <4> QED  BY <4>2 DEF TxRow
    <3>6. ~ Listed(n)' /\ \A x \in DOMAIN tx : Listed(x)' <=> Listed(x)
      BY <2>1, <3>1, <3>2, <3>5 DEF Listed
    <3>3. \A y : Prompts(y)' = Prompts(y)
      BY <2>1 DEF Prompts
    <3>4. charged'[n] + (IF Listed(n)' THEN 1 ELSE 0) <= Cardinality(Prompts(n))
      BY <1>1, <3>1, <3>6
    <3> QED  BY <2>1, <3>1, <3>2, <3>3, <3>4, <3>6 DEF Prompted
  <2> QED  BY <2>2, <2>3
<1>4. CASE Aside
  <2>1. DOMAIN tx' = DOMAIN tx
    BY <1>4, AsideRows DEF SameRows
  <2>2. \/ heard' = heard /\ charged' = charged
        \/ \E x \in DOMAIN tx, attempt \in 0 .. MaxRetries, answered \in BOOLEAN :
             HearWebhook(x, attempt, answered)
        \/ \E b \in Bank : HearAnswer(b)
    BY <1>4 DEF Aside, Receive, CachePending, Enqueue, Remember, CrashRequest, Forget, TaskStep,
         StartAttempt, RetryOrFail, MarkTimeout, CacheTimeout, CrashTask, ExpirePending,
         SendConfirm, ConfirmStep, ConfirmReplay, ConfirmRefused, ConfirmDecide,
         CacheDecision, CrashConfirm, GiveUp, Disconnect, vars, link, bank
  <2> QED  BY <1>2, <1>4, <2>1, <2>2, ListedKept, PromptHeard, PromptSpent
<1>5. CASE \/ \E b \in Bank, number \in Number : GenerateCode(b, number)
           \/ \E k \in code : ExpireCode(k)
           \/ \E r \in Request : MarkUsed(r)
  BY <1>2, <1>5 DEF GenerateCode, ExpireCode, MarkUsed, link, bank, Listed
<1> QED  BY <1>3, <1>4, <1>5, StepKinds

(* The payer is debited, and can be, at most once for each webhook that    *)
(* asked the bank, whatever is lost, repeated or late.                     *)
THEOREM OneDebitPerPrompt == Spec => []DebitedOncePerPrompt
<1>1. Init => Prompted
  <2> SUFFICES ASSUME Init PROVE Prompted
    OBVIOUS
  <2>1. heard = {} /\ DOMAIN tx = {}
    BY DEF Init
  <2> QED  BY <2>1, FS_EmptySet DEF Prompted
<1>2. Typed /\ Prompted => DebitedOncePerPrompt
  <2> SUFFICES ASSUME Typed, Prompted, NEW x \in DOMAIN tx
               PROVE  charged[x] + (IF x \in pending THEN 1 ELSE 0) <= Cardinality(Prompts(x))
    BY DEF DebitedOncePerPrompt, Prompts
  <2>1. /\ charged[x] + (IF Listed(x) THEN 1 ELSE 0) <= Cardinality(Prompts(x))
        /\ charged[x] \in Nat /\ Cardinality(Prompts(x)) \in Nat
        /\ x \in pending => Listed(x)
    BY PromptsCounted DEF Typed, TypeOK, Prompted, Listed
  <2> QED  BY <2>1
<1> QED  BY TypedInit, TypedStep, PromptedStep, <1>1, <1>2, PTL DEF Spec

-----------------------------------------------------------------------------
(***************************************************************************)
(* The decision of a payment, where no bank loses its webhook_url while a  *)
(* payment is on its way: MarkTimeout, which saves what the task read      *)
(* before, then never meets a decision.  (The run payments_final shows     *)
(* what happens otherwise.)                                                *)
(***************************************************************************)

(* Only a bank with a webhook_url is ever asked, or answers. *)
Reach ==
  /\ webhook = Connected
  /\ \A m \in sent : tx[m[1]].bank \in Connected
  /\ \A x \in pending : tx[x].bank \in Connected
  /\ \A i \in DOMAIN confirm : tx[confirm[i].tx].bank \in Connected

(* A task that is about to write TIMEOUT is about a bank without one. *)
Lapses ==
  \A x \in DOMAIN tx :
    /\ task[x].stage = "stale" => tx[x].bank \notin Connected /\ tx[x].status = "PENDING"
    /\ task[x].stage = "lapsed" => tx[x].status = "TIMEOUT"

Standing == Reach /\ Lapses

-----------------------------------------------------------------------------
(* The steps that only read the tables of payments. *)
LEMMA CodeSteps ==
  ASSUME \/ \E b \in Bank, number \in Number : GenerateCode(b, number)
         \/ \E k \in code : ExpireCode(k)
         \/ \E r \in Request : MarkUsed(r) \/ (CreateTransaction(r) /\ Taken(r))
  PROVE  UNCHANGED <<tx, entry, cache, task, webhook, sent, heard, confirm, pending, charged>>
BY DEF GenerateCode, ExpireCode, MarkUsed, CreateTransaction, link, bank

-----------------------------------------------------------------------------
(* What a bank is asked rests on what it was asked before. *)
LEMMA ReachAside ==
  ASSUME MayDisconnect = FALSE, Typed, Reach, Aside
  PROVE  Reach'
<1>1. webhook' = webhook
  BY DEF Aside, Receive, CachePending, Enqueue, Remember, CrashRequest, Forget, TaskStep,
         StartAttempt, RetryOrFail, MarkTimeout, CacheTimeout, CrashTask, ExpirePending,
         HearWebhook, SendConfirm, ConfirmStep, ConfirmReplay, ConfirmRefused, ConfirmDecide,
         CacheDecision, CrashConfirm, HearAnswer, GiveUp, Disconnect, vars, link
<1>2. \/ sent' = sent
      \/ \E x \in DOMAIN tx : tx[x].bank \in webhook /\ sent' = sent \cup {<<x, task[x].tries>>}
  <2>1. sent' = sent \/ \E x \in DOMAIN tx : StartAttempt(x)
    BY DEF Aside, Receive, CachePending, Enqueue, Remember, CrashRequest, Forget, TaskStep,
         RetryOrFail, MarkTimeout, CacheTimeout, CrashTask, ExpirePending,
         HearWebhook, SendConfirm, ConfirmStep, ConfirmReplay, ConfirmRefused, ConfirmDecide,
         CacheDecision, CrashConfirm, HearAnswer, GiveUp, Disconnect, vars, link
  <2> QED  BY <2>1 DEF StartAttempt
<1>3. \/ pending' \subseteq pending
      \/ \E x \in DOMAIN tx, attempt \in 0 .. MaxRetries :
           <<x, attempt>> \in sent /\ pending' = pending \cup {x}
  <2>1. \/ pending' \subseteq pending
        \/ \E x \in DOMAIN tx, attempt \in 0 .. MaxRetries, answered \in BOOLEAN :
             HearWebhook(x, attempt, answered)
    BY DEF Aside, Receive, CachePending, Enqueue, Remember, CrashRequest, Forget, TaskStep,
         StartAttempt, RetryOrFail, MarkTimeout, CacheTimeout, CrashTask, ExpirePending,
         SendConfirm, ConfirmStep, ConfirmReplay, ConfirmRefused, ConfirmDecide,
         CacheDecision, CrashConfirm, HearAnswer, StillPending, GiveUp, Disconnect, vars, bank
  <2> QED  BY <2>1 DEF HearWebhook
<1>4. SameRows
  BY AsideRows
<1>5. pending \subseteq DOMAIN tx /\ sent \subseteq (DOMAIN tx) \X Nat
  BY DEF Typed, TypeOK
<1>6. \A m \in sent' : tx'[m[1]].bank \in Connected
  BY <1>2, <1>4, <1>5 DEF Reach, SameRows
<1>7. \A x \in pending' : tx'[x].bank \in Connected
  <2>1. \A x, attempt : <<x, attempt>> \in sent => tx[x].bank \in Connected
    BY DEF Reach
  <2>2. \A x \in pending' : x \in DOMAIN tx /\ tx[x].bank \in Connected
    BY <1>3, <1>5, <2>1 DEF Reach
  <2> QED  BY <1>4, <2>2 DEF SameRows
<1>8. \A i \in DOMAIN confirm : confirm[i].tx \in DOMAIN tx
  BY DEF Typed, References
<1>9. \A i \in DOMAIN confirm' : tx'[confirm'[i].tx].bank \in Connected
  <2>1. CASE SameConfirms
    BY <1>4, <1>8, <2>1 DEF Reach, SameRows, SameConfirms
  <2>2. ASSUME NEW x \in DOMAIN tx, NEW decision \in {"COMPLETED", "REJECTED"},
               SendConfirm(x, decision)
        PROVE  \A i \in DOMAIN confirm' : tx'[confirm'[i].tx].bank \in Connected
    <3> DEFINE n == Len(confirm) + 1
    <3>1. /\ DOMAIN confirm' = 1 .. n /\ DOMAIN confirm = 1 .. Len(confirm)
          /\ Len(confirm) \in Nat
          /\ \A i \in DOMAIN confirm : confirm'[i] = confirm[i]
          /\ confirm'[n] = [tx |-> x, decision |-> decision, stage |-> "received",
                            ok |-> FALSE]
      BY <2>2, Sent
    <3>2. confirm'[n].tx = x /\ DOMAIN confirm' = DOMAIN confirm \cup {n} /\ x \in pending
      BY <2>2, <3>1 DEF SendConfirm
    <3> HIDE DEF n
    <3> QED  BY <1>4, <1>8, <3>1, <3>2 DEF Reach, SameRows
  <2> QED  BY <2>1, <2>2, ConfirmWriters
<1> QED  BY <1>1, <1>6, <1>7, <1>9 DEF Reach

(* The task saves TIMEOUT over PENDING only, since its bank was not asked. *)
LEMMA LapsesAside ==
  ASSUME Typed, Standing, Aside
  PROVE  Lapses'
<1> SUFFICES ASSUME NEW x \in DOMAIN tx
             PROVE  /\ task'[x].stage = "stale" => tx[x].bank \notin Connected /\ tx'[x].status = "PENDING"
                    /\ task'[x].stage = "lapsed" => tx'[x].status = "TIMEOUT"
  BY AsideRows DEF Lapses, SameRows
<1>1. task \in [DOMAIN tx -> TaskRow]
  BY Tables DEF Typed
<1>2. \/ /\ task'[x].stage \in {"stale", "lapsed"} => task'[x].stage = task[x].stage
         /\ tx'[x] = tx[x]
      \/ /\ task'[x].stage \in {"stale", "lapsed"} => task'[x].stage = task[x].stage
         /\ \E i \in DOMAIN confirm : ConfirmDecide(i)
      \/ StartAttempt(x) \/ MarkTimeout(x)
  <2>1. ASSUME ~ StartAttempt(x), ~ MarkTimeout(x)
        PROVE  task'[x].stage \in {"stale", "lapsed"} => task'[x].stage = task[x].stage
    <3>1. CASE task' = task
      BY <3>1
    <3>2. ASSUME NEW r \in Request, Enqueue(r)
          PROVE  task'[x].stage \in {"stale", "lapsed"} => task'[x].stage = task[x].stage
      BY <1>1, <3>2 DEF Enqueue, TaskRow
    <3>3. ASSUME NEW y \in DOMAIN tx, TaskStep(y) \/ CrashTask(y)
          PROVE  task'[x].stage \in {"stale", "lapsed"} => task'[x].stage = task[x].stage
      <4>1. CASE y # x
        <5>1. task'[x] = task[x]
          BY <1>1, <3>3, <4>1 DEF TaskStep, StartAttempt, RetryOrFail, MarkTimeout,
                                  CacheTimeout, CrashTask
        <5> QED  BY <5>1
      <4>2. CASE y = x
        BY <1>1, <2>1, <3>3, <4>2 DEF TaskStep, RetryOrFail, CacheTimeout, CrashTask, TaskRow
      <4> QED  BY <4>1, <4>2
    <3>4. ASSUME NEW y \in DOMAIN tx, NEW attempt \in 0 .. MaxRetries, NEW answered \in BOOLEAN,
                 HearWebhook(y, attempt, answered)
          PROVE  task'[x].stage \in {"stale", "lapsed"} => task'[x].stage = task[x].stage
      BY <1>1, <3>4 DEF HearWebhook, TaskRow
    <3> QED  BY <3>1, <3>2, <3>3, <3>4, TaskWriters
  <2>2. \/ tx'[x] = tx[x] \/ MarkTimeout(x)
        \/ \E i \in DOMAIN confirm : ConfirmDecide(i)
    <3>1. ASSUME NEW y \in DOMAIN tx, y # x, MarkTimeout(y)
          PROVE  tx'[x] = tx[x]
      BY <3>1 DEF MarkTimeout
    <3> QED  BY <3>1, RowWriters
  <2> QED  BY <2>1, <2>2
<1>3. CASE StartAttempt(x)
  <2>1. tx' = tx /\ task' = [task EXCEPT ![x].stage =
          CASE tx[x].status # "PENDING" -> "skipped"
            [] tx[x].status = "PENDING" /\ tx[x].bank \notin webhook -> "stale"
            [] OTHER -> "waiting"]
    BY <1>3 DEF StartAttempt
  <2>2. task'[x].stage = "stale" => tx[x].bank \notin webhook /\ tx[x].status = "PENDING"
    BY <1>1, <2>1 DEF TaskRow
  <2>3. task'[x].stage # "lapsed"
    BY <1>1, <2>1 DEF TaskRow
  <2> QED  BY <2>1, <2>2, <2>3 DEF Standing, Reach
<1>4. CASE MarkTimeout(x)
  <2>1. task'[x].stage = "lapsed"
    BY <1>4, TaskMoved DEF MarkTimeout, Working
  <2>2. tx'[x].status = "TIMEOUT"
    BY <1>4, StatusWritten DEF MarkTimeout, Decided
  <2> QED  BY <2>1, <2>2
<1>5. ASSUME NEW i \in DOMAIN confirm, ConfirmDecide(i),
             task'[x].stage \in {"stale", "lapsed"} => task'[x].stage = task[x].stage
      PROVE  /\ task'[x].stage = "stale" => tx[x].bank \notin Connected /\ tx'[x].status = "PENDING"
             /\ task'[x].stage = "lapsed" => tx'[x].status = "TIMEOUT"
  <2>1. /\ tx[confirm[i].tx].bank \in Connected /\ tx[confirm[i].tx].status = "PENDING"
        /\ \A y \in DOMAIN tx : y # confirm[i].tx => tx'[y] = tx[y]
    BY <1>5, DecisionWritten DEF Standing, Reach
  <2>2. task[x].stage \in {"stale", "lapsed"} => confirm[i].tx # x
    BY <2>1 DEF Standing, Lapses
  <2>3. confirm[i].tx # x => tx'[x] = tx[x]
    BY <2>1
  <2> QED  BY <1>5, <2>2, <2>3 DEF Standing, Lapses
<1>6. CASE /\ task'[x].stage \in {"stale", "lapsed"} => task'[x].stage = task[x].stage
           /\ tx'[x] = tx[x]
  BY <1>6 DEF Standing, Lapses
<1> QED  BY <1>2, <1>3, <1>4, <1>5, <1>6

(* A new transaction is known to nobody but the request that created it. *)
LEMMA StandingCreated ==
  ASSUME Typed, Standing, NEW r \in Request, CreateTransaction(r), ~ Taken(r)
  PROVE  Standing'
<1> DEFINE n == Len(tx) + 1
<1>1. /\ DOMAIN tx' = 1 .. n /\ DOMAIN tx = 1 .. Len(tx) /\ Len(tx) \in Nat
      /\ \A x \in DOMAIN tx : tx'[x] = tx[x] /\ task'[x] = task[x]
      /\ task'[n] = [stage |-> "none", tries |-> 0]
  BY Created
<1>2. DOMAIN tx' = DOMAIN tx \cup {n} /\ task'[n].stage = "none"
  BY <1>1
<1>3. UNCHANGED <<link, confirm, pending>>
  BY DEF CreateTransaction
<1>4. /\ \A m \in sent : m[1] \in DOMAIN tx
      /\ \A x \in pending : x \in DOMAIN tx
      /\ \A i \in DOMAIN confirm : confirm[i].tx \in DOMAIN tx
  BY DEF Typed, TypeOK, References
<1> HIDE DEF n
<1>5. Reach'
  BY <1>1, <1>3, <1>4 DEF Standing, Reach, link
<1>6. Lapses'
  BY <1>1, <1>2 DEF Standing, Lapses
<1> QED  BY <1>5, <1>6 DEF Standing

(* While no webhook_url is removed, both facts hold on. *)
LEMMA StandingStep == MayDisconnect = FALSE /\ Typed /\ Standing /\ [Next]_vars => Standing'
<1> SUFFICES ASSUME MayDisconnect = FALSE, Typed, Standing, [Next]_vars PROVE Standing'
  OBVIOUS
<1>1. ASSUME UNCHANGED <<tx, entry, cache, task, webhook, sent, heard, confirm, pending, charged>>
      PROVE  Standing'
  BY <1>1 DEF Standing, Reach, Lapses
<1>2. CASE Aside
  BY <1>2, ReachAside, LapsesAside DEF Standing
<1> QED  BY <1>1, <1>2, CodeSteps, StandingCreated, StepKinds

-----------------------------------------------------------------------------
(* A decision is final *)

(* Only a PENDING row is written to. *)
LEMMA DecisionStep == Typed /\ Standing /\ [Next]_vars => DecisionKept
<1> SUFFICES ASSUME Typed, Standing, [Next]_vars, NEW x \in DOMAIN tx, tx[x].status \in Decided
             PROVE  tx'[x].status = tx[x].status
  BY DEF DecisionKept
<1>1. tx[x].status # "PENDING"
  BY DEF Decided
<1>2. ASSUME NEW y \in DOMAIN tx, MarkTimeout(y)
      PROVE  tx'[x].status = tx[x].status
  <2>1. y # x
    BY <1>1, <1>2 DEF MarkTimeout, Standing, Lapses
  <2> QED  BY <1>2, <2>1 DEF MarkTimeout
<1>3. ASSUME NEW i \in DOMAIN confirm, ConfirmDecide(i)
      PROVE  tx'[x].status = tx[x].status
  BY <1>1, <1>3, DecisionWritten
<1>4. CASE Aside
  BY <1>2, <1>3, <1>4, RowWriters
<1>5. ASSUME NEW r \in Request, CreateTransaction(r), ~ Taken(r)
      PROVE  tx'[x].status = tx[x].status
  <2>1. tx'[x] = tx[x]
    BY <1>5, Created
  <2> QED  BY <2>1
<1> QED  BY <1>4, <1>5, CodeSteps, StepKinds

(* Who was told of a decision was told the one in the row: KLIK's answer   *)
(* to a confirm, the debit that follows it, and the status in Redis.       *)
Told ==
  /\ \A i \in DOMAIN confirm : (confirm[i].stage = "caching" \/ confirm[i].ok) =>
       tx[confirm[i].tx].status = confirm[i].decision
  /\ DebitedOnlyIfCompleted
  /\ CacheFollowsRow

(* What a confirm says *)
LEMMA ToldConfirm ==
  ASSUME Typed, Standing, Told, NEW i \in DOMAIN confirm, ConfirmStep(i) \/ CrashConfirm(i)
  PROVE  \A j \in DOMAIN confirm : (confirm'[j].stage = "caching" \/ confirm'[j].ok) =>
           tx'[confirm[j].tx].status = confirm[j].decision
<1> SUFFICES ASSUME NEW j \in DOMAIN confirm, confirm'[j].stage = "caching" \/ confirm'[j].ok
             PROVE  tx'[confirm[j].tx].status = confirm[j].decision
  OBVIOUS
<1>1. /\ confirm[j].tx \in DOMAIN tx /\ confirm[i].tx \in DOMAIN tx
      /\ confirm[j].decision \in Decided /\ confirm[i].decision \in Decided
  BY Tables DEF Typed, References, ConfirmRow, Decided
<1>2. DecisionKept
  BY DecisionStep DEF Next
<1>3. CASE confirm[j].stage = "caching" \/ confirm[j].ok
  BY <1>1, <1>2, <1>3 DEF Told, DecisionKept
<1>4. CASE ~ (confirm[j].stage = "caching" \/ confirm[j].ok)
  <2>1. CASE ConfirmReplay(i)
    <3>1. /\ Reply(i, Repeats(tx[confirm[i].tx].status, confirm[i].decision)) /\ tx' = tx
          /\ Repeats(tx[confirm[i].tx].status, confirm[i].decision) \in BOOLEAN
      BY <2>1 DEF ConfirmReplay, Repeats
    <3>2. /\ j # i => confirm'[j] = confirm[j]
          /\ confirm'[i].stage = "replied"
          /\ confirm'[i].ok = Repeats(tx[confirm[i].tx].status, confirm[i].decision)
      BY <3>1, ConfirmReplied
    <3>3. i = j /\ Repeats(tx[confirm[i].tx].status, confirm[i].decision)
      BY <1>4, <3>2
    <3> QED  BY <3>1, <3>3 DEF Repeats
  <2>2. CASE ConfirmRefused(i)
    <3>1. Reply(i, FALSE)
      BY <2>2 DEF ConfirmRefused
    <3>2. /\ j # i => confirm'[j] = confirm[j]
          /\ confirm'[i].stage = "replied" /\ confirm'[i].ok = FALSE
      BY <3>1, ConfirmReplied
    <3> QED  BY <1>4, <3>2
  <2>3. CASE ConfirmDecide(i)
    <3>1. /\ tx'[confirm[i].tx].status = confirm[i].decision
          /\ confirm' = [confirm EXCEPT ![i].stage = "caching"]
      BY <2>3, DecisionWritten DEF ConfirmDecide
    <3>2. j # i => confirm'[j] = confirm[j]
      BY <3>1, ConfirmStaged
    <3>3. i = j
      BY <1>4, <3>2
    <3> QED  BY <1>1, <3>1, <3>3
  <2>4. CASE CacheDecision(i)
    <3>1. Reply(i, TRUE) /\ confirm[i].stage = "caching"
      BY <2>4 DEF CacheDecision
    <3>2. j # i => confirm'[j] = confirm[j]
      BY <3>1, ConfirmReplied
    <3> QED  BY <1>4, <3>1, <3>2
  <2>5. CASE CrashConfirm(i)
    <3>1. confirm' = [confirm EXCEPT ![i].stage = "dead"]
      BY <2>5 DEF CrashConfirm
    <3>2. /\ j # i => confirm'[j] = confirm[j]
          /\ confirm'[i].stage = "dead" /\ confirm'[i].ok = confirm[i].ok
      BY <3>1, ConfirmStaged
    <3> QED  BY <1>4, <3>2
  <2> QED  BY <2>1, <2>2, <2>3, <2>4, <2>5 DEF ConfirmStep
<1> QED  BY <1>3, <1>4

(* No other step says more than is decided. *)
LEMMA ToldAside ==
  ASSUME Typed, Standing, Told, Aside, [Next]_vars
  PROVE  Told'
<1>1. DecisionKept
  BY DecisionStep
<1>2. DOMAIN tx' = DOMAIN tx
  BY AsideRows DEF SameRows
<1>3. /\ cache \in [DOMAIN tx -> Decided \cup {"PENDING", "none"}]
      /\ charged \in [DOMAIN tx -> Nat] /\ tx \in Seq(TxRow)
  BY DEF Typed, TypeOK
<1>4. \A x \in DOMAIN tx : tx[x].status \in Decided \cup {"PENDING"}
  BY Tables DEF Typed, TxRow
<1> DEFINE Answers ==
      \A i \in DOMAIN confirm' : (confirm'[i].stage = "caching" \/ confirm'[i].ok) =>
        tx'[confirm'[i].tx].status = confirm'[i].decision
<1>5. Answers
  <2>1. CASE confirm' = confirm
    <3>1. \A i \in DOMAIN confirm : confirm[i].tx \in DOMAIN tx /\ confirm[i].decision \in Decided
      BY Tables DEF Typed, References, ConfirmRow, Decided
    <3> QED  BY <1>1, <2>1, <3>1 DEF Told, DecisionKept
  <2>2. ASSUME NEW i \in DOMAIN confirm, ConfirmStep(i) \/ CrashConfirm(i)
        PROVE  Answers
    BY <2>2, ConfirmKept, ToldConfirm DEF SameConfirms
  <2>3. ASSUME NEW x \in DOMAIN tx, NEW decision \in {"COMPLETED", "REJECTED"},
               SendConfirm(x, decision)
        PROVE  Answers
    <3> DEFINE n == Len(confirm) + 1
    <3>1. /\ DOMAIN confirm' = 1 .. n /\ DOMAIN confirm = 1 .. Len(confirm)
          /\ Len(confirm) \in Nat
          /\ \A i \in DOMAIN confirm : confirm'[i] = confirm[i]
          /\ confirm'[n] = [tx |-> x, decision |-> decision, stage |-> "received",
                            ok |-> FALSE]
      BY <2>3, Sent
    <3>2. /\ confirm'[n].stage = "received" /\ ~ confirm'[n].ok /\ tx' = tx
          /\ DOMAIN confirm' = DOMAIN confirm \cup {n}
      BY <2>3, <3>1 DEF SendConfirm
    <3> HIDE DEF n
    <3> QED  BY <3>1, <3>2 DEF Told
  <2>4. \/ confirm' = confirm
        \/ \E x \in DOMAIN tx, decision \in {"COMPLETED", "REJECTED"} : SendConfirm(x, decision)
        \/ \E i \in DOMAIN confirm : ConfirmStep(i) \/ CrashConfirm(i)
    BY DEF Aside, Receive, CachePending, Enqueue, Remember, CrashRequest, Forget, TaskStep,
         StartAttempt, RetryOrFail, MarkTimeout, CacheTimeout, CrashTask, ExpirePending,
         HearWebhook, HearAnswer, GiveUp, Disconnect, vars
  <2> QED  BY <2>1, <2>2, <2>3, <2>4
<1>6. DebitedOnlyIfCompleted'
  <2>1. charged' = charged \/ \E b \in Bank : HearAnswer(b)
    BY DEF Aside, Receive, CachePending, Enqueue, Remember, CrashRequest, Forget, TaskStep,
         StartAttempt, RetryOrFail, MarkTimeout, CacheTimeout, CrashTask, ExpirePending,
         HearWebhook, SendConfirm, ConfirmStep, ConfirmReplay, ConfirmRefused, ConfirmDecide,
         CacheDecision, CrashConfirm, GiveUp, Disconnect, vars, bank
  <2>2. CASE charged' = charged
    BY <1>1, <1>2, <2>2 DEF Told, DebitedOnlyIfCompleted, DecisionKept, Decided
  <2>3. ASSUME NEW b \in Bank, HearAnswer(b)
        PROVE  DebitedOnlyIfCompleted'
    <3> DEFINE c == confirm[waiting[b]]
    <3>1. /\ tx' = tx /\ waiting[b] \in DOMAIN confirm
          /\ IF c.ok /\ c.decision = "COMPLETED"
               THEN charged' = [charged EXCEPT ![c.tx] = @ + 1] ELSE charged' = charged
      BY <2>3, WaitingFor DEF HearAnswer
    <3>2. c.ok /\ c.decision = "COMPLETED" => tx[c.tx].status = "COMPLETED"
      BY <3>1 DEF Told
    <3> HIDE DEF c
    <3> QED  BY <1>3, <3>1, <3>2 DEF Told, DebitedOnlyIfCompleted
  <2> QED  BY <2>1, <2>2, <2>3
<1>7. CacheFollowsRow'
  <2>1. CASE cache' = cache
    BY <1>1, <1>2, <1>4, <2>1 DEF Told, CacheFollowsRow, DecisionKept, Decided
  <2>2. ASSUME NEW x \in DOMAIN tx, NEW status, cache' = [cache EXCEPT ![x] = status],
               status \in {"PENDING", tx[x].status}, tx' = tx
        PROVE  CacheFollowsRow'
    BY <1>3, <2>2 DEF Told, CacheFollowsRow
  <2>3. ASSUME NEW r \in Request, CachePending(r)
        PROVE  CacheFollowsRow'
    BY <2>2, <2>3 DEF CachePending, Typed, References, Made
  <2>4. ASSUME NEW x \in DOMAIN tx, CacheTimeout(x)
        PROVE  CacheFollowsRow'
    BY <2>2, <2>4 DEF CacheTimeout, Standing, Lapses
  <2>5. ASSUME NEW i \in DOMAIN confirm, CacheDecision(i)
        PROVE  CacheFollowsRow'
    BY <2>2, <2>5 DEF CacheDecision, Told, Typed, References
  <2>6. \/ cache' = cache \/ (\E r \in Request : CachePending(r))
        \/ (\E x \in DOMAIN tx : CacheTimeout(x)) \/ \E i \in DOMAIN confirm : CacheDecision(i)
    BY DEF Aside, Receive, Enqueue, Remember, CrashRequest, Forget, TaskStep,
         StartAttempt, RetryOrFail, MarkTimeout, CrashTask, ExpirePending,
         HearWebhook, SendConfirm, ConfirmStep, ConfirmReplay, ConfirmRefused, ConfirmDecide,
         CrashConfirm, HearAnswer, GiveUp, Disconnect, vars
  <2> QED  BY <2>1, <2>3, <2>4, <2>5, <2>6
<1> QED  BY <1>5, <1>6, <1>7 DEF Told

(* ... and a new transaction is undecided. *)
LEMMA ToldStep == Typed /\ Standing /\ Told /\ [Next]_vars => Told'
<1> SUFFICES ASSUME Typed, Standing, Told, [Next]_vars PROVE Told'
  OBVIOUS
<1>1. ASSUME UNCHANGED <<tx, entry, cache, task, webhook, sent, heard, confirm, pending, charged>>
      PROVE  Told'
  BY <1>1 DEF Told, DebitedOnlyIfCompleted, CacheFollowsRow
<1>2. ASSUME NEW r \in Request, CreateTransaction(r), ~ Taken(r)
      PROVE  Told'
  <2> DEFINE n == Len(tx) + 1
  <2>1. /\ DOMAIN tx' = 1 .. n /\ DOMAIN tx = 1 .. Len(tx) /\ Len(tx) \in Nat
        /\ \A x \in DOMAIN tx : tx'[x] = tx[x] /\ cache'[x] = cache[x] /\ charged'[x] = charged[x]
        /\ cache'[n] = "none" /\ charged'[n] = 0
    BY <1>2, Created
  <2>2. DOMAIN tx' = DOMAIN tx \cup {n} /\ ~ (charged'[n] > 0)
    BY <2>1
  <2>3. confirm' = confirm /\ \A i \in DOMAIN confirm : confirm[i].tx \in DOMAIN tx
    BY <1>2 DEF CreateTransaction, Typed, References
  <2> HIDE DEF n
  <2>4. DebitedOnlyIfCompleted'
    BY <2>1, <2>2 DEF Told, DebitedOnlyIfCompleted
  <2>5. CacheFollowsRow'
    BY <2>1, <2>2 DEF Told, CacheFollowsRow
  <2> QED  BY <2>1, <2>3, <2>4, <2>5 DEF Told
<1> QED  BY <1>1, <1>2, ToldAside, CodeSteps, StepKinds

(* Nobody has asked or told anything. *)
LEMMA DecisionInit == Init => Standing /\ Told
<1> SUFFICES ASSUME Init PROVE Standing /\ Told
  OBVIOUS
<1>1. DOMAIN tx = {} /\ DOMAIN confirm = {} /\ sent = {} /\ pending = {} /\ webhook = Connected
  BY DEF Init
<1> QED
  BY <1>1 DEF Standing, Reach, Lapses, Told, DebitedOnlyIfCompleted, CacheFollowsRow

(* Where no webhook_url is removed, a transaction that is COMPLETED,       *)
(* REJECTED or TIMEOUT stays so: the plain read of the task cannot be stale *)
(* when it writes.                                                         *)
THEOREM DecidedOnce ==
  ASSUME MayDisconnect = FALSE
  PROVE  Spec => DecisionIsFinal
<1>1. Typed /\ Standing /\ [Next]_vars => [DecisionKept]_vars
  BY DecisionStep
<1> QED  BY TypedInit, TypedStep, DecisionInit, StandingStep, <1>1, PTL DEF Spec, DecisionIsFinal

(* Under the same condition, the payer is debited only for a transaction   *)
(* that KLIK has COMPLETED, whatever answers are lost, repeated or late.   *)
THEOREM DebitIsCompleted ==
  ASSUME MayDisconnect = FALSE
  PROVE  Spec => []DebitedOnlyIfCompleted
<1>1. Told => DebitedOnlyIfCompleted
  BY DEF Told
<1> QED  BY TypedInit, TypedStep, DecisionInit, StandingStep, ToldStep, <1>1, PTL DEF Spec

(* ... and the status in Redis is the row's, or PENDING, or not there yet. *)
THEOREM CacheIsRow ==
  ASSUME MayDisconnect = FALSE
  PROVE  Spec => []CacheFollowsRow
<1>1. Told => CacheFollowsRow
  BY DEF Told
<1> QED  BY TypedInit, TypedStep, DecisionInit, StandingStep, ToldStep, <1>1, PTL DEF Spec

-----------------------------------------------------------------------------
(* The booking *)

(* The entries are those of what is owed, and nothing is due before the    *)
(* decision.                                                               *)
Books ==
  /\ BookedIfCompleted
  /\ \A x \in DOMAIN tx : tx[x].status = "PENDING" => ~ tx[x].due

(* Only ConfirmDecide books. *)
LEMMA EntryWriters ==
  ASSUME Aside
  PROVE  entry' = entry \/ \E i \in DOMAIN confirm : ConfirmDecide(i)
BY DEF Aside, Receive, CachePending, Enqueue, Remember, CrashRequest, Forget, TaskStep,
       StartAttempt, RetryOrFail, MarkTimeout, CacheTimeout, CrashTask, ExpirePending,
       HearWebhook, SendConfirm, ConfirmStep, ConfirmReplay, ConfirmRefused, CacheDecision,
       CrashConfirm, HearAnswer, GiveUp, Disconnect, vars

(* _process_accepted books what is due, unless it finds entries of the key. *)
LEMMA DecideBooks ==
  ASSUME Typed, Books, NEW i \in DOMAIN confirm, ConfirmDecide(i), NEW x, x = confirm[i].tx
  PROVE  /\ \A row \in entry : row.tx \in DOMAIN tx /\ row.tx # x
         /\ tx'[x].due \in BOOLEAN
         /\ Owed(x)' <=> tx'[x].due
         /\ \/ tx'[x].due /\ entry' = entry \cup {[ref |-> tx[x].key, tx |-> x]}
            \/ (tx'[x].due => \E row \in entry : row.ref = tx[x].key) /\ entry' = entry
<1> DEFINE decision == confirm[i].decision
<1>1. /\ x \in DOMAIN tx /\ tx[x].status = "PENDING" /\ decision \in {"COMPLETED", "REJECTED"}
      /\ tx'[x].status = decision /\ tx'[x].due \in BOOLEAN
      /\ tx'[x].due => decision = "COMPLETED"
      /\ decision = "COMPLETED" => tx'[x].due \/ tx[x].onUs
      /\ Booked(x, tx'[x].due)
      /\ tx'[x].onUs = tx[x].onUs
  BY DecisionWritten
<1> HIDE DEF decision
<1>2. \A row \in entry : row.tx \in DOMAIN tx /\ row.tx # x
  BY <1>1 DEF Typed, TypeOK, Books, BookedIfCompleted, Owed
<1>3. Owed(x)' <=> tx'[x].due
  BY <1>1 DEF Owed
<1>4. \/ tx'[x].due /\ entry' = entry \cup {[ref |-> tx[x].key, tx |-> x]}
      \/ (tx'[x].due => \E row \in entry : row.ref = tx[x].key) /\ entry' = entry
  BY <1>1 DEF Booked
<1> QED  BY <1>1, <1>2, <1>3, <1>4

(* The entries and the status COMPLETED are committed together. *)
LEMMA BooksStep == Typed /\ Standing /\ Books /\ [Next]_vars => Books'
<1> SUFFICES ASSUME Typed, Standing, Books, [Next]_vars PROVE Books'
  OBVIOUS
<1>1. \A row \in entry : row.tx \in DOMAIN tx
  BY DEF Typed, TypeOK
<1>2. CASE tx' = tx /\ entry' = entry
  BY <1>2 DEF Books, BookedIfCompleted, Owed
<1>3. ASSUME NEW x \in DOMAIN tx, MarkTimeout(x)
      PROVE  Books'
  <2>1. /\ entry' = entry /\ tx' = [tx EXCEPT ![x].status = "TIMEOUT"]
        /\ tx[x].status = "PENDING"
    BY <1>3 DEF MarkTimeout, Standing, Lapses
  <2>2. /\ DOMAIN tx' = DOMAIN tx /\ tx'[x].status = "TIMEOUT"
        /\ \A y \in DOMAIN tx : y # x => tx'[y] = tx[y]
        /\ \A y \in DOMAIN tx : tx'[y].key = tx[y].key
    BY <2>1, StatusWritten DEF Decided
  <2>3. /\ ~ Owed(x) /\ ~ Owed(x)' /\ \A y \in DOMAIN tx : y # x => (Owed(y)' <=> Owed(y))
        /\ tx'[x].status # "PENDING"
    BY <2>1, <2>2 DEF Owed
  <2>4. BookedIfCompleted'
    BY <1>1, <2>1, <2>2, <2>3 DEF Books, BookedIfCompleted
  <2> QED  BY <2>2, <2>3, <2>4 DEF Books
<1>4. ASSUME NEW i \in DOMAIN confirm, ConfirmDecide(i)
      PROVE  Books'
  <2>0. PICK x, new : x = confirm[i].tx /\ new = [ref |-> tx[x].key, tx |-> x]
    OBVIOUS
  <2>1. /\ x \in DOMAIN tx /\ DOMAIN tx' = DOMAIN tx
        /\ tx'[x].status # "PENDING"
        /\ \A y \in DOMAIN tx : y # x => tx'[y] = tx[y]
        /\ \A y \in DOMAIN tx : tx'[y].key = tx[y].key
    BY <1>4, <2>0, DecisionWritten
  <2>2. /\ \A row \in entry : row.tx \in DOMAIN tx /\ row.tx # x
        /\ Owed(x)' <=> tx'[x].due
        /\ \/ tx'[x].due /\ entry' = entry \cup {new}
           \/ (tx'[x].due => \E row \in entry : row.ref = tx[x].key) /\ entry' = entry
    BY <1>4, <2>0, DecideBooks
  <2>3. new.ref = tx[x].key /\ new.tx = x
    BY <2>0
  <2>4. \A y \in DOMAIN tx : y # x => (Owed(y)' <=> Owed(y))
    BY <2>1 DEF Owed
  <2>5. \A row \in entry' : Owed(row.tx)' /\ row.ref = tx'[row.tx].key
    <3>1. \A row \in entry : Owed(row.tx)' /\ row.ref = tx'[row.tx].key
      BY <2>1, <2>2, <2>4 DEF Books, BookedIfCompleted
    <3> QED  BY <2>1, <2>2, <2>3, <3>1
  <2>6. \A y \in DOMAIN tx' : Owed(y)' => \E row \in entry' : row.ref = tx'[y].key
    BY <2>1, <2>2, <2>3, <2>4 DEF Books, BookedIfCompleted
  <2>7. BookedIfCompleted'
    BY <2>5, <2>6 DEF BookedIfCompleted
  <2> QED  BY <2>1, <2>7 DEF Books
<1>5. ASSUME NEW r \in Request, CreateTransaction(r), ~ Taken(r)
      PROVE  Books'
  <2>0. PICK n : n = Len(tx) + 1
    OBVIOUS
  <2>1. /\ DOMAIN tx' = 1 .. n /\ DOMAIN tx = 1 .. Len(tx) /\ Len(tx) \in Nat
        /\ \A x \in DOMAIN tx : tx'[x] = tx[x]
        /\ tx'[n] = NewRow(r)
    BY <1>5, <2>0, Created
  <2>2. /\ DOMAIN tx' = DOMAIN tx \cup {n} /\ n \notin DOMAIN tx
        /\ ~ tx'[n].due /\ ~ Owed(n)'
    BY <2>0, <2>1 DEF NewRow, Owed
  <2>3. entry' = entry
    BY <1>5 DEF CreateTransaction
  <2>4. \A x \in DOMAIN tx : Owed(x)' <=> Owed(x)
    BY <2>1 DEF Owed
  <2>5. BookedIfCompleted'
    BY <1>1, <2>1, <2>2, <2>3, <2>4 DEF Books, BookedIfCompleted
  <2> QED  BY <2>1, <2>2, <2>5 DEF Books
<1>6. CASE Aside
  BY <1>2, <1>3, <1>4, <1>6, RowWriters, EntryWriters
<1> QED  BY <1>2, <1>5, <1>6, CodeSteps, StepKinds

(* No transaction, no entry. *)
LEMMA BooksInit == Init => Books
<1> SUFFICES ASSUME Init PROVE Books
  OBVIOUS
<1>1. DOMAIN tx = {} /\ entry = {}
  BY DEF Init
<1> QED  BY <1>1 DEF Books, BookedIfCompleted

(* Where no webhook_url is removed, the ledger has entries of what is owed *)
(* and of nothing else.                                                    *)
THEOREM BookedExactly ==
  ASSUME MayDisconnect = FALSE
  PROVE  Spec => []BookedIfCompleted
<1>1. Books => BookedIfCompleted
  BY DEF Books
<1> QED
  BY TypedInit, TypedStep, DecisionInit, StandingStep, BooksInit, BooksStep, <1>1, PTL DEF Spec

-----------------------------------------------------------------------------
(* Payments implements Payment *)

State == {"pending", "accepted", "rejected", "lapsed"}
View  == [agent : Agent, key : Key, issue : Nat, onUs : BOOLEAN, state : State,
          due : BOOLEAN, booked : BOOLEAN]

ViewOf(x) ==
  [agent |-> tx[x].agent, key |-> tx[x].key, issue |-> tx[x].issue, onUs |-> tx[x].onUs,
   state |-> AbstractState(tx[x].status), due |-> tx[x].due,
   booked |-> \E row \in entry : row.tx = x]

Mapped ==
  /\ AbstractPayments \in Seq(View) /\ Len(AbstractPayments) = Len(tx)
  /\ AbstractPayments \in [DOMAIN tx -> View]
  /\ DOMAIN AbstractPayments = DOMAIN tx
  /\ \A x \in DOMAIN tx : AbstractPayments[x] = ViewOf(x) /\ ViewOf(x) \in View

(* The mapped payments are a sequence, row by row ... *)
LEMMA MappedRows == Typed => Mapped
<1> SUFFICES ASSUME Typed PROVE Mapped
  OBVIOUS
<1>1. /\ Len(tx) \in Nat /\ DOMAIN tx = 1 .. Len(tx)
      /\ \A x \in DOMAIN tx : tx[x] \in TxRow
  BY Tables DEF Typed
<1>2. \A x \in DOMAIN tx : AbstractState(tx[x].status) \in State
  BY <1>1 DEF TxRow, Decided, AbstractState, State
<1>3. \A x \in DOMAIN tx : ViewOf(x) \in View
  BY <1>1, <1>2 DEF ViewOf, View, TxRow
<1>4. AbstractPayments = [x \in 1 .. Len(tx) |-> ViewOf(x)]
  BY <1>1 DEF AbstractPayments, ViewOf
<1>5. AbstractPayments \in [1 .. Len(tx) -> View]
  BY <1>1, <1>3, <1>4
<1>6. /\ AbstractPayments \in Seq(View) /\ Len(AbstractPayments) = Len(tx)
      /\ DOMAIN AbstractPayments = 1 .. Len(tx)
  BY <1>1, <1>5, FunctionIsSeq
<1>7. \A x \in DOMAIN tx : AbstractPayments[x] = ViewOf(x)
  BY <1>1, <1>4
<1> QED  BY <1>1, <1>3, <1>5, <1>6, <1>7 DEF Mapped

(* ... after a step as well as before it. *)
LEMMA MappedNext == Typed' => Mapped'
BY MappedRows, PTL

(* The parts of a mapped payment *)
LEMMA ViewParts ==
  ASSUME NEW x
  PROVE  /\ ViewOf(x).agent = tx[x].agent /\ ViewOf(x).key = tx[x].key
         /\ ViewOf(x).issue = tx[x].issue /\ ViewOf(x).onUs = tx[x].onUs
         /\ ViewOf(x).state = AbstractState(tx[x].status) /\ ViewOf(x).due = tx[x].due
         /\ ViewOf(x).booked = (\E row \in entry : row.tx = x)
BY DEF ViewOf

(* Two mapped payments with the same parts are the same. *)
LEMMA SameView ==
  ASSUME NEW v \in View, NEW w \in View,
         v.agent = w.agent, v.key = w.key, v.issue = w.issue, v.onUs = w.onUs,
         v.state = w.state, v.due = w.due, v.booked = w.booked
  PROVE  v = w
BY DEF View

(* A step that leaves the rows and the entries alone leaves the mapped     *)
(* payments alone.                                                         *)
LEMMA MappedStutter == UNCHANGED <<tx, entry>> => UNCHANGED AbstractPayments
BY DEF AbstractPayments

(* Transaction.objects.create asks for a payment. *)
LEMMA AskRefines ==
  ASSUME Typed, Typed', Issues, Orders, NEW r \in Request, CreateTransaction(r), ~ Taken(r)
  PROVE  Abstract!Next
<1>1. PICK n \in Nat : n = Len(tx) + 1
  BY Tables DEF Typed
<1> DEFINE onUs == issued[held[r]] = MerchantBank[r]
           new == [agent |-> AgentOf[r], key |-> KeyOf[r], issue |-> held[r], onUs |-> onUs,
                   state |-> "pending", due |-> FALSE, booked |-> FALSE]
<1>2. /\ DOMAIN tx' = 1 .. n /\ DOMAIN tx = 1 .. Len(tx) /\ Len(tx) \in Nat /\ Len(tx') = n
      /\ \A x \in DOMAIN tx : tx'[x] = tx[x]
      /\ tx'[n] = NewRow(r)
  BY <1>1, Created
<1>3. entry' = entry /\ \A row \in entry : row.tx \in DOMAIN tx
  BY DEF CreateTransaction, Typed, TypeOK
<1>4. Mapped /\ Mapped'
  BY MappedRows, MappedNext
<1>5. AgentOf[r] \in Agent /\ KeyOf[r] \in Key /\ held[r] \in 1 .. MaxIssues /\ onUs \in BOOLEAN
  <2>1. held[r] \in DOMAIN issued /\ Len(issued) <= MaxIssues
    BY DEF CreateTransaction, Typed, References
  <2> QED  BY <2>1, Tables DEF Typed
<1>6. new \in View
  BY <1>5 DEF View, State
<1>7. ViewOf(n)' = new
  <2>1. /\ tx'[n].agent = AgentOf[r] /\ tx'[n].key = KeyOf[r] /\ tx'[n].issue = held[r]
        /\ tx'[n].onUs = onUs /\ tx'[n].due = FALSE /\ tx'[n].status = "PENDING"
    BY <1>2 DEF NewRow
  <2>2. ~ \E row \in entry' : row.tx = n
    <3>1. n \notin DOMAIN tx
      BY <1>1, <1>2
    <3> QED  BY <1>3, <3>1
  <2> HIDE DEF onUs
  <2> QED  BY <2>1, <2>2 DEF ViewOf, AbstractState
<1>8. \A x \in DOMAIN tx : ViewOf(x)' = ViewOf(x)
  BY <1>2, <1>3 DEF ViewOf
<1>9. \A x \in DOMAIN tx :
        /\ ~ (AbstractPayments[x].agent = AgentOf[r] /\ AbstractPayments[x].key = KeyOf[r])
        /\ AbstractPayments[x].issue # held[r]
  <2> SUFFICES ASSUME NEW x \in DOMAIN tx
               PROVE  /\ ~ (ViewOf(x).agent = AgentOf[r] /\ ViewOf(x).key = KeyOf[r])
                      /\ ViewOf(x).issue # held[r]
    BY <1>4 DEF Mapped
  <2>1. tx[x].issue # held[r]
    BY DEF Issues, CreateTransaction
  <2>2. ~ (tx[x].agent = AgentOf[r] /\ tx[x].key = KeyOf[r])
    BY DEF Taken, SameOrder
  <2> QED  BY <2>1, <2>2, ViewParts
<1>10. AbstractPayments' = Append(AbstractPayments, new)
  <2> DEFINE p == AbstractPayments
             q == AbstractPayments'
  <2>1. /\ p \in Seq(View) /\ DOMAIN p = DOMAIN tx /\ Len(p) = Len(tx)
        /\ q \in Seq(View) /\ DOMAIN q = DOMAIN tx'
        /\ \A x \in DOMAIN tx : p[x] = ViewOf(x)
        /\ \A x \in DOMAIN tx' : q[x] = ViewOf(x)'
    BY <1>4 DEF Mapped
  <2> HIDE DEF p, q, new
  <2>2. /\ Append(p, new) \in Seq(View) /\ DOMAIN Append(p, new) = DOMAIN p \cup {n}
        /\ \A x \in DOMAIN p : Append(p, new)[x] = p[x]
        /\ Append(p, new)[n] = new
    BY <1>1, <1>6, <2>1, AppendRow
  <2>3. DOMAIN q = DOMAIN Append(p, new)
    <3>1. DOMAIN tx' = DOMAIN tx \cup {n}
      BY <1>1, <1>2
    <3> QED  BY <2>1, <2>2, <3>1
  <2>4. \A x \in DOMAIN q : q[x] = Append(p, new)[x]
    BY <1>2, <1>7, <1>8, <2>1, <2>2
  <2>5. q = Append(p, new)
    BY <2>1, <2>2, <2>3, <2>4, SameSeq
  <2> QED  BY <2>5 DEF p, q
<1>11. DOMAIN AbstractPayments = DOMAIN tx
  BY <1>4 DEF Mapped
<1>12. Abstract!Ask(AgentOf[r], KeyOf[r], held[r], onUs)
  BY <1>9, <1>10, <1>11 DEF Abstract!Ask
<1> QED  BY <1>5, <1>12 DEF Abstract!Next

(* A decision, seen from outside. *)
LEMMA ViewsDecided ==
  ASSUME Typed, Typed', NEW x \in DOMAIN tx, DOMAIN tx' = DOMAIN tx,
         ViewOf(x).state = "pending",
         ViewOf(x)'.agent = ViewOf(x).agent, ViewOf(x)'.key = ViewOf(x).key,
         ViewOf(x)'.issue = ViewOf(x).issue, ViewOf(x)'.onUs = ViewOf(x).onUs,
         ViewOf(x)'.state \in {"accepted", "rejected", "lapsed"},
         ViewOf(x)'.due => ViewOf(x)'.state = "accepted",
         ViewOf(x)'.state = "accepted" => ViewOf(x)'.due \/ ViewOf(x).onUs,
         ViewOf(x)'.booked => ViewOf(x)'.due,
         ViewOf(x)'.due =>
           ViewOf(x)'.booked
             \/ \E y \in DOMAIN tx : ViewOf(y).booked /\ ViewOf(y).key = ViewOf(x).key,
         \A y \in DOMAIN tx : y # x => ViewOf(y)' = ViewOf(y)
  PROVE  Abstract!Next
<1> DEFINE p == AbstractPayments
           q == AbstractPayments'
           decision == ViewOf(x)'.state
           due == ViewOf(x)'.due
           booked == ViewOf(x)'.booked
           w == [p[x] EXCEPT !.state = decision, !.due = due, !.booked = booked]
<1>1. /\ p \in [DOMAIN tx -> View] /\ DOMAIN p = DOMAIN tx
      /\ q \in [DOMAIN tx -> View]
      /\ \A y \in DOMAIN tx : p[y] = ViewOf(y) /\ q[y] = ViewOf(y)'
  BY MappedRows, MappedNext DEF Mapped
<1>2. p[x] \in View /\ q[x] \in View /\ q[x] = ViewOf(x)'
  BY <1>1
<1>3. decision \in {"accepted", "rejected", "lapsed"} /\ due \in BOOLEAN /\ booked \in BOOLEAN
  BY <1>2 DEF View
<1>4. /\ w \in View /\ w.agent = p[x].agent /\ w.key = p[x].key /\ w.issue = p[x].issue
      /\ w.onUs = p[x].onUs /\ w.state = decision /\ w.due = due /\ w.booked = booked
  <2> DEFINE v == p[x]
             u == [v EXCEPT !.state = decision, !.due = due, !.booked = booked]
  <2>1. v \in View
    BY <1>2
  <2> HIDE DEF v, decision, due, booked
  <2>2. u \in View
    BY <1>3, <2>1 DEF View, State
  <2>3. /\ u.agent = v.agent /\ u.key = v.key /\ u.issue = v.issue /\ u.onUs = v.onUs
        /\ u.state = decision /\ u.due = due /\ u.booked = booked
    BY <1>3, <2>1 DEF View
  <2> QED  BY <2>2, <2>3 DEF v
<1>5. q[x] = w
  <2>1. /\ q[x].agent = w.agent /\ q[x].key = w.key /\ q[x].issue = w.issue
        /\ q[x].onUs = w.onUs /\ q[x].state = w.state /\ q[x].due = w.due
        /\ q[x].booked = w.booked
    BY <1>1, <1>4
  <2> HIDE DEF p, q, w
  <2> QED  BY <1>2, <1>4, <2>1, SameView
<1>6. \A y \in DOMAIN tx : y # x => q[y] = p[y]
  BY <1>1
<1>7. q = [p EXCEPT ![x] = w]
  <2> HIDE DEF p, q, w
  <2> QED  BY <1>1, <1>4, <1>5, <1>6
<1>8. p[x].state = "pending" /\ (decision = "accepted" => due \/ p[x].onUs)
  BY <1>1
<1>9. due => booked \/ Abstract!BookedUnder(p[x].key)
  BY <1>1 DEF Abstract!BookedUnder
<1>10. Abstract!Decide(x, decision, due, booked) /\ x \in DOMAIN p
  BY <1>1, <1>7, <1>8, <1>9 DEF Abstract!Decide
<1> HIDE DEF p, decision, due, booked
<1> QED  BY <1>3, <1>10 DEF Abstract!Next, p

(* Every step asks for a payment, decides one, or changes nothing that is  *)
(* seen from outside.                                                      *)
LEMMA StepRefines ==
  ASSUME Typed, Typed', Issues, Orders, Standing, Books, [Next]_vars
  PROVE  Abstract!Next \/ UNCHANGED AbstractPayments
<1>1. \A row \in entry : row.tx \in DOMAIN tx
  BY DEF Typed, TypeOK
<1>2. CASE tx' = tx /\ entry' = entry
  BY <1>2, MappedStutter
<1>3. ASSUME NEW x \in DOMAIN tx, MarkTimeout(x)
      PROVE  Abstract!Next
  <2>1. /\ entry' = entry /\ tx' = [tx EXCEPT ![x].status = "TIMEOUT"]
        /\ tx[x].status = "PENDING" /\ ~ tx[x].due
    BY <1>3 DEF MarkTimeout, Standing, Lapses, Books
  <2>2. /\ DOMAIN tx' = DOMAIN tx /\ tx'[x].status = "TIMEOUT" /\ tx'[x].due = tx[x].due
        /\ \A y \in DOMAIN tx : y # x => tx'[y] = tx[y]
        /\ tx'[x].agent = tx[x].agent /\ tx'[x].key = tx[x].key /\ tx'[x].issue = tx[x].issue
        /\ tx'[x].onUs = tx[x].onUs
    BY <2>1, StatusWritten DEF Decided
  <2>3. (\E row \in entry : row.tx = x) = FALSE
    BY <2>1 DEF Books, BookedIfCompleted, Owed
  <2>4. tx[x].due = FALSE
    <3>1. tx[x].due \in BOOLEAN
      BY Tables DEF Typed, TxRow
    <3> QED  BY <2>1, <3>1
  <2>5. ViewOf(x).state = "pending"
    BY <2>1 DEF ViewOf, AbstractState
  <2>6. /\ ViewOf(x)'.agent = ViewOf(x).agent /\ ViewOf(x)'.key = ViewOf(x).key
        /\ ViewOf(x)'.issue = ViewOf(x).issue /\ ViewOf(x)'.onUs = ViewOf(x).onUs
        /\ ViewOf(x)'.state = "lapsed" /\ ViewOf(x)'.due = FALSE /\ ViewOf(x)'.booked = FALSE
    BY <2>1, <2>2, <2>3, <2>4 DEF ViewOf, AbstractState
  <2>7. \A y \in DOMAIN tx : y # x => ViewOf(y)' = ViewOf(y)
    BY <2>1, <2>2 DEF ViewOf
  <2> QED  BY <2>2, <2>5, <2>6, <2>7, ViewsDecided
<1>4. ASSUME NEW i \in DOMAIN confirm, ConfirmDecide(i)
      PROVE  Abstract!Next
  <2>1. PICK x, decision, due, booked, new :
          /\ x = confirm[i].tx /\ decision = confirm[i].decision /\ due = tx'[x].due
          /\ new = [ref |-> tx[x].key, tx |-> x]
          /\ booked = (\E row \in entry' : row.tx = x)
    OBVIOUS
  <2>2. /\ x \in DOMAIN tx /\ decision \in {"COMPLETED", "REJECTED"}
        /\ tx[x].status = "PENDING" /\ DOMAIN tx' = DOMAIN tx /\ tx'[x].status = decision
        /\ due => decision = "COMPLETED"
        /\ decision = "COMPLETED" => due \/ tx[x].onUs
        /\ \A y \in DOMAIN tx : y # x => tx'[y] = tx[y]
        /\ tx'[x].agent = tx[x].agent /\ tx'[x].key = tx[x].key /\ tx'[x].issue = tx[x].issue
        /\ tx'[x].onUs = tx[x].onUs
    BY <1>4, <2>1, DecisionWritten
  <2>3. /\ \A row \in entry : row.tx # x
        /\ due \in BOOLEAN
        /\ \/ due /\ entry' = entry \cup {new}
           \/ (due => \E row \in entry : row.ref = tx[x].key) /\ entry' = entry
    BY <1>4, <2>1, DecideBooks
  <2>4. new.tx = x /\ new.ref = tx[x].key
    BY <2>1
  <2>5. /\ booked \in BOOLEAN /\ booked => due
        /\ due => booked \/ \E row \in entry : row.ref = tx[x].key
    BY <2>1, <2>3, <2>4
  <2>6. \A y \in DOMAIN tx : y # x => ((\E row \in entry' : row.tx = y) = (\E row \in entry : row.tx = y))
    BY <2>3, <2>4
  <2>7. (\E row \in entry : row.ref = tx[x].key)
          <=> \E y \in DOMAIN tx : ViewOf(y).booked /\ ViewOf(y).key = ViewOf(x).key
    <3>1. \A row \in entry : row.ref = tx[row.tx].key
      BY DEF Books, BookedIfCompleted
    <3>2. \A y \in DOMAIN tx : /\ ViewOf(y).booked = (\E row \in entry : row.tx = y)
                               /\ ViewOf(y).key = tx[y].key
      BY ViewParts
    <3>3. \A row \in entry : row.tx \in DOMAIN tx
      BY DEF Books, BookedIfCompleted, Typed, TypeOK
    <3>4. ASSUME NEW row \in entry, row.ref = tx[x].key
          PROVE  \E y \in DOMAIN tx : ViewOf(y).booked /\ ViewOf(y).key = ViewOf(x).key
      <4>1. ViewOf(row.tx).booked = (\E other \in entry : other.tx = row.tx)
        BY <3>2, <3>3
      <4>2. ViewOf(row.tx).key = ViewOf(x).key
        BY <2>2, <3>1, <3>2, <3>3, <3>4
      <4> QED  BY <3>3, <4>1, <4>2
    <3>5. ASSUME NEW y \in DOMAIN tx, ViewOf(y).booked, ViewOf(y).key = ViewOf(x).key
          PROVE  \E row \in entry : row.ref = tx[x].key
      <4>1. PICK row \in entry : row.tx = y
        BY <3>2, <3>5
      <4>2. tx[y].key = tx[x].key
        BY <2>2, <3>2, <3>5
      <4>3. row.ref = tx[y].key
        BY <3>1, <4>1
      <4> QED  BY <4>2, <4>3
    <3> QED  BY <3>4, <3>5
  <2>8. ViewOf(x).state = "pending" /\ ViewOf(x).onUs = tx[x].onUs
    BY <2>2 DEF ViewOf, AbstractState
  <2>9. /\ ViewOf(x)'.agent = ViewOf(x).agent /\ ViewOf(x)'.key = ViewOf(x).key
        /\ ViewOf(x)'.issue = ViewOf(x).issue /\ ViewOf(x)'.onUs = ViewOf(x).onUs
        /\ ViewOf(x)'.state = AbstractState(decision) /\ ViewOf(x)'.due = due
        /\ ViewOf(x)'.booked = booked
    BY <2>1, <2>2 DEF ViewOf
  <2>10. \A y \in DOMAIN tx : y # x => ViewOf(y)' = ViewOf(y)
    BY <2>2, <2>6 DEF ViewOf
  <2>11. /\ AbstractState(decision) \in {"accepted", "rejected", "lapsed"}
         /\ (decision = "COMPLETED") = (AbstractState(decision) = "accepted")
    BY <2>2 DEF AbstractState
  <2>12. due => booked \/ \E y \in DOMAIN tx : ViewOf(y).booked /\ ViewOf(y).key = ViewOf(x).key
    BY <2>5, <2>7
  <2>13. /\ x \in DOMAIN tx /\ DOMAIN tx' = DOMAIN tx /\ ViewOf(x).state = "pending"
         /\ ViewOf(x)'.agent = ViewOf(x).agent /\ ViewOf(x)'.key = ViewOf(x).key
         /\ ViewOf(x)'.issue = ViewOf(x).issue /\ ViewOf(x)'.onUs = ViewOf(x).onUs
         /\ ViewOf(x)'.state \in {"accepted", "rejected", "lapsed"}
    BY <2>2, <2>8, <2>9, <2>11
  <2>14. /\ ViewOf(x)'.due => ViewOf(x)'.state = "accepted"
         /\ ViewOf(x)'.state = "accepted" => ViewOf(x)'.due \/ ViewOf(x).onUs
    BY <2>2, <2>8, <2>9, <2>11
  <2>15. /\ ViewOf(x)'.booked => ViewOf(x)'.due
         /\ ViewOf(x)'.due =>
              ViewOf(x)'.booked
                \/ \E y \in DOMAIN tx : ViewOf(y).booked /\ ViewOf(y).key = ViewOf(x).key
    BY <2>5, <2>9, <2>12
  <2> QED  BY <2>10, <2>13, <2>14, <2>15, ViewsDecided
<1>5. CASE Aside
  BY <1>2, <1>3, <1>4, <1>5, RowWriters, EntryWriters
<1> QED  BY <1>2, <1>5, CodeSteps, AskRefines, StepKinds

(* Payments implements Payment, where no webhook_url is removed: whatever  *)
(* crashes, repeats or overtakes, the outside sees one payment per order   *)
(* and per issue, decided once, and booked in the step that accepts it.    *)
THEOREM Refinement ==
  ASSUME MayDisconnect = FALSE
  PROVE  Spec => ImplementsPayment
<1>1. Init => Abstract!Init
  BY DEF Init, Abstract!Init, AbstractPayments
<1>2. Init => Issues
  BY DEF Init, Issues, CodePaysOnce
<1>3. /\ Typed /\ Typed' /\ Issues /\ Orders /\ Standing /\ Books /\ [Next]_vars
      => [Abstract!Next]_AbstractPayments
  BY StepRefines
<1> QED
  BY TypedInit, TypedStep, <1>2, IssuesStep, OrdersInit, OrdersStep, DecisionInit, StandingStep,
     BooksInit, BooksStep, <1>1, <1>3, PTL DEF Spec, ImplementsPayment, Abstract!Spec
=============================================================================
