------------------------------ MODULE Recurring ------------------------------
(***************************************************************************)
(* A standing order (mandate): backend/recurring (tasks.py, views.py,      *)
(* models.py), and the side of the payer's bank in                         *)
(* src/bank_IO/backend/main.py.                                            *)
(*                                                                         *)
(* The scheduler queues a job for a mandate whose next_run_at has come.    *)
(* The job claims the run in one transaction, which also moves             *)
(* next_run_at to the following slot, looks up the recipient and asks the  *)
(* bank to pay.  A call without an answer is repeated with the same        *)
(* execution, and the last failure or the answer is written in a           *)
(* transaction that reads the mandate again.  Meanwhile the bank's         *)
(* application may pause, resume or cancel; it waits for KLIK without      *)
(* serving anyone else.  Requests and jobs read the clock before they lock *)
(* the mandate.                                                            *)
(*                                                                         *)
(* A task leaves a notice in the queue right after its transaction: a      *)
(* process that dies in between is a notice that is lost.  The job that    *)
(* finds the end date passed leaves it before its transaction commits.     *)
(***************************************************************************)
EXTENDS Schedule

CONSTANTS
  Plans,       \* start, cycle and end of the mandates that are ordered
  Rejections,  \* reasons that other banks reject for, besides those of this one
  Threshold,   \* RECURRING_AUTO_PAUSE_FAILURE_THRESHOLD
  MaxRetries,  \* max_retries of the tasks (3)
  Funds,       \* how many payments the payer can make
  Time,        \* bound: the times that the clock shows, from the Start
  Start,
  MaxCalls,    \* bound: calls of the bank's application
  MaxRuns,     \* bound: runs claimed
  MaxJobs,     \* bound: jobs in the queue and at the workers
  MaxFaults    \* bound: lost calls, answers and jobs, processes that die

NoPlan == [start |-> 0, cycle |-> "none", end |-> 0]

ASSUME RecurringAssumption ==
  /\ {Threshold, MaxRetries, Funds, MaxCalls, MaxRuns, MaxJobs, MaxFaults} \subseteq Nat
  /\ Threshold > 0
  /\ Plans \subseteq [start : Date, cycle : {"DAILY", "WEEKLY", "MONTHLY"}, end : Date]
  /\ \A p \in Plans : p.start < p.end /\ p.start < FirstDay[Months - 1]
  /\ Time \subseteq 0 .. 2 * FirstDay[Months - 1] - 1
  /\ Start \in Time
  /\ Rejections \subseteq {"ACCOUNT_CLOSED", "AML_BLOCK", "OTHER"}

VARIABLES
  now,        \* the clock
  plan,       \* what the mandate orders
  status,     \* PostgreSQL: its status,
  next,       \* next_run_at
  failed,     \* and failed_runs_count
  runs,       \* PostgreSQL: the executions there are,
  exec,       \* and each of them, with where its task is
  jobs,       \* Celery: jobs that are to claim a run
  late,       \* calls of /execute that nobody waits for any more
  note,       \* Celery: notify_recurring_auto_paused and notify_recurring_cancelled
  call,       \* where KLIK is with each call of the bank's application
  waits,      \* the call that the bank's application waits for
  stale,      \* a resume had read the clock before the slot of the last run
  local,      \* the bank: the status of the mandate,
  revoked,    \* revoked_locally,
  ran,        \* executed_runs,
  paid,       \* how often each execution was paid,
  funds,      \* and the payments that the payer still can make
  faults      \* lost calls and dead processes so far

mandate == <<status, next, failed>>
task    == <<runs, exec, jobs>>
api     == <<call, waits, stale>>
account == <<ran, paid, funds>>
vars == <<now, plan, mandate, task, late, note, api, local, revoked, account, faults>>

Run      == 1 .. MaxRuns
Call     == 1 .. MaxCalls
Final    == {"CANCELLED", "COMPLETED"}
Statuses == {"none", "ACTIVE", "PAUSED"} \cup Final
Ops      == {"create", "pause", "resume", "cancel"}
Cancelling == {"MANDATE_REVOKED_LOCALLY", "ACCOUNT_CLOSED"}
Answers  == {"EXECUTED", "INSUFFICIENT_FUNDS", "AML_BLOCK", "OTHER"} \cup Cancelling
Reasons  == Answers \cup {"RECIPIENT_ALIAS_GONE", "NETWORK_TIMEOUT", "none"}

(* slot and result are in PostgreSQL; tries and answer are the task's, and   *)
(* the answer is written as the reason of a failure                          *)
Execution == [slot : Nat, result : {"none", "EXECUTING", "SUCCESS", "FAILED"},
              stage : {"none", "look", "call", "sent", "write", "end", "dead"},
              tries : 0 .. MaxRetries, answer : Reasons]
NoRun     == [slot |-> 0, result |-> "none", stage |-> "none", tries |-> 0,
              answer |-> "none"]

Calls  == [at : {"idle", "lock", "ok", "refused", "done"}, op : Ops \cup {"none"},
           read : Time, reply : Statuses]
NoCall == [at |-> "idle", op |-> "none", read |-> Start, reply |-> "none"]

(* Jobs are alike: those in the queue are counted, and those that ask for    *)
(* the lock, by the time they have read on the clock; one may be about to    *)
(* commit the end of the mandate                                             *)
Jobs  == [free : Nat, queued : Nat, read : [Time -> Nat], ends : BOOLEAN]
NoJobs == [free |-> MaxJobs, queued |-> 0, read |-> [time \in Time |-> 0], ends |-> FALSE]

Note == [news : {"PAUSED"} \cup Final, tries : 0 .. MaxRetries]

TypeOK ==
  /\ now \in Time
  /\ plan \in Plans \cup {NoPlan}
  /\ status \in Statuses /\ next \in Nat /\ failed \in Nat
  /\ status # "none" => plan # NoPlan
  /\ runs \in 0 .. MaxRuns
  /\ exec \in [Run -> Execution]
  /\ jobs \in Jobs
  /\ late \subseteq Run
  /\ note \subseteq Note
  /\ call \in [Call -> Calls]
  /\ waits \subseteq Call
  /\ stale \in BOOLEAN
  /\ local \in Statuses /\ revoked \in BOOLEAN
  /\ ran \in [Run -> Answers \cup {"none"}]
  /\ paid \in [Run -> Nat]
  /\ funds \in Nat
  /\ faults \in 0 .. MaxFaults

Init ==
  /\ now = Start /\ plan = NoPlan
  /\ status = "none" /\ next = 0 /\ failed = 0
  /\ runs = 0 /\ exec = [i \in Run |-> NoRun] /\ jobs = NoJobs
  /\ late = {} /\ note = {}
  /\ call = [k \in Call |-> NoCall] /\ waits = {} /\ stale = FALSE
  /\ local = "none" /\ revoked = FALSE
  /\ ran = [i \in Run |-> "none"] /\ paid = [i \in Run |-> 0] /\ funds = Funds
  /\ faults = 0

Fault == faults < MaxFaults /\ faults' = faults + 1

Tick ==
  /\ now' \in {time \in Time : time > now}
  /\ UNCHANGED <<plan, mandate, task, late, note, api, local, revoked, account, faults>>

(* A mutant: the reason END_DATE_REACHED is not told from the others. *)
OneEnd(news) == [news |-> IF news \in Final THEN "CANCELLED" ELSE news, tries |-> 0]

(* A notice, or a repeated one: two equal ones are one, the second changes  *)
(* nothing at the bank                                                      *)
Announcement(news) == [news |-> news, tries |-> 0]

PastEnd(time) == DateOf(time) > plan.end

(* The job that has found the end holds the lock of the mandate *)
Locked == jobs.ends

-----------------------------------------------------------------------------
(* The bank's application: one call at a time *)

Busy == waits # {}

Receives(k, op) ==
  /\ call[k].at = "idle" /\ ~Busy
  /\ \A j \in 1 .. k - 1 : call[j].at # "idle"
  /\ call' = [call EXCEPT ![k] = [at |-> "lock", op |-> op, read |-> now, reply |-> "none"]]
  /\ waits' = {k}

(* api_create_recurring, and the checks of the dates *)
Order(k) ==
  /\ plan = NoPlan
  /\ \E new \in Plans : new.start >= DateOf(now) /\ plan' = new
  /\ Receives(k, "create")
  /\ UNCHANGED <<now, mandate, task, late, note, stale, local, revoked, account, faults>>

(* _recurring_lifecycle: it does not look at the local status *)
Ask(k, op) ==
  /\ local # "none"
  /\ Receives(k, op)
  /\ UNCHANGED <<now, plan, mandate, task, late, note, stale, local, revoked, account,
                 faults>>

Answered(k) ==
  /\ k \in waits /\ call[k].at \in {"ok", "refused"}
  /\ local' = IF call[k].at = "ok" THEN call[k].reply ELSE local
  /\ revoked' = (revoked /\ ~(call[k].at = "ok" /\ call[k].op = "resume"))
  /\ waits' = {} /\ call' = [call EXCEPT ![k] = [NoCall EXCEPT !.at = "done"]]
  /\ UNCHANGED <<now, plan, mandate, task, late, note, stale, account, faults>>

(* No answer in time: KLIK has done what it was asked, does it later, or     *)
(* never does, because the call or the process that had it is lost           *)
GiveUp(k) ==
  /\ k \in waits /\ Fault
  /\ waits' = {}
  /\ \/ call[k].at = "lock" /\ UNCHANGED call
     \/ call' = [call EXCEPT ![k] = [NoCall EXCEPT !.at = "done"]]
  /\ UNCHANGED <<now, plan, mandate, task, late, note, stale, local, revoked, account>>

(* api_recurring_detail and RecurringDetailView.get, which changes nothing   *)
Refresh ==
  /\ local # "none" /\ ~Busy
  /\ local' = status
  /\ UNCHANGED <<now, plan, mandate, task, late, note, api, revoked, account, faults>>

(* api_recurring_revoke_locally *)
RevokeLocally ==
  /\ local # "none" /\ ~Busy /\ ~revoked
  /\ revoked' = TRUE
  /\ UNCHANGED <<now, plan, mandate, task, late, note, api, local, account, faults>>

-----------------------------------------------------------------------------
(* recurring/views.py *)

(* The answer, to a bank that still waits for it *)
Replies(k, at, reply) ==
  call' = [call EXCEPT ![k] =
             IF k \in waits
               THEN [at |-> at, op |-> call[k].op, read |-> Start, reply |-> reply]
               ELSE [NoCall EXCEPT !.at = "done"]]

AtLock(k, op) == call[k].at = "lock" /\ call[k].op = op

Refuse(k) ==
  /\ ~Locked
  /\ \/ AtLock(k, "pause") /\ status # "ACTIVE"
     \/ AtLock(k, "resume") /\ status # "PAUSED"
     \/ AtLock(k, "cancel") /\ status \in Final
  /\ Replies(k, "refused", "none")
  /\ UNCHANGED <<now, plan, mandate, task, late, note, waits, stale, local, revoked,
                 account, faults>>

(* The recipient's alias must exist; RECIPIENT_ALIAS_NOT_FOUND ends the order *)
Create(k) ==
  /\ AtLock(k, "create")
  /\ \/ /\ status' = "ACTIVE" /\ next' = FirstRunAt(plan) /\ UNCHANGED failed
        /\ Replies(k, "ok", "ACTIVE")
     \/ Replies(k, "refused", "none") /\ UNCHANGED mandate
  /\ UNCHANGED <<now, plan, task, late, note, waits, stale, local, revoked, account,
                 faults>>

Pause(k) ==
  /\ AtLock(k, "pause") /\ status = "ACTIVE" /\ ~Locked
  /\ status' = "PAUSED"
  /\ Replies(k, "ok", "PAUSED")
  /\ UNCHANGED <<now, plan, next, failed, task, late, note, waits, stale, local, revoked,
                 account, faults>>

Resume(k) ==
  /\ AtLock(k, "resume") /\ status = "PAUSED" /\ ~Locked
  /\ status' = "ACTIVE" /\ next' = NextRunAt(plan, call[k].read) /\ failed' = 0
  /\ stale' = (stale \/ (runs > 0 /\ call[k].read < exec[runs].slot))
  /\ Replies(k, "ok", "ACTIVE")
  /\ UNCHANGED <<now, plan, task, late, note, waits, local, revoked, account,
                 faults>>

Cancel(k) ==
  /\ AtLock(k, "cancel") /\ status \notin Final /\ ~Locked
  /\ status' = "CANCELLED"
  /\ note' = note \cup {Announcement("CANCELLED")}
  /\ Replies(k, "ok", "CANCELLED")
  /\ UNCHANGED <<now, plan, next, failed, task, late, waits, stale, local, revoked,
                 account, faults>>

-----------------------------------------------------------------------------
(* dispatch_due_recurring_transfers and _claim_execution *)

(* A mutant: only the slot of this moment is due. *)
DueToday == status = "ACTIVE" /\ next = now

Due == status = "ACTIVE" /\ next <= now

(* A mandate that is locked is skipped *)
Dispatch ==
  /\ Due /\ ~Locked /\ jobs.free > 0
  /\ jobs' = [jobs EXCEPT !.free = @ - 1, !.queued = @ + 1]
  /\ UNCHANGED <<now, plan, mandate, runs, exec, late, note, api, local, revoked, account,
                 faults>>

(* _claim_execution reads the clock before it asks for the lock *)
TakeJob ==
  /\ jobs.queued > 0
  /\ jobs' = [jobs EXCEPT !.queued = @ - 1, !.read[now] = @ + 1]
  /\ UNCHANGED <<now, plan, mandate, runs, exec, late, note, api, local, revoked, account,
                 faults>>

Leaves(time) == jobs' = [jobs EXCEPT !.read[time] = @ - 1, !.free = @ + 1]

(* The broker drops the job, or the worker dies with it *)
LoseJob ==
  /\ Fault
  /\ \/ jobs.queued > 0 /\ jobs' = [jobs EXCEPT !.queued = @ - 1, !.free = @ + 1]
     \/ \E time \in Time : jobs.read[time] > 0 /\ Leaves(time)
  /\ UNCHANGED <<now, plan, mandate, runs, exec, late, note, api, local, revoked, account>>

Locks(time) == jobs.read[time] > 0 /\ ~Locked

(* A mutant: the claim does not look at next_run_at again. *)
Trusting(time) == Locks(time) /\ status = "ACTIVE"

(* The mandate is read again under its lock, the clock is not *)
Claimable(time) == Locks(time) /\ status = "ACTIVE" /\ next <= time

Drop(time) ==
  /\ Locks(time) /\ ~Claimable(time)
  /\ Leaves(time)
  /\ UNCHANGED <<now, plan, mandate, runs, exec, late, note, api, local, revoked, account,
                 faults>>

(* The notice END_DATE_REACHED is queued before the transaction commits, and *)
(* a worker may have it by then                                              *)
FindEnd(time) ==
  /\ Claimable(time) /\ PastEnd(next)
  /\ note' = note \cup {Announcement("COMPLETED")}
  /\ jobs' = [jobs EXCEPT !.read[time] = @ - 1, !.ends = TRUE]
  /\ UNCHANGED <<now, plan, mandate, runs, exec, late, api, local, revoked, account, faults>>

Ended == jobs' = [jobs EXCEPT !.ends = FALSE, !.free = @ + 1]

Complete ==
  /\ jobs.ends
  /\ status' = "COMPLETED"
  /\ Ended
  /\ UNCHANGED <<now, plan, next, failed, runs, exec, late, note, api, local, revoked,
                 account, faults>>

(* The worker dies or the commit fails: the mandate is as it was *)
RollBack ==
  /\ jobs.ends /\ Fault
  /\ Ended
  /\ UNCHANGED <<now, plan, mandate, runs, exec, late, note, api, local, revoked, account>>

Claim(time) ==
  /\ Claimable(time) /\ ~PastEnd(next) /\ runs < MaxRuns
  /\ runs' = runs + 1
  /\ exec' = [exec EXCEPT ![runs + 1] = [slot |-> next, result |-> "EXECUTING",
                                         stage |-> "look", tries |-> 0, answer |-> "none"]]
  /\ next' = NextRunAt(plan, next)
  /\ Leaves(time)
  /\ UNCHANGED <<now, plan, status, failed, late, note, api, local, revoked, account, faults>>

-----------------------------------------------------------------------------
(* execute_recurring_run, after the claim *)

Reaches(i, stage) == exec' = [exec EXCEPT ![i].stage = stage]

(* Only a lookup that finds the alias is charged, and only here *)
LookUp(i) ==
  /\ exec[i].stage = "look"
  /\ \/ Reaches(i, "call")
     \/ exec' = [exec EXCEPT ![i].stage = "write", ![i].answer = "RECIPIENT_ALIAS_GONE"]
  /\ UNCHANGED <<now, plan, mandate, runs, jobs, late, note, api, local, revoked, account,
                 faults>>

(* A bank that has no webhook fails at once *)
CallBank(i) ==
  /\ exec[i].stage = "call"
  /\ \/ Reaches(i, "sent")
     \/ exec' = [exec EXCEPT ![i].stage = "write", ![i].answer = "NETWORK_TIMEOUT"]
  /\ UNCHANGED <<now, plan, mandate, runs, jobs, late, note, api, local, revoked, account,
                 faults>>

(* Its request of Celery is gone, and the execution stays EXECUTING *)
Abandoned(i) ==
  [exec EXCEPT ![i].stage = "dead", ![i].tries = 0, ![i].answer = "none"]

(* Nobody listens, the call is lost, or the answer is too late or unreadable; *)
(* a bank that has not answered once may not answer for longer.  task.retry   *)
(* names mandate_id although the request has it by position, which Celery's   *)
(* check of arguments refuses; the model has the retry that is meant, too     *)
NoAnswer(i) ==
  /\ exec[i].stage = "sent"
  /\ (exec[i].tries > 0 /\ UNCHANGED faults) \/ Fault
  /\ late' \in {late, late \cup {i}}
  /\ \/ /\ exec[i].tries < MaxRetries
        /\ \/ exec' = [exec EXCEPT ![i].stage = "call", ![i].tries = @ + 1]
           \/ exec' = Abandoned(i)
     \/ /\ exec[i].tries = MaxRetries
        /\ exec' = [exec EXCEPT ![i].stage = "write", ![i].answer = "NETWORK_TIMEOUT"]
  /\ UNCHANGED <<now, plan, mandate, runs, jobs, note, api, local, revoked, account>>

CrashRun(i) ==
  /\ exec[i].stage \in {"look", "call", "sent", "write"} /\ Fault
  /\ exec' = Abandoned(i)
  /\ late' \in {late} \cup (IF exec[i].stage = "sent" THEN {late \cup {i}} ELSE {})
  /\ UNCHANGED <<now, plan, mandate, runs, jobs, note, api, local, revoked, account>>

(* A mutant: executed_runs is not kept. *)
Forgets(i) == {}

(* executed_runs: the answer that the execution got before *)
Before(i) == {ran[i]} \ {"none"}

(* A mutant: the balance is not looked at. *)
OnCredit(i) ==
  IF Before(i) # {} THEN Before(i)
  ELSE IF revoked THEN {"MANDATE_REVOKED_LOCALLY"}
  ELSE {"EXECUTED"} \cup Rejections

(* webhook_recurring_execute *)
Decisions(i) ==
  IF Before(i) # {} THEN Before(i)
  ELSE IF revoked THEN {"MANDATE_REVOKED_LOCALLY"}
  ELSE IF funds < 1 THEN {"INSUFFICIENT_FUNDS"}
  ELSE {"EXECUTED"} \cup Rejections

Serves(i, decision) ==
  /\ ran' = [ran EXCEPT ![i] = decision]
  /\ IF decision = "EXECUTED" /\ Before(i) = {}
       THEN paid' = [paid EXCEPT ![i] = @ + 1] /\ funds' = funds - 1
       ELSE UNCHANGED <<paid, funds>>

Serve(i) ==
  /\ exec[i].stage = "sent" /\ ~Busy
  /\ \E decision \in Decisions(i) :
       /\ Serves(i, decision)
       /\ exec' = [exec EXCEPT ![i].stage = "write", ![i].answer = decision]
  /\ UNCHANGED <<now, plan, mandate, runs, jobs, late, note, api, local, revoked, faults>>

ServeLate(i) ==
  /\ i \in late /\ ~Busy
  /\ \E decision \in Decisions(i) : Serves(i, decision)
  /\ late' = late \ {i}
  /\ UNCHANGED <<now, plan, mandate, task, note, api, local, revoked, faults>>

Writes(i, result) ==
  exec' = [exec EXCEPT ![i].stage = "end", ![i].tries = 0, ![i].result = result]

(* _finalize_success *)
Succeed(i) ==
  /\ exec[i].stage = "write" /\ exec[i].answer = "EXECUTED" /\ ~Locked
  /\ Writes(i, "SUCCESS")
  /\ failed' = 0
  /\ IF status = "ACTIVE" /\ PastEnd(next)
       THEN status' = "COMPLETED" /\ note' = note \cup {Announcement("COMPLETED")}
       ELSE UNCHANGED <<status, note>>
  /\ UNCHANGED <<now, plan, next, runs, jobs, late, api, local, revoked, account, faults>>

(* A mutant: the mandate is not read again before it is paused or cancelled. *)
Whatever(answer) ==
  IF answer \in Cancelling THEN "CANCELLED"
  ELSE IF answer = "AML_BLOCK" \/ failed + 1 >= Threshold THEN "PAUSED" ELSE status

(* A mutant: one failure more is needed. *)
Lenient(answer) ==
  IF status # "ACTIVE" THEN status
  ELSE IF answer \in Cancelling THEN "CANCELLED"
  ELSE IF answer = "AML_BLOCK" \/ failed + 1 > Threshold THEN "PAUSED"
  ELSE "ACTIVE"

(* What a failure makes of the mandate *)
After(answer) ==
  IF status # "ACTIVE" THEN status
  ELSE IF answer \in Cancelling THEN "CANCELLED"
  ELSE IF answer = "AML_BLOCK" \/ failed + 1 >= Threshold THEN "PAUSED"
  ELSE "ACTIVE"

(* _finalize_failure *)
Reject(i) ==
  /\ exec[i].stage = "write" /\ exec[i].answer # "EXECUTED" /\ ~Locked
  /\ Writes(i, "FAILED")
  /\ failed' = failed + 1
  /\ status' = After(exec[i].answer)
  /\ note' = IF status' = status THEN note ELSE note \cup {Announcement(status')}
  /\ UNCHANGED <<now, plan, next, runs, jobs, late, api, local, revoked, account, faults>>

-----------------------------------------------------------------------------
(* notify_recurring_auto_paused, notify_recurring_cancelled and their webhooks *)

Again(n) == IF n.tries < MaxRetries THEN {[n EXCEPT !.tries = @ + 1]} ELSE {}

(* The bank hears of the mandate; its answer may be lost, and the call repeated *)
Notify(n) ==
  /\ n \in note /\ ~Busy
  /\ local' = IF local = "none" THEN local ELSE n.news
  /\ \/ note' = note \ {n} /\ UNCHANGED faults
     \/ note' = (note \ {n}) \cup Again(n) /\ Fault
  /\ UNCHANGED <<now, plan, mandate, task, late, api, revoked, account>>

(* The call does not get through, or the worker dies and the task with it *)
NotifyFails(n) ==
  /\ n \in note /\ Fault
  /\ \E left \in {Again(n), {}} : note' = (note \ {n}) \cup left
  /\ UNCHANGED <<now, plan, mandate, task, late, api, local, revoked, account>>

-----------------------------------------------------------------------------
Next ==
  \/ Tick
  \/ \E k \in Call :
       \/ Order(k)
       \/ \E op \in Ops \ {"create"} : Ask(k, op)
       \/ Answered(k) \/ GiveUp(k)
       \/ Refuse(k) \/ Create(k) \/ Pause(k) \/ Resume(k) \/ Cancel(k)
  \/ Refresh \/ RevokeLocally
  \/ Dispatch \/ LoseJob \/ TakeJob \/ Complete \/ RollBack
  \/ \E time \in Time : Drop(time) \/ FindEnd(time) \/ Claim(time)
  \/ \E i \in Run :
       \/ LookUp(i) \/ CallBank(i) \/ NoAnswer(i) \/ CrashRun(i)
       \/ Serve(i) \/ ServeLate(i) \/ Succeed(i) \/ Reject(i)
  \/ \E n \in note : Notify(n) \/ NotifyFails(n)

(* The scheduler ticks, and the workers take its jobs, get the lock and commit *)
Spec ==
  /\ Init /\ [][Next]_vars
  /\ WF_vars(Dispatch) /\ WF_vars(TakeJob) /\ WF_vars(Complete)
  /\ WF_vars(\E time \in Time : Drop(time) \/ FindEnd(time) \/ Claim(time))

-----------------------------------------------------------------------------
(* What has ended stays as it is: whatever runs, retries, answers or calls  *)
(* were on their way when the mandate ended, none of them revives it, and   *)
(* no further run is claimed.                                               *)
EndIsFinal ==
  [][(status \in Final) => (status' = status /\ runs' = runs)]_vars

(* No execution is paid twice, however often the bank is asked or however   *)
(* late a call arrives; what is recorded as SUCCESS was paid, and what is   *)
(* recorded as FAILED was not and never will be, unless the reason is that  *)
(* the bank did not answer.                                                 *)
PaidAsRecorded ==
  \A i \in Run :
    /\ paid[i] <= 1
    /\ exec[i].result = "SUCCESS" => paid[i] = 1
    /\ exec[i].result = "FAILED" /\ exec[i].answer # "NETWORK_TIMEOUT" => paid[i] = 0

(* The mandate is run at most once in a slot of its calendar, in their      *)
(* order, never before it and never after the end, however often it is     *)
(* queued, paused and resumed; unless a resume reads the clock before a     *)
(* slot and gets the lock after the run of that slot.                       *)
OncePerSlot ==
  \A i \in 1 .. runs :
    /\ exec[i].slot <= now /\ ~PastEnd(exec[i].slot)
    /\ exec[i].slot % 2 = 1 /\ RunsOn(plan, DateOf(exec[i].slot))
    /\ ~stale => \A j \in 1 .. i - 1 : exec[j].slot < exec[i].slot

(* A mandate that the bank shows as CANCELLED is CANCELLED at KLIK, although *)
(* notices are late, repeated or out of order.  One that it shows as         *)
(* COMPLETED is COMPLETED, or at least its end date has passed: the job that *)
(* finds the end leaves the notice before it commits, so that the bank may   *)
(* hear it first, or hear what is then rolled back.                          *)
LocalEndIsTrue ==
  /\ local = "CANCELLED" => status = "CANCELLED"
  /\ local = "COMPLETED" => status = "COMPLETED" \/ PastEnd(now)

(* A mandate that is active has failed fewer times in a row than it takes  *)
(* to pause it, also when a late failure of an earlier run is counted while *)
(* it is paused.                                                            *)
ActiveBelowThreshold == status = "ACTIVE" => failed < Threshold

(* No run stays due: the runs of an active mandate are claimed until none   *)
(* is due any more, however often jobs are lost or dropped.                 *)
DueRunsHappen == []<>(status # "ACTIVE" \/ next > now \/ runs = MaxRuns)
=============================================================================
