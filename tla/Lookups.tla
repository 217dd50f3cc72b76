------------------------------- MODULE Lookups -------------------------------
(***************************************************************************)
(* The registry of telephone numbers and the fee for looking one up:       *)
(* backend/aliases, record_p2p_lookup_fees of ledger_service.py with its   *)
(* task, and the application of the bank in src/bank_IO/backend/main.py.   *)
(*                                                                         *)
(* A lookup that finds its number adds one to the counter of the asking    *)
(* bank and of the day in Redis.  Once a day the accrual turns the         *)
(* counters of one day into ledger entries: it reads, inserts and deletes  *)
(* counter by counter, and the inserts count only when all are committed.  *)
(* A retry follows the failure of the run before, so runs do not overlap.  *)
(*                                                                         *)
(* Requests that the checks of format, zone or flags refuse change         *)
(* nothing and are left out.  Lookups are those of the P2P endpoint and    *)
(* those of standing orders, which call the same service.                  *)
(***************************************************************************)
EXTENDS Integers, Sequences, FiniteSetsExt

CONSTANTS
  Bank,        \* banks of the P2P module
  Phone,       \* telephone numbers
  Request,     \* calls of POST /aliases/register and DELETE /aliases/<phone>
  Op,          \* which of the two each is,
  BankOf,      \* the bank that makes it,
  PhoneOf,     \* and for which number
  Fee,         \* p2p_lookup_fee of each bank, in 1/10000 of the currency unit
  MaxDay,      \* bound: days
  MaxLookups,  \* bound: lookups that find a number
  MaxFaults    \* bound: calls given up, processes and runs that die, INCRs lost

ASSUME LookupsAssumption ==
  /\ Op \in [Request -> {"register", "delete"}]
  /\ BankOf \in [Request -> Bank]
  /\ PhoneOf \in [Request -> Phone]
  /\ Fee \in [Bank -> Nat]
  /\ {MaxDay, MaxLookups, MaxFaults} \subseteq Nat /\ MaxDay > 0

VARIABLES
  at,       \* where each request is in AliasService
  alias,    \* PostgreSQL: the registrations whose alias exists
  found,    \* the alias that each deletion is about to delete
  waits,    \* requests that a bank's application waits for,
  lost,     \* those it gave up waiting for,
  listed,   \* and what it has in registered_aliases
  day,      \* the date of the clock
  made,     \* lookups that found a number, by bank and day
  count,    \* Redis: the daily counters
  target,   \* the day that the accrual bills, 0 when it does not run
  todo,     \* the counters it has found and not yet read,
  spent,    \* the one it has read and not yet deleted
  pend,     \* the entries of its transaction
  ledger,   \* PostgreSQL: the committed entries
  faults    \* lost calls and dead processes so far

registry == <<at, alias, found, waits, lost, listed>>
accrual  == <<target, todo, spent, pend, ledger>>
vars == <<registry, day, made, count, accrual, faults>>

Day == 1 .. MaxDay

Entry == [bank : Bank, day : Day, lookups : Nat \ {0}, amount : Nat \ {0}]

TypeOK ==
  /\ at \in [Request -> {"idle", "received", "write", "ok", "refused", "dead"}]
  /\ alias \subseteq Request
  /\ found \in [Request -> SUBSET Request]
  /\ {waits, lost} \subseteq SUBSET Request
  /\ listed \subseteq Bank \X Phone
  /\ day \in Day
  /\ made \in [Bank -> [Day -> Nat]]
  /\ count \in [Bank -> [Day -> Nat]]
  /\ target \in Day \cup {0}
  /\ {todo, spent} \subseteq SUBSET Bank
  /\ pend \in Seq(Entry)
  /\ ledger \in Seq(Entry)
  /\ faults \in 0 .. MaxFaults

Init ==
  /\ at = [r \in Request |-> "idle"] /\ alias = {} /\ found = [r \in Request |-> {}]
  /\ waits = {} /\ lost = {} /\ listed = {}
  /\ day = 1
  /\ made = [b \in Bank |-> [d \in Day |-> 0]]
  /\ count = [b \in Bank |-> [d \in Day |-> 0]]
  /\ target = 0 /\ todo = {} /\ spent = {} /\ pend = <<>> /\ ledger = <<>>
  /\ faults = 0

Fault == faults < MaxFaults /\ faults' = faults + 1

-----------------------------------------------------------------------------
(* The bank's application: one call at a time *)

Busy(b) == \E r \in waits : BankOf[r] = b

Name(r) == <<BankOf[r], PhoneOf[r]>>

(* api_register_alias, or api_delete_alias of a number that is listed *)
Ask(r) ==
  /\ at[r] = "idle" /\ ~Busy(BankOf[r])
  /\ Op[r] = "delete" => Name(r) \in listed
  /\ at' = [at EXCEPT ![r] = "received"]
  /\ waits' = waits \cup {r}
  /\ UNCHANGED <<alias, found, lost, listed, day, made, count, accrual, faults>>

Answered(r) ==
  /\ r \in waits /\ at[r] \in {"ok", "refused"}
  /\ waits' = waits \ {r}
  /\ listed' = IF at[r] = "refused" THEN listed
               ELSE IF Op[r] = "register" THEN listed \cup {Name(r)}
               ELSE listed \ {Name(r)}
  /\ UNCHANGED <<at, alias, found, lost, day, made, count, accrual, faults>>

(* No answer in time, or the connection is closed *)
GiveUp(r) ==
  /\ r \in waits
  /\ (at[r] = "dead" /\ UNCHANGED faults) \/ Fault
  /\ waits' = waits \ {r} /\ lost' = lost \cup {r}
  /\ UNCHANGED <<at, alias, found, listed, day, made, count, accrual>>

-----------------------------------------------------------------------------
(* AliasService.register and AliasService.unregister *)

Rows(p) == {q \in alias : PhoneOf[q] = p}

Reaches(r, stage) == at' = [at EXCEPT ![r] = stage]

(* full_clean looks for the number before the INSERT *)
Validate(r) ==
  /\ at[r] = "received" /\ Op[r] = "register"
  /\ Reaches(r, IF Rows(PhoneOf[r]) = {} THEN "write" ELSE "refused")
  /\ UNCHANGED <<alias, found, waits, lost, listed, day, made, count, accrual, faults>>

(* A mutant: no unique constraint on the number. *)
NoUnique(r) == FALSE

(* alias_phone_unique *)
Duplicate(r) == Rows(PhoneOf[r]) # {}

Insert(r) ==
  /\ at[r] = "write" /\ Op[r] = "register"
  /\ \/ Duplicate(r) /\ Reaches(r, "refused") /\ UNCHANGED alias
     \/ ~Duplicate(r) /\ Reaches(r, "ok") /\ alias' = alias \cup {r}
  /\ UNCHANGED <<found, waits, lost, listed, day, made, count, accrual, faults>>

(* A mutant: the owner is not compared. *)
Anyones(r) == Rows(PhoneOf[r])

(* The alias of the number, when it is the bank's own *)
Own(r) == {q \in Rows(PhoneOf[r]) : BankOf[q] = BankOf[r]}

Find(r) ==
  /\ at[r] = "received" /\ Op[r] = "delete"
  /\ found' = [found EXCEPT ![r] = Own(r)]
  /\ Reaches(r, IF Own(r) = {} THEN "refused" ELSE "write")
  /\ UNCHANGED <<alias, waits, lost, listed, day, made, count, accrual, faults>>

(* A mutant: the number is deleted, whoever has it now. *)
ByNumber(r) == Rows(PhoneOf[r])

(* alias.delete() deletes by primary key *)
ByKey(r) == found[r]

Remove(r) ==
  /\ at[r] = "write" /\ Op[r] = "delete"
  /\ alias' = alias \ ByKey(r)
  /\ Reaches(r, "ok")
  /\ UNCHANGED <<found, waits, lost, listed, day, made, count, accrual, faults>>

Crash(r) ==
  /\ at[r] \in {"received", "write"} /\ Fault
  /\ Reaches(r, "dead")
  /\ UNCHANGED <<alias, found, waits, lost, listed, day, made, count, accrual>>

-----------------------------------------------------------------------------
(* AliasService.lookup_for_bank *)

Midnight ==
  /\ day < MaxDay
  /\ day' = day + 1
  /\ UNCHANGED <<registry, made, count, accrual, faults>>

Plus1(table, b) == [table EXCEPT ![b][day] = @ + 1]

Lookups == MapThenSumSet(LAMBDA b : MapThenSumSet(LAMBDA d : made[b][d], Day), Bank)

(* An error of Redis is logged and the answer given all the same *)
LookUp(b, p) ==
  /\ Rows(p) # {} /\ Lookups < MaxLookups
  /\ made' = Plus1(made, b)
  /\ \/ count' = Plus1(count, b) /\ UNCHANGED faults
     \/ UNCHANGED count /\ Fault
  /\ UNCHANGED <<registry, day, accrual>>

-----------------------------------------------------------------------------
(* accrue_p2p_lookup_fees *)

(* SCAN for the counters of the day: today, or the day it is called with *)
Begin(d) ==
  /\ target = 0 /\ d <= day
  /\ \E b \in Bank : count[b][d] > 0
  /\ target' = d
  /\ todo' = {b \in Bank : count[b][d] > 0}
  /\ UNCHANGED <<registry, day, made, count, spent, pend, ledger, faults>>

(* Decimal.quantize: half to even, to the hundredth *)
Cents(fee) ==
  LET whole == fee \div 100
      rest  == fee % 100
  IN  IF rest > 50 \/ (rest = 50 /\ whole % 2 = 1) THEN whole + 1 ELSE whole

(* A mutant: the entries of the day are not looked for. *)
NeverBilled(b) == FALSE

(* An entry with this source_ref exists *)
Billed(b) == \E i \in DOMAIN ledger : ledger[i].bank = b /\ ledger[i].day = target

(* A mutant: an amount that rounds to nothing is inserted. *)
AnyFee(b) == Fee[b] > 0

Chargeable(b) == Cents(count[b][target] * Fee[b]) > 0

Bill(b) ==
  /\ b \in todo /\ spent = {}
  /\ todo' = todo \ {b} /\ spent' = {b}
  /\ pend' = IF Chargeable(b) /\ ~Billed(b)
               THEN Append(pend, [bank |-> b, day |-> target, lookups |-> count[b][target],
                                  amount |-> Cents(count[b][target] * Fee[b])])
               ELSE pend
  /\ UNCHANGED <<registry, day, made, count, target, ledger, faults>>

(* A mutant: the counter is kept. *)
Kept(b) == count

Emptied(b) == [count EXCEPT ![b][target] = 0]

(* DEL of the counter, whatever it is by now *)
Drop(b) ==
  /\ b \in spent
  /\ count' = Emptied(b)
  /\ spent' = {}
  /\ UNCHANGED <<registry, day, made, target, todo, pend, ledger, faults>>

Commit ==
  /\ target # 0 /\ todo = {} /\ spent = {}
  /\ ledger' = ledger \o pend
  /\ pend' = <<>> /\ target' = 0
  /\ UNCHANGED <<registry, day, made, count, todo, spent, faults>>

(* The inserts are undone, the deletes are not *)
Fail ==
  /\ target # 0 /\ Fault
  /\ pend' = <<>> /\ target' = 0 /\ todo' = {} /\ spent' = {}
  /\ UNCHANGED <<registry, day, made, count, ledger>>

-----------------------------------------------------------------------------
Next ==
  \/ \E r \in Request :
       \/ Ask(r) \/ Answered(r) \/ GiveUp(r)
       \/ Validate(r) \/ Insert(r) \/ Find(r) \/ Remove(r) \/ Crash(r)
  \/ \E b \in Bank, p \in Phone : LookUp(b, p)
  \/ Midnight
  \/ \E d \in Day : Begin(d)
  \/ \E b \in Bank : Bill(b) \/ Drop(b)
  \/ Commit \/ Fail

Spec == Init /\ [][Next]_vars

-----------------------------------------------------------------------------
(* A number that a bank's application lists as registered is, in KLIK, the  *)
(* bank's and nobody else's, whatever other banks do at the same time: a   *)
(* payment to it never goes to another bank.  Only the bank's own deletion, *)
(* which it still waits for or gave up waiting for, comes between.         *)
ListedIsOwned ==
  \A l \in listed :
    \/ {BankOf[q] : q \in Rows(l[2])} = {l[1]}
    \/ \E r \in waits \cup lost : Op[r] = "delete" /\ Name(r) = l

(* A day is billed to a bank once, however the accrual fails, is repeated  *)
(* or meets lookups on its way, and neither what was billed nor what is    *)
(* still counted for a later run exceeds the lookups that the bank made.   *)
NeverOverbilled ==
  \A i \in DOMAIN ledger :
    LET b == ledger[i].bank
        d == ledger[i].day
    IN  /\ \A j \in DOMAIN ledger \ {i} : <<ledger[j].bank, ledger[j].day>> # <<b, d>>
        /\ ledger[i].lookups + count[b][d] <= made[b][d]
=============================================================================
