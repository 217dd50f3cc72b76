---------------------------- MODULE LookupsProofs ----------------------------
(***************************************************************************)
(* Proofs about Lookups, for any banks, numbers, requests, fees and days:  *)
(* two inductive invariants, one for the registry of numbers and one for   *)
(* the counters and their bills, which share no variable but the day.      *)
(***************************************************************************)
EXTENDS Lookups, SeqLemmas

USE LookupsAssumption

-----------------------------------------------------------------------------
(* Types *)

(* A counter is read only while a run bills its day. *)
Billing == target = 0 => todo = {} /\ spent = {} /\ pend = <<>>

Typed == TypeOK /\ Billing

(* The amount of a bill is a whole number, and lookups that cost anything   *)
(* have been made.                                                         *)
LEMMA ChargeIsPositive ==
  ASSUME NEW n \in Nat, NEW fee \in Nat
  PROVE  Cents(n * fee) \in Nat /\ (Cents(n * fee) > 0 => n > 0)
<1> DEFINE whole == n * fee
<1>1. whole \in Nat /\ (n = 0 => whole = 0)
  OBVIOUS
<1> HIDE DEF whole
<1>2. /\ whole \div 100 \in Nat /\ whole % 100 \in Nat
      /\ whole = 0 => whole \div 100 = 0 /\ whole % 100 = 0
  BY <1>1
<1>3. Cents(whole) \in Nat /\ (whole = 0 => Cents(whole) = 0)
  BY <1>1, <1>2 DEF Cents
<1> QED  BY <1>1, <1>3 DEF whole

(* The registry's part of the types does not depend on the bills. *)
LEMMA StepType == Typed /\ [Next]_vars => Typed'
<1> SUFFICES ASSUME Typed, [Next]_vars PROVE Typed'
  OBVIOUS
<1>1. ASSUME NEW r \in Request,
             \/ Ask(r) \/ Answered(r) \/ GiveUp(r) \/ Validate(r) \/ Insert(r) \/ Find(r)
             \/ Remove(r) \/ Crash(r)
      PROVE  Typed'
  <2>1. UNCHANGED <<day, made, count, accrual>>
    BY <1>1 DEF Ask, Answered, GiveUp, Validate, Insert, Find, Remove, Crash
  <2>2. /\ at' \in [Request -> {"idle", "received", "write", "ok", "refused", "dead"}]
        /\ alias' \subseteq Request
        /\ waits' \subseteq Request /\ lost' \subseteq Request
    BY <1>1
    DEF Typed, TypeOK, Ask, Answered, GiveUp, Validate, Insert, Find, Remove, Crash, Reaches,
        ByKey
  <2>5. faults' \in 0 .. MaxFaults
    <3>1. UNCHANGED faults \/ Fault
      BY <1>1 DEF Ask, Answered, GiveUp, Validate, Insert, Find, Remove, Crash
    <3> QED  BY <3>1 DEF Typed, TypeOK, Fault
  <2>3. found' \in [Request -> SUBSET Request]
    <3>1. Own(r) \subseteq Request
      BY DEF Typed, TypeOK, Own, Rows
    <3> QED
      BY <1>1, <3>1
      DEF Typed, TypeOK, Ask, Answered, GiveUp, Validate, Insert, Find, Remove, Crash
  <2>4. listed' \subseteq Bank \X Phone
    <3>1. Name(r) \in Bank \X Phone
      BY DEF Name
    <3> QED
      BY <1>1, <3>1
      DEF Typed, TypeOK, Ask, Answered, GiveUp, Validate, Insert, Find, Remove, Crash
  <2> QED  BY <2>1, <2>2, <2>3, <2>4, <2>5 DEF Typed, TypeOK, Billing, accrual
<1>2. ASSUME NEW b \in Bank, NEW p \in Phone, LookUp(b, p) PROVE Typed'
  <2>1. /\ Plus1(made, b) \in [Bank -> [Day -> Nat]]
        /\ Plus1(count, b) \in [Bank -> [Day -> Nat]]
    BY DEF Typed, TypeOK, Plus1
  <2>2. UNCHANGED faults \/ Fault
    BY <1>2 DEF LookUp
  <2>3. faults' \in 0 .. MaxFaults
    BY <2>2 DEF Typed, TypeOK, Fault
  <2>4. /\ UNCHANGED <<registry, day, accrual>>
        /\ made' \in [Bank -> [Day -> Nat]] /\ count' \in [Bank -> [Day -> Nat]]
    BY <1>2, <2>1 DEF LookUp, Typed, TypeOK
  <2> QED  BY <2>3, <2>4 DEF Typed, TypeOK, Billing, registry, accrual
<1>3. CASE Midnight
  BY <1>3 DEF Typed, TypeOK, Billing, Midnight, Day, registry, accrual
<1>4. ASSUME NEW d \in Day, Begin(d) PROVE Typed'
  BY <1>4 DEF Typed, TypeOK, Billing, Begin, Day, registry
<1>5. ASSUME NEW b \in Bank, Bill(b) PROVE Typed'
  <2>1. target \in Day /\ b \in Bank /\ count[b][target] \in Nat
    BY <1>5 DEF Typed, TypeOK, Billing, Bill
  <2>2. /\ Cents(count[b][target] * Fee[b]) \in Nat
        /\ Chargeable(b) => Cents(count[b][target] * Fee[b]) > 0 /\ count[b][target] > 0
    BY <2>1, ChargeIsPositive DEF Chargeable
  <2>3. pend' \in Seq(Entry)
    <3> DEFINE row == [bank |-> b, day |-> target, lookups |-> count[b][target],
                       amount |-> Cents(count[b][target] * Fee[b])]
    <3>1. Chargeable(b) => row \in Entry
      BY <2>1, <2>2 DEF Entry
    <3>2. pend \in Seq(Entry)
      BY DEF Typed, TypeOK
    <3>3. CASE Chargeable(b) /\ ~Billed(b)
      <4>1. pend' = Append(pend, row)
        BY <1>5, <3>3 DEF Bill
      <4> HIDE DEF row
      <4> QED  BY <3>1, <3>2, <3>3, <4>1, AppendRow
    <3>4. CASE ~(Chargeable(b) /\ ~Billed(b))
      <4>1. pend' = pend
        BY <1>5, <3>4 DEF Bill
      <4> QED  BY <3>2, <4>1
    <3> QED  BY <3>3, <3>4
  <2>4. /\ UNCHANGED <<registry, day, made, count, target, ledger, faults>>
        /\ todo' \subseteq Bank /\ spent' \subseteq Bank
    BY <1>5 DEF Bill, Typed, TypeOK
  <2> QED  BY <2>1, <2>3, <2>4 DEF Typed, TypeOK, Billing, Day, registry
<1>6. ASSUME NEW b \in Bank, Drop(b) PROVE Typed'
  <2>1. target \in Day
    BY <1>6 DEF Typed, TypeOK, Billing, Drop
  <2>2. count' \in [Bank -> [Day -> Nat]]
    BY <1>6, <2>1 DEF Typed, TypeOK, Drop, Emptied
  <2> QED  BY <1>6, <2>1, <2>2 DEF Typed, TypeOK, Billing, Drop, Day, registry
<1>7. CASE Commit
  <2>1. ledger \o pend \in Seq(Entry)
    BY DEF Typed, TypeOK
  <2> QED  BY <1>7, <2>1 DEF Typed, TypeOK, Billing, Commit, registry
<1>8. CASE Fail
  BY <1>8 DEF Typed, TypeOK, Billing, Fail, Fault, registry
<1>9. CASE UNCHANGED vars
  BY <1>9 DEF vars, registry, accrual, Typed, TypeOK, Billing
<1> QED  BY <1>1, <1>2, <1>3, <1>4, <1>5, <1>6, <1>7, <1>8, <1>9 DEF Next

(* Every reachable state is well typed, and every bill is of a lookup that *)
(* was made and of an amount that the ledger accepts.                      *)
THEOREM TypeCorrect == Spec => []TypeOK
<1>1. Init => Typed
  BY DEF Init, Typed, TypeOK, Billing, Day
<1>2. Spec => []Typed
  BY <1>1, StepType, PTL DEF Spec
<1>3. Typed => TypeOK
  BY DEF Typed
<1> QED  BY <1>2, <1>3, PTL

-----------------------------------------------------------------------------
(* The registry *)

(* Owned is how it should be, Deleting what a bank gave up waiting for      *)
Owned(l)    == \E q \in alias : Name(q) = l
Deleting(l) == \E r \in lost : Op[r] = "delete" /\ Name(r) = l

OneAlias == \A q1, q2 \in alias : PhoneOf[q1] = PhoneOf[q2] => q1 = q2
OneCall  == \A q1, q2 \in waits : BankOf[q1] = BankOf[q2] => q1 = q2
Known    == \A r \in Request : at[r] \in {"received", "write"} => r \in waits \cup lost

(* A deletion is about an alias of its own bank and number *)
FoundOwn ==
  \A r \in Request :
    at[r] = "write" /\ Op[r] = "delete" => \A q \in found[r] : Name(q) = Name(r)

(* What the application is told, or may be told, is still so *)
Registered ==
  \A r \in waits :
    Op[r] = "register" /\ at[r] = "ok" => Owned(Name(r)) \/ Deleting(Name(r))
Refusable ==
  \A r \in waits :
    Op[r] = "delete" /\ at[r] \in {"received", "refused"} =>
      (at[r] = "received" /\ Owned(Name(r))) \/ Deleting(Name(r))
Listed ==
  \A l \in listed :
    Owned(l) \/ \E r \in waits \cup lost : Op[r] = "delete" /\ Name(r) = l

Registry == OneAlias /\ OneCall /\ Known /\ FoundOwn /\ Registered /\ Refusable /\ Listed

(* Owned and Deleting survive every step that removes no alias *)
LEMMA Stand ==
  ASSUME alias \subseteq alias', lost \subseteq lost', NEW l
  PROVE  (Owned(l) => Owned(l)') /\ (Deleting(l) => Deleting(l)')
BY DEF Owned, Deleting, Name

(* The application asks: nothing else of its bank waits. *)
LEMMA AskStep ==
  ASSUME Typed, Registry, NEW r \in Request, Ask(r)
  PROVE  Registry'
<1>1. /\ at' = [at EXCEPT ![r] = "received"] /\ waits' = waits \cup {r}
      /\ UNCHANGED <<alias, found, lost, listed>>
      /\ at[r] = "idle" /\ ~Busy(BankOf[r]) /\ (Op[r] = "delete" => Name(r) \in listed)
  BY DEF Ask
<1>2. \A q \in Request : at'[q] = IF q = r THEN "received" ELSE at[q]
  BY <1>1 DEF Typed, TypeOK
<1>3. \A l : (Owned(l) => Owned(l)') /\ (Deleting(l) => Deleting(l)')
  BY <1>1, Stand
<1>4. OneAlias' /\ Known' /\ FoundOwn'
  BY <1>1, <1>2 DEF Registry, OneAlias, Known, FoundOwn, Name
<1>5. OneCall'
  BY <1>1 DEF Registry, OneCall, Busy
<1>6. Registered'
  BY <1>1, <1>2, <1>3 DEF Registry, Registered, Name, Typed, TypeOK
<1>7. Refusable'
  <2>1. ASSUME Op[r] = "delete" PROVE Owned(Name(r)) \/ Deleting(Name(r))
    <3>1. Name(r) \in listed
      BY <1>1, <2>1
    <3>2. CASE ~Owned(Name(r))
      <4>1. PICK q \in waits \cup lost : Op[q] = "delete" /\ Name(q) = Name(r)
        BY <3>1, <3>2 DEF Registry, Listed
      <4>2. q \notin waits
        BY <1>1, <4>1 DEF Busy, Name
      <4> QED  BY <4>1, <4>2 DEF Deleting
    <3> QED  BY <3>2
  <2> QED  BY <1>1, <1>2, <1>3, <2>1 DEF Registry, Refusable, Name, Typed, TypeOK
<1>8. Listed'
  BY <1>1, <1>3 DEF Registry, Listed, Name
<1> QED  BY <1>4, <1>5, <1>6, <1>7, <1>8 DEF Registry

(* The application hears the answer and keeps its list. *)
LEMMA AnsweredStep ==
  ASSUME Typed, Registry, NEW r \in Request, Answered(r)
  PROVE  Registry'
<1>1. /\ r \in waits /\ at[r] \in {"ok", "refused"} /\ waits' = waits \ {r}
      /\ UNCHANGED <<at, alias, found, lost>>
      /\ listed' = IF at[r] = "refused" THEN listed
                   ELSE IF Op[r] = "register" THEN listed \cup {Name(r)}
                   ELSE listed \ {Name(r)}
  BY DEF Answered
<1>2. \A l : (Owned(l) => Owned(l)') /\ (Deleting(l) => Deleting(l)')
  BY <1>1, Stand
<1>3. OneAlias' /\ OneCall' /\ Known' /\ FoundOwn'
  BY <1>1 DEF Registry, OneAlias, OneCall, Known, FoundOwn, Name
<1>4. Registered' /\ Refusable'
  BY <1>1, <1>2 DEF Registry, Registered, Refusable, Name
<1>5. Listed'
  <2> SUFFICES ASSUME NEW l \in listed'
               PROVE  Owned(l)' \/ \E q \in (waits \cup lost)' : Op[q] = "delete" /\ Name(q) = l
    BY DEF Listed, Name
  <2>1. CASE l = Name(r)
    <3>1. Owned(l) \/ Deleting(l)
      <4>1. CASE at[r] = "ok"
        <5>1. Op[r] = "register"
          BY <1>1, <2>1, <4>1 DEF Typed, TypeOK
        <5> QED  BY <1>1, <2>1, <4>1, <5>1 DEF Registry, Registered
      <4>2. CASE at[r] = "refused"
        <5>1. l \in listed
          BY <1>1, <4>2
        <5>2. CASE Op[r] = "delete"
          BY <1>1, <2>1, <4>2, <5>2 DEF Registry, Refusable
        <5>3. CASE Op[r] # "delete"
          <6>1. \A q \in waits : BankOf[q] = BankOf[r] => q = r
            BY <1>1 DEF Registry, OneCall
          <6>2. Owned(l) \/ \E q \in waits \cup lost : Op[q] = "delete" /\ Name(q) = l
            BY <5>1 DEF Registry, Listed
          <6>3. \A q \in waits : Name(q) = l => q = r
            BY <2>1, <6>1 DEF Name
          <6> QED  BY <5>3, <6>2, <6>3 DEF Deleting
        <5> QED  BY <5>2, <5>3
      <4> QED  BY <1>1, <4>1, <4>2
    <3> QED  BY <1>1, <1>2, <3>1 DEF Deleting
  <2>2. CASE l # Name(r)
    <3>1. l \in listed
      BY <1>1, <2>2
    <3>2. Owned(l) \/ \E q \in waits \cup lost : Op[q] = "delete" /\ Name(q) = l
      BY <3>1 DEF Registry, Listed
    <3> QED  BY <1>1, <1>2, <2>2, <3>2
  <2> QED  BY <2>1, <2>2
<1> QED  BY <1>3, <1>4, <1>5 DEF Registry

(* The application gives up, and its call may still be carried out. *)
LEMMA GiveUpStep ==
  ASSUME Typed, Registry, NEW r \in Request, GiveUp(r)
  PROVE  Registry'
<1>1. /\ waits' = waits \ {r} /\ lost' = lost \cup {r}
      /\ UNCHANGED <<at, alias, found, listed>>
  BY DEF GiveUp
<1>2. \A l : (Owned(l) => Owned(l)') /\ (Deleting(l) => Deleting(l)')
  BY <1>1, Stand
<1>3. OneAlias' /\ OneCall' /\ Known' /\ FoundOwn'
  BY <1>1 DEF Registry, OneAlias, OneCall, Known, FoundOwn, Name
<1>4. Registered' /\ Refusable'
  BY <1>1, <1>2 DEF Registry, Registered, Refusable, Name
<1>5. Listed'
  BY <1>1, <1>2 DEF Registry, Listed, Name
<1> QED  BY <1>3, <1>4, <1>5 DEF Registry

(* A request that only moves on: no alias appears or goes, and it is not    *)
(* told anything yet, or that it failed.                                   *)
LEMMA MoveStep ==
  ASSUME Typed, Registry, NEW r \in Request, NEW stage,
         at' = [at EXCEPT ![r] = stage], at[r] \in {"received", "write"},
         UNCHANGED <<alias, waits, lost, listed>>,
         FoundOwn', stage # "received",
         stage = "ok" => Op[r] # "register",
         stage = "refused" /\ Op[r] = "delete" => ~Owned(Name(r)) /\ at[r] = "received"
  PROVE  Registry'
<1>1. \A q \in Request : at'[q] = IF q = r THEN stage ELSE at[q]
  BY DEF Typed, TypeOK
<1>2. \A l : (Owned(l) <=> Owned(l)') /\ (Deleting(l) <=> Deleting(l)')
  BY DEF Owned, Deleting, Name
<1>3. OneAlias' /\ OneCall' /\ Known'
  BY <1>1 DEF Registry, OneAlias, OneCall, Known
<1>4. Registered'
  BY <1>1, <1>2 DEF Registry, Registered, Name, Typed, TypeOK
<1>5. Refusable'
  BY <1>1, <1>2 DEF Registry, Refusable, Name, Typed, TypeOK
<1>6. Listed'
  BY <1>2 DEF Registry, Listed, Name
<1> QED  BY <1>3, <1>4, <1>5, <1>6 DEF Registry

(* alias_phone_unique lets one of two registrations pass. *)
LEMMA InsertStep ==
  ASSUME Typed, Registry, NEW r \in Request, Insert(r), alias' = alias \cup {r},
         at' = [at EXCEPT ![r] = "ok"], ~Duplicate(r)
  PROVE  Registry'
<1>1. /\ UNCHANGED <<found, waits, lost, listed>> /\ Op[r] = "register"
  BY DEF Insert
<1>2. \A q \in Request : at'[q] = IF q = r THEN "ok" ELSE at[q]
  BY DEF Typed, TypeOK
<1>3. \A l : (Owned(l) => Owned(l)') /\ (Deleting(l) => Deleting(l)')
  BY <1>1, Stand
<1>4. OneAlias'
  BY DEF Registry, OneAlias, Duplicate, Rows
<1>5. OneCall' /\ Known' /\ FoundOwn'
  BY <1>1, <1>2 DEF Registry, OneCall, Known, FoundOwn, Name
<1>6. Owned(Name(r))'
  BY DEF Owned, Name
<1>7. Registered' /\ Refusable'
  BY <1>1, <1>2, <1>3, <1>6 DEF Registry, Registered, Refusable, Name, Typed, TypeOK
<1>8. Listed'
  BY <1>1, <1>3 DEF Registry, Listed, Name
<1> QED  BY <1>4, <1>5, <1>7, <1>8 DEF Registry

(* An alias is removed by a call of its bank that waits, or was given up. *)
LEMMA RemoveStep ==
  ASSUME Typed, Registry, NEW r \in Request, Remove(r)
  PROVE  Registry'
<1>1. /\ at[r] = "write" /\ Op[r] = "delete" /\ alias' = alias \ found[r]
      /\ at' = [at EXCEPT ![r] = "ok"]
      /\ UNCHANGED <<found, waits, lost, listed>>
  BY DEF Remove, ByKey, Reaches
<1>2. \A q \in Request : at'[q] = IF q = r THEN "ok" ELSE at[q]
  BY <1>1 DEF Typed, TypeOK
<1>3. \A q \in found[r] : Name(q) = Name(r)
  BY <1>1 DEF Registry, FoundOwn
<1>4. r \in waits \cup lost
  BY <1>1 DEF Registry, Known
<1>5. \A l : /\ Deleting(l) <=> Deleting(l)'
             /\ Owned(l) => Owned(l)' \/ l = Name(r)
  BY <1>1, <1>3 DEF Owned, Deleting, Name
<1>6. \A q \in waits : q # r /\ Name(q) = Name(r) => Deleting(Name(q))
  <2>1. ASSUME NEW q \in waits, q # r, Name(q) = Name(r) PROVE r \in lost
    BY <1>4, <2>1 DEF Registry, OneCall, Name
  <2> QED  BY <1>1, <2>1 DEF Deleting
<1>7. OneAlias' /\ OneCall' /\ Known' /\ FoundOwn'
  BY <1>1, <1>2 DEF Registry, OneAlias, OneCall, Known, FoundOwn, Name
<1>8. Registered'
  BY <1>1, <1>2, <1>5, <1>6 DEF Registry, Registered, Name, Typed, TypeOK
<1>9. Refusable'
  BY <1>1, <1>2, <1>5, <1>6 DEF Registry, Refusable, Name, Typed, TypeOK
<1>10. Listed'
  BY <1>1, <1>4, <1>5 DEF Registry, Listed, Name
<1> QED  BY <1>7, <1>8, <1>9, <1>10 DEF Registry

LEMMA RegistryStep == Typed /\ Registry /\ [Next]_vars => Registry'
<1> SUFFICES ASSUME Typed, Registry, [Next]_vars PROVE Registry'
  OBVIOUS
<1>1. ASSUME NEW r \in Request, Validate(r) PROVE Registry'
  <2> DEFINE stage == IF Rows(PhoneOf[r]) = {} THEN "write" ELSE "refused"
  <2>1. /\ at[r] = "received" /\ Op[r] = "register" /\ at' = [at EXCEPT ![r] = stage]
        /\ UNCHANGED <<alias, found, waits, lost, listed>>
    BY <1>1 DEF Validate, Reaches
  <2>2. stage \in {"write", "refused"}
    OBVIOUS
  <2> HIDE DEF stage
  <2>3. FoundOwn'
    BY <2>1, <2>2 DEF Registry, FoundOwn, Name, Typed, TypeOK
  <2> QED  BY <2>1, <2>2, <2>3, MoveStep
<1>2. ASSUME NEW r \in Request, Insert(r) PROVE Registry'
  <2>1. CASE Duplicate(r)
    <3>1. /\ at[r] = "write" /\ Op[r] = "register" /\ at' = [at EXCEPT ![r] = "refused"]
          /\ UNCHANGED <<alias, found, waits, lost, listed>>
      BY <1>2, <2>1 DEF Insert, Reaches
    <3>2. FoundOwn'
      BY <3>1 DEF Registry, FoundOwn, Name, Typed, TypeOK
    <3> QED  BY <3>1, <3>2, MoveStep
  <2>2. CASE ~Duplicate(r)
    BY <1>2, <2>2, InsertStep DEF Insert, Reaches
  <2> QED  BY <2>1, <2>2
<1>3. ASSUME NEW r \in Request, Find(r) PROVE Registry'
  <2> DEFINE stage == IF Own(r) = {} THEN "refused" ELSE "write"
  <2>1. /\ at[r] = "received" /\ Op[r] = "delete" /\ at' = [at EXCEPT ![r] = stage]
        /\ found' = [found EXCEPT ![r] = Own(r)]
        /\ UNCHANGED <<alias, waits, lost, listed>>
    BY <1>3 DEF Find, Reaches
  <2>2. stage \in {"write", "refused"} /\ (stage = "refused" => Own(r) = {})
    OBVIOUS
  <2> HIDE DEF stage
  <2>3. \A q \in Own(r) : Name(q) = Name(r)
    BY DEF Own, Rows, Name
  <2>4. Own(r) = {} => ~Owned(Name(r))
    BY DEF Own, Rows, Name, Owned
  <2>5. FoundOwn'
    BY <2>1, <2>2, <2>3 DEF Registry, FoundOwn, Name, Typed, TypeOK
  <2> QED  BY <2>1, <2>2, <2>4, <2>5, MoveStep
<1>4. ASSUME NEW r \in Request, Crash(r) PROVE Registry'
  <2>1. /\ at[r] \in {"received", "write"} /\ at' = [at EXCEPT ![r] = "dead"]
        /\ UNCHANGED <<alias, found, waits, lost, listed>>
    BY <1>4 DEF Crash, Reaches
  <2>2. FoundOwn'
    BY <2>1 DEF Registry, FoundOwn, Name, Typed, TypeOK
  <2> QED  BY <2>1, <2>2, MoveStep
<1>5. ASSUME UNCHANGED registry PROVE Registry'
  BY <1>5
  DEF registry, Registry, OneAlias, OneCall, Known, FoundOwn, Registered, Refusable, Listed,
      Owned, Deleting, Name
<1>6. ASSUME NEW b \in Bank, NEW p \in Phone, LookUp(b, p) PROVE UNCHANGED registry
  BY <1>6 DEF LookUp
<1>7. ASSUME \/ Midnight \/ Commit \/ Fail
             \/ \E d \in Day : Begin(d)
             \/ \E b \in Bank : Bill(b) \/ Drop(b)
             \/ UNCHANGED vars
      PROVE  UNCHANGED registry
  BY <1>7 DEF Midnight, Commit, Fail, Begin, Bill, Drop, vars
<1> QED
  BY <1>1, <1>2, <1>3, <1>4, <1>5, <1>6, <1>7, AskStep, AnsweredStep, GiveUpStep, RemoveStep
  DEF Next

(* A number that a bank's application lists as registered is the bank's and *)
(* nobody else's at KLIK, unless a deletion by the bank itself is on its   *)
(* way or was given up (alias_service.py, api_register_alias): however two *)
(* banks' registrations and deletions interleave and are lost.             *)
THEOREM ListedAreOwned == Spec => []ListedIsOwned
<1>1. Init => Typed /\ Registry
  BY DEF Init, Typed, TypeOK, Billing, Day, Registry, OneAlias, OneCall, Known, FoundOwn,
         Registered, Refusable, Listed
<1>2. Spec => [](Typed /\ Registry)
  BY <1>1, StepType, RegistryStep, PTL DEF Spec
<1>3. Typed /\ Registry => ListedIsOwned
  <2> SUFFICES ASSUME Typed, Registry, NEW l \in listed,
                      ~ \E r \in waits \cup lost : Op[r] = "delete" /\ Name(r) = l
               PROVE  {BankOf[q] : q \in Rows(l[2])} = {l[1]}
    BY DEF ListedIsOwned
  <2>1. PICK q \in alias : Name(q) = l
    BY DEF Registry, Listed, Owned
  <2>2. PhoneOf[q] = l[2] /\ BankOf[q] = l[1]
    BY <2>1 DEF Name
  <2>3. Rows(l[2]) = {q}
    BY <2>2 DEF Rows, Registry, OneAlias
  <2> QED  BY <2>2, <2>3
<1> QED  BY <1>2, <1>3, PTL

-----------------------------------------------------------------------------
(* The bills *)

Counted == \A b \in Bank, d \in Day : count[b][d] <= made[b][d]

(* One counter is read at a time, and it is not to be read again *)
OneSpent == \A b, c \in spent : b = c /\ b \notin todo

BilledOnce ==
  \A i, j \in DOMAIN ledger :
    ledger[i].bank = ledger[j].bank /\ ledger[i].day = ledger[j].day => i = j
BillBounded ==
  \A i \in DOMAIN ledger :
    ledger[i].lookups + count[ledger[i].bank][ledger[i].day]
      <= made[ledger[i].bank][ledger[i].day]

(* The bills of the run: of its day, of counters read, of banks without a bill *)
PendOnce == \A i, j \in DOMAIN pend : pend[i].bank = pend[j].bank => i = j
NewRow(i) ==
  /\ pend[i].day = target /\ pend[i].bank \notin todo
  /\ ~Billed(pend[i].bank)
  /\ pend[i].lookups <= made[pend[i].bank][target]
  /\ pend[i].bank \notin spent =>
       pend[i].lookups + count[pend[i].bank][target] <= made[pend[i].bank][target]
PendNew == \A i \in DOMAIN pend : NewRow(i)

Bills == Counted /\ OneSpent /\ BilledOnce /\ BillBounded /\ PendOnce /\ PendNew

(* What the rows of the two tables hold *)
LEMMA Rowed ==
  ASSUME NEW table \in Seq(Entry), NEW i \in DOMAIN table
  PROVE  /\ table[i].bank \in Bank /\ table[i].day \in Day
         /\ table[i].lookups \in Nat /\ i \in Nat
<1>1. table[i] \in Entry /\ i \in Nat
  BY SeqDomain
<1> QED  BY <1>1 DEF Entry

LEMMA Counters ==
  ASSUME Typed
  PROVE  /\ ledger \in Seq(Entry) /\ pend \in Seq(Entry)
         /\ \A b \in Bank, d \in Day : made[b][d] \in Nat /\ count[b][d] \in Nat
         /\ count \in [Bank -> [Day -> Nat]]
BY DEF Typed, TypeOK

(* Lookups only widen the gap between what was made and what is counted. *)
LEMMA LookUpStep ==
  ASSUME Typed, Bills, NEW b \in Bank, NEW p \in Phone, LookUp(b, p)
  PROVE  Bills'
<1>1. UNCHANGED <<target, todo, spent, pend, ledger>>
  BY DEF LookUp, accrual
<1>2. \A c \in Bank, d \in Day :
        /\ made[c][d] \in Nat /\ count[c][d] \in Nat
        /\ \/ made'[c][d] = made[c][d] /\ count'[c][d] = count[c][d]
           \/ made'[c][d] = made[c][d] + 1 /\ count'[c][d] = count[c][d] + 1
           \/ made'[c][d] = made[c][d] + 1 /\ count'[c][d] = count[c][d]
  <2>1. \A c \in Bank, d \in Day :
          /\ Plus1(made, b)[c][d] = IF c = b /\ d = day THEN made[c][d] + 1 ELSE made[c][d]
          /\ Plus1(count, b)[c][d] = IF c = b /\ d = day THEN count[c][d] + 1 ELSE count[c][d]
    BY DEF Typed, TypeOK, Plus1
  <2>2. made' = Plus1(made, b) /\ (count' = Plus1(count, b) \/ count' = count)
    BY DEF LookUp
  <2> QED  BY <2>1, <2>2, Counters
<1>3. Counted'
  BY <1>2 DEF Bills, Counted
<1>4. OneSpent' /\ BilledOnce' /\ PendOnce'
  BY <1>1 DEF Bills, OneSpent, BilledOnce, PendOnce
<1>5. BillBounded'
  <2> SUFFICES ASSUME NEW i \in DOMAIN ledger
               PROVE  ledger[i].lookups + count'[ledger[i].bank][ledger[i].day]
                        <= made'[ledger[i].bank][ledger[i].day]
    BY <1>1 DEF BillBounded
  <2>1. /\ ledger[i].bank \in Bank /\ ledger[i].day \in Day /\ ledger[i].lookups \in Nat
    BY Counters, Rowed
  <2>2. ledger[i].lookups + count[ledger[i].bank][ledger[i].day]
          <= made[ledger[i].bank][ledger[i].day]
    BY DEF Bills, BillBounded
  <2> QED  BY <1>2, <2>1, <2>2
<1>6. PendNew'
  <2> SUFFICES ASSUME NEW i \in DOMAIN pend PROVE NewRow(i)'
    BY <1>1 DEF PendNew
  <2>1. NewRow(i)
    BY DEF Bills, PendNew
  <2>2. /\ pend[i].bank \in Bank /\ pend[i].day \in Day /\ pend[i].lookups \in Nat
    BY Counters, Rowed
  <2>3. target \in Day
    BY <2>1, <2>2 DEF NewRow
  <2>4. /\ pend[i].lookups <= made'[pend[i].bank][target]
        /\ pend[i].bank \notin spent =>
             pend[i].lookups + count'[pend[i].bank][target] <= made'[pend[i].bank][target]
    BY <1>2, <2>1, <2>2, <2>3 DEF NewRow
  <2>5. Billed(pend[i].bank)' <=> Billed(pend[i].bank)
    BY <1>1 DEF Billed
  <2> QED  BY <1>1, <2>1, <2>4, <2>5 DEF NewRow
<1> QED  BY <1>3, <1>4, <1>5, <1>6 DEF Bills

(* A counter read becomes the only bill of its bank and day. *)
LEMMA BillStep ==
  ASSUME Typed, Bills, NEW b \in Bank, Bill(b)
  PROVE  Bills'
<1> DEFINE row == [bank |-> b, day |-> target, lookups |-> count[b][target],
                   amount |-> Cents(count[b][target] * Fee[b])]
           n == Len(pend)
<1>1. /\ b \in todo /\ spent = {} /\ todo' = todo \ {b} /\ spent' = {b}
      /\ UNCHANGED <<made, count, target, ledger>>
  BY DEF Bill
<1>2. /\ row.bank = b /\ row.day = target /\ row.lookups = count[b][target]
  OBVIOUS
<1>3. pend' = (IF Chargeable(b) /\ ~Billed(b) THEN Append(pend, row) ELSE pend)
  BY DEF Bill
<1>4. target \in Day
  BY <1>1 DEF Typed, TypeOK, Billing
<1>5. Chargeable(b) => row \in Entry
  <2>1. count[b][target] \in Nat
    BY <1>4, Counters
  <2>2. Chargeable(b) => row.amount \in Nat \ {0} /\ row.lookups \in Nat \ {0}
    BY <2>1, ChargeIsPositive DEF Chargeable
  <2> QED  BY <1>4, <2>2 DEF Entry
<1> HIDE DEF row
<1>6. \A i \in DOMAIN pend :
        /\ pend[i].day = target /\ pend[i].bank # b /\ pend[i].bank \notin todo'
        /\ ~Billed(pend[i].bank)
        /\ pend[i].lookups <= made[pend[i].bank][target]
        /\ pend[i].lookups + count[pend[i].bank][target] <= made[pend[i].bank][target]
  BY <1>1 DEF Bills, PendNew, NewRow
<1>7. \/ pend' = pend
      \/ /\ ~Billed(b) /\ n \in Nat
         /\ DOMAIN pend' = DOMAIN pend \cup {n + 1} /\ n + 1 \notin DOMAIN pend
         /\ \A i \in DOMAIN pend : pend'[i] = pend[i]
         /\ pend'[n + 1] = row
  <2>1. CASE Chargeable(b) /\ ~Billed(b)
    <3>1. row \in Entry /\ pend' = Append(pend, row)
      BY <1>3, <1>5, <2>1
    <3>2. pend \in Seq(Entry)
      BY Counters
    <3>3. n \in Nat /\ DOMAIN pend = 1 .. n
      BY <3>2, SeqDomain
    <3>4. n + 1 \notin DOMAIN pend
      BY <3>3
    <3>5. /\ DOMAIN pend' = DOMAIN pend \cup {n + 1} /\ pend'[n + 1] = row
          /\ \A i \in DOMAIN pend : pend'[i] = pend[i]
      BY <3>1, <3>2, AppendRow
    <3> HIDE DEF n
    <3> QED  BY <2>1, <3>3, <3>4, <3>5
  <2>2. CASE ~(Chargeable(b) /\ ~Billed(b))
    BY <1>3, <2>2
  <2> QED  BY <2>1, <2>2
<1> HIDE DEF n
<1>8. Counted' /\ BilledOnce' /\ BillBounded'
  BY <1>1 DEF Bills, Counted, BilledOnce, BillBounded
<1>9. OneSpent'
  BY <1>1 DEF OneSpent
<1>10. PendOnce'
  <2>1. \A i, j \in DOMAIN pend : pend[i].bank = pend[j].bank => i = j
    BY DEF Bills, PendOnce
  <2> QED  BY <1>2, <1>6, <1>7, <2>1 DEF PendOnce
<1>11. PendNew'
  <2> SUFFICES ASSUME NEW i \in DOMAIN pend' PROVE NewRow(i)'
    BY DEF PendNew
  <2>1. \A c : Billed(c)' <=> Billed(c)
    BY <1>1 DEF Billed
  <2>2. CASE i \in DOMAIN pend
    <3>1. pend'[i] = pend[i]
      BY <1>7, <2>2
    <3> QED  BY <1>1, <1>6, <2>1, <2>2, <3>1 DEF NewRow
  <2>3. CASE i \notin DOMAIN pend
    <3>1. pend'[i] = row /\ ~Billed(b)
      BY <1>7, <2>3
    <3>2. count[b][target] <= made[b][target]
      BY <1>4 DEF Bills, Counted
    <3> QED  BY <1>1, <1>2, <2>1, <3>1, <3>2 DEF NewRow
  <2> QED  BY <2>2, <2>3
<1> QED  BY <1>8, <1>9, <1>10, <1>11 DEF Bills

(* The counter that was read is empty, and its bill stands. *)
LEMMA DropStep ==
  ASSUME Typed, Bills, NEW b \in Bank, Drop(b)
  PROVE  Bills'
<1>1. /\ b \in spent /\ spent' = {} /\ UNCHANGED <<made, target, todo, pend, ledger>>
      /\ count' = [count EXCEPT ![b][target] = 0]
  BY DEF Drop, Emptied
<1>2. target \in Day
  BY <1>1 DEF Typed, TypeOK, Billing
<1>3. \A c \in Bank, d \in Day :
        /\ made[c][d] \in Nat /\ count[c][d] \in Nat
        /\ count'[c][d] = IF c = b /\ d = target THEN 0 ELSE count[c][d]
  BY <1>1, <1>2, Counters
<1>4. Counted' /\ OneSpent' /\ BilledOnce' /\ PendOnce'
  BY <1>1, <1>3 DEF Bills, Counted, OneSpent, BilledOnce, PendOnce
<1>5. BillBounded'
  <2> SUFFICES ASSUME NEW i \in DOMAIN ledger
               PROVE  ledger[i].lookups + count'[ledger[i].bank][ledger[i].day]
                        <= made[ledger[i].bank][ledger[i].day]
    BY <1>1 DEF BillBounded
  <2>1. /\ ledger[i].bank \in Bank /\ ledger[i].day \in Day /\ ledger[i].lookups \in Nat
    BY Counters, Rowed
  <2>2. ledger[i].lookups + count[ledger[i].bank][ledger[i].day]
          <= made[ledger[i].bank][ledger[i].day]
    BY DEF Bills, BillBounded
  <2> QED  BY <1>3, <2>1, <2>2
<1>6. PendNew'
  <2> SUFFICES ASSUME NEW i \in DOMAIN pend PROVE NewRow(i)'
    BY <1>1 DEF PendNew
  <2>1. NewRow(i)
    BY DEF Bills, PendNew
  <2>2. /\ pend[i].bank \in Bank /\ pend[i].lookups \in Nat
    BY Counters, Rowed
  <2>3. pend[i].lookups + count'[pend[i].bank][target] <= made[pend[i].bank][target]
    <3>1. CASE pend[i].bank = b
      BY <1>2, <1>3, <2>1, <2>2, <3>1 DEF NewRow
    <3>2. CASE pend[i].bank # b
      <4>1. pend[i].bank \notin spent
        BY <1>1, <3>2 DEF Bills, OneSpent
      <4> QED  BY <1>2, <1>3, <2>1, <2>2, <3>2, <4>1 DEF NewRow
    <3> QED  BY <3>1, <3>2
  <2>4. Billed(pend[i].bank)' <=> Billed(pend[i].bank)
    BY <1>1 DEF Billed
  <2> QED  BY <1>1, <2>1, <2>3, <2>4 DEF NewRow
<1> QED  BY <1>4, <1>5, <1>6 DEF Bills

(* The bills of the run join those of other runs: none is of its day and of *)
(* their banks.                                                            *)
LEMMA CommitStep ==
  ASSUME Typed, Bills, Commit
  PROVE  Bills'
<1> DEFINE m == Len(ledger)
           n == Len(pend)
<1>1. /\ spent = {} /\ ledger' = ledger \o pend /\ pend' = <<>>
      /\ UNCHANGED <<made, count, todo, spent>>
  BY DEF Commit
<1>2. /\ m \in Nat /\ n \in Nat
      /\ DOMAIN ledger = 1 .. m /\ DOMAIN pend = 1 .. n
  BY Counters, SeqDomain
<1>3. /\ DOMAIN ledger' = 1 .. m + n
      /\ \A i \in 1 .. m : ledger'[i] = ledger[i]
      /\ \A i \in m + 1 .. m + n : ledger'[i] = pend[i - m]
  BY <1>1, Counters
<1> HIDE DEF m, n
<1>4. \A i \in DOMAIN ledger' :
        \/ i \in DOMAIN ledger /\ ledger'[i] = ledger[i]
        \/ i - m \in DOMAIN pend /\ ledger'[i] = pend[i - m]
  BY <1>2, <1>3
<1>5. \A i \in DOMAIN pend :
        /\ pend[i].day = target /\ ~Billed(pend[i].bank)
        /\ pend[i].lookups + count[pend[i].bank][target] <= made[pend[i].bank][target]
  BY <1>1 DEF Bills, PendNew, NewRow
<1>6. BilledOnce'
  <2> SUFFICES ASSUME NEW i \in DOMAIN ledger', NEW j \in DOMAIN ledger',
                      ledger'[i].bank = ledger'[j].bank, ledger'[i].day = ledger'[j].day
               PROVE  i = j
    BY DEF BilledOnce
  <2>1. \A k \in DOMAIN ledger, l \in DOMAIN pend :
          ~(ledger[k].bank = pend[l].bank /\ ledger[k].day = pend[l].day)
    BY <1>5 DEF Billed
  <2>2. CASE i \in DOMAIN ledger /\ j \in DOMAIN ledger
    BY <1>2, <1>3, <2>2 DEF Bills, BilledOnce
  <2>3. CASE i - m \in DOMAIN pend /\ j - m \in DOMAIN pend
    <3>1. ledger'[i] = pend[i - m] /\ ledger'[j] = pend[j - m]
      BY <1>2, <1>3, <2>3
    <3>2. i - m = j - m
      BY <2>3, <3>1 DEF Bills, PendOnce
    <3> QED  BY <1>2, <1>3, <3>2
  <2>4. \A k \in DOMAIN ledger, l \in DOMAIN ledger' :
          l - m \in DOMAIN pend =>
            ~(ledger'[k].bank = ledger'[l].bank /\ ledger'[k].day = ledger'[l].day)
    <3>1. \A k \in DOMAIN ledger : ledger'[k] = ledger[k]
      BY <1>2, <1>3
    <3>2. \A l \in DOMAIN ledger' : l - m \in DOMAIN pend => ledger'[l] = pend[l - m]
      BY <1>2, <1>3
    <3> QED  BY <2>1, <3>1, <3>2
  <2>5. /\ i \in DOMAIN ledger \/ i - m \in DOMAIN pend
        /\ j \in DOMAIN ledger \/ j - m \in DOMAIN pend
    BY <1>4
  <2> QED  BY <2>2, <2>3, <2>4, <2>5
<1>7. BillBounded'
  <2> SUFFICES ASSUME NEW i \in DOMAIN ledger'
               PROVE  ledger'[i].lookups + count[ledger'[i].bank][ledger'[i].day]
                        <= made[ledger'[i].bank][ledger'[i].day]
    BY <1>1 DEF BillBounded
  <2> QED  BY <1>4, <1>5 DEF Bills, BillBounded
<1>8. Counted' /\ OneSpent' /\ PendOnce' /\ PendNew'
  BY <1>1 DEF Bills, Counted, OneSpent, PendOnce, PendNew
<1> QED  BY <1>6, <1>7, <1>8 DEF Bills

LEMMA BillsStep == Typed /\ Bills /\ [Next]_vars => Bills'
<1> SUFFICES ASSUME Typed, Bills, [Next]_vars PROVE Bills'
  OBVIOUS
<1>1. ASSUME UNCHANGED <<made, count, target, todo, spent, pend, ledger>> PROVE Bills'
  BY <1>1
  DEF Bills, Counted, OneSpent, BilledOnce, BillBounded, PendOnce, PendNew, NewRow, Billed
<1>2. ASSUME NEW r \in Request,
             \/ Ask(r) \/ Answered(r) \/ GiveUp(r) \/ Validate(r) \/ Insert(r) \/ Find(r)
             \/ Remove(r) \/ Crash(r)
      PROVE  Bills'
  BY <1>1, <1>2
  DEF Ask, Answered, GiveUp, Validate, Insert, Find, Remove, Crash, accrual
<1>3. CASE Midnight \/ UNCHANGED vars
  BY <1>1, <1>3 DEF Midnight, vars, accrual
<1>4. ASSUME NEW d \in Day, Begin(d) PROVE Bills'
  <2>1. spent = {} /\ pend = <<>> /\ UNCHANGED <<made, count, spent, pend, ledger>>
    BY <1>4 DEF Begin, Typed, Billing
  <2> QED
    BY <2>1 DEF Bills, Counted, OneSpent, BilledOnce, BillBounded, PendOnce, PendNew
<1>5. CASE Fail
  <2>1. spent' = {} /\ pend' = <<>> /\ UNCHANGED <<made, count, ledger>>
    BY <1>5 DEF Fail
  <2> QED
    BY <2>1 DEF Bills, Counted, OneSpent, BilledOnce, BillBounded, PendOnce, PendNew
<1> QED
  BY <1>2, <1>3, <1>4, <1>5, LookUpStep, BillStep, DropStep, CommitStep DEF Next

(* A day is billed to a bank once and for no more than the bank looked up,  *)
(* even when the accrual dies between the deletion of the counters and its *)
(* commit and is repeated, or lookups are counted behind its back          *)
(* (record_p2p_lookup_fees): lookups may go unbilled, never twice billed.  *)
THEOREM NobodyOverbilled == Spec => []NeverOverbilled
<1>1. Init => Typed /\ Bills
  BY DEF Init, Typed, TypeOK, Billing, Day, Bills, Counted, OneSpent, BilledOnce, BillBounded,
         PendOnce, PendNew
<1>2. Spec => [](Typed /\ Bills)
  BY <1>1, StepType, BillsStep, PTL DEF Spec
<1>3. Typed /\ Bills => NeverOverbilled
  BY DEF Bills, BilledOnce, BillBounded, NeverOverbilled
<1> QED  BY <1>2, <1>3, PTL
=============================================================================
