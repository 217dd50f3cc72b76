---------------------------- MODULE ChequesProofs ----------------------------
(***************************************************************************)
(* Proofs about Cheques, for any banks, agents, agreements, cheques, codes *)
(* and requests.  One inductive invariant says how the transaction of a    *)
(* request, the status of its cheque and the booking go together; another  *)
(* one adds what the issuing bank has been told and the money it holds;    *)
(* the last one adds the call that the bank's application waits for, which *)
(* keeps the balance as it was when it was checked.                        *)
(***************************************************************************)
EXTENDS Cheques, SeqLemmas

-----------------------------------------------------------------------------
(* Types *)

(* A fee rounded half up. *)
LEMMA Rounded ==
  ASSUME NEW value \in Nat
  PROVE  /\ RoundMoney(value) \in Nat
         /\ 10000 * RoundMoney(value) <= value + 5000
BY DEF RoundMoney

(* Two fees of less than the whole, each rounded on its own, leave what is *)
(* not negative.                                                          *)
LEMMA FeesFit ==
  ASSUME NEW gross \in Nat \ {0}, NEW x \in Nat, NEW y \in Nat, x + y <= 9999 * gross
  PROVE  RoundMoney(x) + RoundMoney(y) <= gross
<1>1. /\ RoundMoney(x) \in Nat /\ 10000 * RoundMoney(x) <= x + 5000
      /\ RoundMoney(y) \in Nat /\ 10000 * RoundMoney(y) <= y + 5000
  BY Rounded
<1> QED  BY <1>1

LEMMA PercentsFit ==
  ASSUME NEW gross \in Nat \ {0}, NEW k \in Nat, NEW a \in Nat, k + a < 10000
  PROVE  gross * k \in Nat /\ gross * a \in Nat /\ gross * k + gross * a <= 9999 * gross
<1>1. gross * (k + a) <= gross * 9999
  OBVIOUS
<1>2. gross * k + gross * a = gross * (k + a)
  OBVIOUS
<1> QED  BY <1>1, <1>2

(* calculate_split (agents): whatever the percentages of an agreement and  *)
(* the amount, the rounded fees leave the merchant no less than nothing,   *)
(* and the shares add up to the payment.                                   *)
THEOREM SplitAddsUp ==
  ASSUME NEW gross \in Nat \ {0}, NEW msc \in Agreement
  PROVE  /\ Split(msc, gross) \in Shares
         /\ Split(msc, gross) # Nothing
         /\ Split(msc, gross).klik + Split(msc, gross).agent + Split(msc, gross).net = gross
<1> DEFINE x == gross * msc.klik  y == gross * msc.agent
<1> DEFINE klik == RoundMoney(x)  agent == RoundMoney(y)
<1>1. msc.klik \in Nat /\ msc.agent \in Nat /\ msc.klik + msc.agent < 10000
  BY DEF Agreement, Perc
<1>2. x \in Nat /\ y \in Nat /\ x + y <= 9999 * gross
  <2> DEFINE k == msc.klik  a == msc.agent
  <2>1. k \in Nat /\ a \in Nat /\ k + a < 10000
    BY <1>1
  <2> HIDE DEF k, a
  <2>2. gross * k \in Nat /\ gross * a \in Nat /\ gross * k + gross * a <= 9999 * gross
    BY <2>1, PercentsFit
  <2> QED  BY <2>2 DEF k, a
<1> HIDE DEF x, y
<1>3. klik \in Nat /\ agent \in Nat /\ klik + agent <= gross
  BY <1>2, Rounded, FeesFit
<1>4. Split(msc, gross) = [klik |-> klik, agent |-> agent, net |-> gross - klik - agent]
  BY DEF Split, MerchantNet, x, y
<1> HIDE DEF klik, agent
<1>5. gross - klik - agent \in Nat /\ klik + agent + (gross - klik - agent) = gross
  BY <1>3
<1> QED  BY <1>3, <1>4, <1>5 DEF Shares, Nothing

USE ChequesAssumption

(* The agreement in force is one of those of the agent. *)
LEMMA TermsAreAgreements ==
  ASSUME TypeOK, NEW r \in Request
  PROVE  Terms(r) \subseteq Agreement
<1> DEFINE a == AgentOf[r]
<1>1. a \in Agent /\ Agreements[a] \in Seq(SUBSET Agreement)
      /\ term[a] \in 1 .. Len(Agreements[a])
  BY DEF TypeOK
<1>2. Agreements[a][term[a]] \in SUBSET Agreement
  BY <1>1
<1> QED  BY <1>2 DEF Terms

LEMMA Announced ==
  ASSUME NEW c \in Cheque, NEW news \in Outcomes
  PROVE  Announcement(c, news) \in Note
BY DEF Announcement, Note

LEMMA Repeated ==
  ASSUME NEW n \in Note
  PROVE  /\ Again(n) \subseteq Note
         /\ \A m \in Again(n) : m.cheque = n.cheque /\ m.news = n.news
<1>1. CASE n.tries < MaxRetries
  <2>1. n.tries \in 0 .. MaxRetries /\ n.tries + 1 \in 0 .. MaxRetries
    BY <1>1 DEF Note
  <2>2. [n EXCEPT !.tries = @ + 1] \in Note
    BY <2>1 DEF Note
  <2>3. /\ [n EXCEPT !.tries = @ + 1].cheque = n.cheque
        /\ [n EXCEPT !.tries = @ + 1].news = n.news
    BY DEF Note
  <2> QED  BY <1>1, <2>2, <2>3 DEF Again
<1>2. CASE ~(n.tries < MaxRetries)
  BY <1>2 DEF Again
<1> QED  BY <1>1, <1>2

(* A request that has redeemed has a cheque, and that cheque is REDEEMED. *)
Winning == {"book", "insert", "announce", "remember", "answered"}

Fresh  == \A c \in Cheque : issue[c] \in {"idle", "draw", "insert"} => status[c] = "none"
Closed == \A c \in Cheque : by[c] # NoRequest => status[c] = "REDEEMED"
Owner  == \A r \in Request : at[r] \in Winning => \E c \in Cheque : by[c] = r
Linked == Fresh /\ Closed /\ Owner

Typed == TypeOK /\ Linked

LEMMA ItsCheque ==
  ASSUME NEW r \in Request, \E c \in Cheque : by[c] = r
  PROVE  ChequeOf(r) \in Cheque /\ by[ChequeOf(r)] = r
BY DEF ChequeOf

LEMMA FaultType ==
  ASSUME TypeOK, UNCHANGED faults \/ Fault
  PROVE  faults' \in 0 .. MaxFaults
BY DEF TypeOK, Fault

(* What the bank's application does, and the issue of a cheque. *)
LEMMA IssueType ==
  ASSUME Typed, NEW c \in Cheque,
         \/ OrderCheque(c) \/ HoldMoney(c) \/ AskCancel(c) \/ CancelAnswered(c)
         \/ \E n \in Code : DrawCode(c, n)
         \/ InsertCheque(c) \/ CrashIssue(c) \/ Lapse(c)
  PROVE  Typed'
<1>1. UNCHANGED faults \/ Fault
  BY DEF OrderCheque, HoldMoney, AskCancel, CancelAnswered, DrawCode, InsertCheque, CrashIssue,
         Lapse
<1>2. faults' \in 0 .. MaxFaults
  BY <1>1, FaultType DEF Typed
<1>3. UNCHANGED <<by, term, redeeming, swept, note>>
  BY DEF OrderCheque, HoldMoney, AskCancel, CancelAnswered, DrawCode, InsertCheque, CrashIssue,
         Lapse, bank
<1>4. /\ issue' \in [Cheque -> {"idle", "draw", "insert", "reply", "done", "dead"}]
      /\ code' \in [Cheque -> Code \cup {NoCode}]
      /\ status' \in [Cheque -> Statuses]
      /\ due' \subseteq Cheque
  <2>1. issue' \in [Cheque -> {"idle", "draw", "insert", "reply", "done", "dead"}]
    <3>1. \/ UNCHANGED issue
          \/ \E stage \in {"draw", "insert", "reply", "done", "dead"} :
               issue' = [issue EXCEPT ![c] = stage]
      BY DEF OrderCheque, HoldMoney, AskCancel, CancelAnswered, DrawCode, InsertCheque,
             CrashIssue, Lapse, issuing
    <3> QED  BY <3>1 DEF Typed, TypeOK
  <2>2. code' \in [Cheque -> Code \cup {NoCode}]
    <3>1. UNCHANGED code \/ \E n \in Code : code' = [code EXCEPT ![c] = n]
      BY DEF OrderCheque, HoldMoney, AskCancel, CancelAnswered, DrawCode, InsertCheque,
             CrashIssue, Lapse, issuing
    <3> QED  BY <3>1 DEF Typed, TypeOK
  <2>3. status' \in [Cheque -> Statuses]
    <3>1. UNCHANGED status \/ status' = [status EXCEPT ![c] = "ACTIVE"]
      BY DEF OrderCheque, HoldMoney, AskCancel, CancelAnswered, DrawCode, InsertCheque,
             CrashIssue, Lapse
    <3> QED  BY <3>1 DEF Typed, TypeOK, Statuses
  <2>4. due' \subseteq Cheque
    BY DEF OrderCheque, HoldMoney, AskCancel, CancelAnswered, DrawCode, InsertCheque,
           CrashIssue, Lapse, Typed, TypeOK
  <2> QED  BY <2>1, <2>2, <2>3, <2>4
<1>5. cancel' \in [Cheque -> {"idle", "lock", "announce", "ok", "refused", "dead"}]
  BY DEF OrderCheque, HoldMoney, AskCancel, CancelAnswered, DrawCode, InsertCheque, CrashIssue,
         Lapse, Typed, TypeOK
<1>6. waiting' \subseteq {"issue", "cancel"} \X Cheque
  BY DEF OrderCheque, HoldMoney, AskCancel, CancelAnswered, DrawCode, InsertCheque, CrashIssue,
         Lapse, bank, Typed, TypeOK
<1>7. local' \in [Cheque -> Statuses]
  BY DEF OrderCheque, HoldMoney, AskCancel, CancelAnswered, DrawCode, InsertCheque, CrashIssue,
         Lapse, bank, Typed, TypeOK, Statuses, Outcomes
<1>8. debit' \in [Cheque -> Int]
  BY DEF OrderCheque, HoldMoney, AskCancel, CancelAnswered, DrawCode, InsertCheque, CrashIssue,
         Lapse, bank, Typed, TypeOK
<1>9. \A d \in Cheque :
        /\ issue'[d] \in {"idle", "draw", "insert"} => status'[d] = "none"
        /\ by[d] # NoRequest => status'[d] = "REDEEMED"
  BY DEF OrderCheque, HoldMoney, AskCancel, CancelAnswered, DrawCode, InsertCheque, CrashIssue,
         Lapse, issuing, Typed, TypeOK, Linked, Fresh, Closed
<1>10. TypeOK'
  BY <1>2, <1>3, <1>4, <1>5, <1>6, <1>7, <1>8 DEF Typed, TypeOK, redeeming
<1>11. Linked'
  <2>1. at' = at /\ by' = by
    BY <1>3 DEF redeeming
  <2>2. Owner'
    BY <2>1 DEF Typed, Linked, Owner
  <2>3. Fresh' /\ Closed'
    BY <1>9, <2>1 DEF Fresh, Closed
  <2> QED  BY <2>2, <2>3 DEF Linked
<1> QED  BY <1>10, <1>11 DEF Typed

(* The redemption of a cheque. *)
LEMMA RedeemType ==
  ASSUME Typed, NEW r \in Request,
         \/ Receive(r) \/ FoundExpired(r) \/ NotRedeemed(r) \/ Redeem(r)
         \/ LookForEntries(r) \/ Book(r) \/ BookingFails(r)
             \/ Announce(r) \/ Remember(r) \/ CrashRequest(r)
  PROVE  Typed'
<1>1. UNCHANGED faults \/ Fault
  BY DEF Receive, FoundExpired, NotRedeemed, Redeem, LookForEntries, Book, BookingFails,
         Announce, Remember, CrashRequest
<1>2. faults' \in 0 .. MaxFaults
  BY <1>1, FaultType DEF Typed
<1>3. UNCHANGED <<issuing, due, term, cancel, swept, bank>>
  BY DEF Receive, FoundExpired, NotRedeemed, Redeem, LookForEntries, Book, BookingFails,
         Announce, Remember, CrashRequest
<1>4. /\ at' \in [Request -> {"idle", "lock", "book", "insert", "announce", "remember",
                              "answered", "replayed", "dead"} \cup Refusals]
      /\ \A q \in Request : q # r => at'[q] = at[q]
  <2> DEFINE Place == {"idle", "lock", "book", "insert", "announce", "remember",
                       "answered", "replayed", "dead"} \cup Refusals
  <2>1. at \in [Request -> Place]
    BY DEF Typed, TypeOK
  <2>2. PICK place \in Place : at' = [at EXCEPT ![r] = place]
    BY DEF Receive, FoundExpired, NotRedeemed, Redeem, LookForEntries, Book, BookingFails,
           Announce, Remember, CrashRequest, Advance, Refusals
  <2> HIDE DEF Place
  <2>3. at' \in [Request -> Place] /\ \A q \in Request : q # r => at'[q] = at[q]
    BY <2>1, <2>2
  <2> QED  BY <2>3 DEF Place
<1>5. seen' \in [Request -> SUBSET Cheque]
  BY DEF Receive, FoundExpired, NotRedeemed, Redeem, LookForEntries, Book, BookingFails,
         Announce, Remember, CrashRequest, Typed, TypeOK
<1>6. kept' \subseteq Request /\ logged' \subseteq Request
  BY DEF Receive, FoundExpired, NotRedeemed, Redeem, LookForEntries, Book, BookingFails,
         Announce, Remember, CrashRequest, Typed, TypeOK
<1>7. won' \in [Request -> Shares]
  <2>1. CASE Redeem(r)
    <3>1. PICK c \in Cheque, msc \in Terms(r) : won' = [won EXCEPT ![r] = Split(msc, AmountOf[c])]
      BY <2>1 DEF Redeem, Found, Active
    <3>2. Split(msc, AmountOf[c]) \in Shares
      BY TermsAreAgreements, SplitAddsUp DEF Typed
    <3> QED  BY <3>1, <3>2 DEF Typed, TypeOK
  <2>2. CASE ~Redeem(r)
    BY <2>2 DEF Receive, FoundExpired, NotRedeemed, LookForEntries, Book, BookingFails,
                Announce, Remember, CrashRequest, Typed, TypeOK
  <2> QED  BY <2>1, <2>2
<1>8. entry' \in [Request -> Shares]
  <2>1. Legs(r) \in Shares
    <3>1. won[r] \in Shares
      BY DEF Typed, TypeOK
    <3> QED  BY <3>1 DEF Legs, Shares
  <2> QED
    BY <2>1
    DEF Receive, FoundExpired, NotRedeemed, Redeem, LookForEntries, Book, BookingFails,
        Announce, Remember, CrashRequest, Typed, TypeOK
<1>9. note' \subseteq Note
  <2>1. note \subseteq Note /\ {"REDEEMED", "EXPIRED"} \subseteq Outcomes
    BY DEF Typed, TypeOK, Outcomes
  <2>2. CASE FoundExpired(r)
    <3>1. PICK c \in Cheque : note' = note \cup {Announcement(c, "EXPIRED")}
      BY <2>2 DEF FoundExpired, Found, Active
    <3> QED  BY <2>1, <3>1, Announced
  <2>3. CASE Announce(r)
    <3>1. ChequeOf(r) \in Cheque
      BY <2>3, ItsCheque DEF Announce, Typed, Linked, Owner, Winning
    <3> QED  BY <2>1, <2>3, <3>1, Announced DEF Announce
  <2>4. CASE ~FoundExpired(r) /\ ~Announce(r)
    BY <2>1, <2>4 DEF Receive, NotRedeemed, Redeem, LookForEntries, Book, BookingFails,
                      Remember, CrashRequest
  <2> QED  BY <2>2, <2>3, <2>4
<1>10. CASE Redeem(r)
  <2>1. PICK c \in Cheque : /\ status[c] = "ACTIVE"
                            /\ status' = [status EXCEPT ![c] = "REDEEMED"]
                            /\ by' = [by EXCEPT ![c] = r]
    BY <1>10 DEF Redeem, Found, Active
  <2>2. /\ status' \in [Cheque -> Statuses] /\ by' \in [Cheque -> Request \cup {NoRequest}]
        /\ by'[c] = r /\ \A d \in Cheque : d # c => by'[d] = by[d] /\ status'[d] = status[d]
        /\ by[c] = NoRequest /\ status'[c] = "REDEEMED"
    BY <2>1 DEF Typed, TypeOK, Linked, Closed, Statuses, Outcomes
  <2>3. TypeOK'
    BY <1>2, <1>3, <1>4, <1>5, <1>6, <1>7, <1>8, <1>9, <2>2 DEF Typed, TypeOK, issuing, bank
  <2>4. Owner'
    <3> SUFFICES ASSUME NEW q \in Request, at'[q] \in Winning
                 PROVE  \E d \in Cheque : by'[d] = q
      BY DEF Owner
    <3>1. CASE q = r
      BY <2>2, <3>1
    <3>2. CASE q # r
      <4>1. PICK d \in Cheque : by[d] = q
        BY <1>4, <3>2 DEF Typed, Linked, Owner
      <4>2. d # c
        BY <2>2, <4>1
      <4> QED  BY <2>2, <4>1, <4>2
    <3> QED  BY <3>1, <3>2
  <2>5. Fresh' /\ Closed'
    BY <1>3, <2>1, <2>2 DEF Typed, Linked, Fresh, Closed, issuing
  <2> QED  BY <2>3, <2>4, <2>5 DEF Typed, Linked
<1>11. CASE ~Redeem(r)
  <2>1. UNCHANGED <<status, by>>
    BY <1>11 DEF Receive, FoundExpired, NotRedeemed, LookForEntries, Book, BookingFails,
                 Announce, Remember, CrashRequest
  <2>2. TypeOK'
    BY <1>2, <1>3, <1>4, <1>5, <1>6, <1>7, <1>8, <1>9, <2>1 DEF Typed, TypeOK, issuing, bank
  <2>3. at'[r] \in Winning => at[r] \in Winning
    BY <1>11 DEF Receive, FoundExpired, NotRedeemed, LookForEntries, Book, BookingFails,
                 Announce, Remember, CrashRequest, Advance, Typed, TypeOK, Winning
  <2>4. Linked'
    BY <1>3, <1>4, <2>1, <2>3 DEF Typed, Linked, Fresh, Closed, Owner, issuing
  <2> QED  BY <2>2, <2>4 DEF Typed
<1> QED  BY <1>10, <1>11

(* The cancellation, the sweep, the webhooks and the agreements. *)
LEMMA ReleaseType ==
  ASSUME Typed,
         \/ \E c \in Cheque : \/ Cancel(c) \/ AnnounceCancelled(c) \/ CrashCancel(c)
                             \/ Expire(c) \/ AnnounceExpired(c) \/ CrashSweep(c)
         \/ \E call \in waiting : GiveUp(call)
         \/ \E a \in Agent : ChangeTerms(a)
         \/ \E n \in note : Notify(n) \/ NotifyFails(n)
  PROVE  Typed'
<1>1. UNCHANGED faults \/ Fault
  BY DEF Cancel, AnnounceCancelled, CrashCancel, Expire, AnnounceExpired, CrashSweep, GiveUp,
         ChangeTerms, Notify, NotifyFails
<1>2. faults' \in 0 .. MaxFaults
  BY <1>1, FaultType DEF Typed
<1>3. UNCHANGED <<issuing, due, by, redeeming>>
  BY DEF Cancel, AnnounceCancelled, CrashCancel, Expire, AnnounceExpired, CrashSweep, GiveUp,
         ChangeTerms, Notify, NotifyFails
<1>4. term' \in [Agent -> Nat \ {0}] /\ \A a \in Agent : term'[a] <= Len(Agreements[a])
  <2>1. CASE UNCHANGED term
    BY <2>1 DEF Typed, TypeOK
  <2>2. ASSUME NEW a \in Agent, ChangeTerms(a) PROVE <1>4!:
    <3>1. Len(Agreements[a]) \in Nat
      OBVIOUS
    <3>2. term \in [Agent -> Nat \ {0}] /\ \A b \in Agent : term[b] <= Len(Agreements[b])
      BY DEF Typed, TypeOK
    <3>3. term[a] < Len(Agreements[a]) /\ term' = [term EXCEPT ![a] = term[a] + 1]
      BY <2>2 DEF ChangeTerms
    <3>4. term[a] + 1 \in Nat \ {0} /\ term[a] + 1 <= Len(Agreements[a])
      BY <3>1, <3>2, <3>3
    <3> QED  BY <3>2, <3>3, <3>4
  <2>3. (\E a \in Agent : ChangeTerms(a)) \/ UNCHANGED term
    BY DEF Cancel, AnnounceCancelled, CrashCancel, Expire, AnnounceExpired, CrashSweep, GiveUp,
           Notify, NotifyFails
  <2> QED  BY <2>1, <2>2, <2>3
<1>5. /\ status' \in [Cheque -> Statuses]
      /\ \A d \in Cheque : status'[d] # status[d] => status[d] = "ACTIVE"
  <2>1. status \in [Cheque -> Statuses] /\ {"CANCELLED", "EXPIRED"} \subseteq Statuses
    BY DEF Typed, TypeOK, Statuses, Outcomes
  <2>2. \/ UNCHANGED status
        \/ \E c \in Cheque : /\ status[c] = "ACTIVE"
                            /\ \E final \in {"CANCELLED", "EXPIRED"} :
                                 status' = [status EXCEPT ![c] = final]
    BY DEF Cancel, AnnounceCancelled, CrashCancel, Expire, AnnounceExpired, CrashSweep, GiveUp,
           ChangeTerms, Notify, NotifyFails, StillActive
  <2>3. CASE UNCHANGED status
    BY <2>1, <2>3
  <2>4. ASSUME NEW c \in Cheque, NEW final \in {"CANCELLED", "EXPIRED"}, status[c] = "ACTIVE",
               status' = [status EXCEPT ![c] = final]
        PROVE  <1>5!:
    <3>1. final \in Statuses
      BY <2>1
    <3> QED  BY <2>1, <2>4, <3>1
  <2> QED  BY <2>2, <2>3, <2>4
<1>6. cancel' \in [Cheque -> {"idle", "lock", "announce", "ok", "refused", "dead"}]
  <2>1. \/ UNCHANGED cancel
        \/ \E c \in Cheque, stage \in {"announce", "ok", "refused", "dead"} :
             cancel' = [cancel EXCEPT ![c] = stage]
    BY DEF Cancel, AnnounceCancelled, CrashCancel, Expire, AnnounceExpired, CrashSweep, GiveUp,
           ChangeTerms, Notify, NotifyFails
  <2> QED  BY <2>1 DEF Typed, TypeOK
<1>7. swept' \subseteq Cheque
  BY DEF Cancel, AnnounceCancelled, CrashCancel, Expire, AnnounceExpired, CrashSweep, GiveUp,
         ChangeTerms, Notify, NotifyFails, Typed, TypeOK
<1>8. waiting' \subseteq {"issue", "cancel"} \X Cheque
  BY DEF Cancel, AnnounceCancelled, CrashCancel, Expire, AnnounceExpired, CrashSweep, GiveUp,
         ChangeTerms, Notify, NotifyFails, bank, Typed, TypeOK
<1>9. note' \subseteq Note
  <2>1. note \subseteq Note /\ {"CANCELLED", "EXPIRED"} \subseteq Outcomes
    BY DEF Typed, TypeOK, Outcomes
  <2>2. ASSUME NEW c \in Cheque, AnnounceCancelled(c) \/ AnnounceExpired(c)
        PROVE  note' \subseteq Note
    BY <2>1, <2>2, Announced DEF AnnounceCancelled, AnnounceExpired
  <2>3. ASSUME NEW n \in note, Notify(n) \/ NotifyFails(n)
        PROVE  note' \subseteq Note
    BY <2>1, <2>3, Repeated DEF Notify, NotifyFails
  <2>4. \/ UNCHANGED note
        \/ \E c \in Cheque : AnnounceCancelled(c) \/ AnnounceExpired(c)
        \/ \E n \in note : Notify(n) \/ NotifyFails(n)
    BY DEF Cancel, CrashCancel, Expire, CrashSweep, GiveUp, ChangeTerms
  <2> QED  BY <2>1, <2>2, <2>3, <2>4
<1>10. local' \in [Cheque -> Statuses] /\ debit' \in [Cheque -> Int]
  <2>1. ASSUME NEW n \in note, Notify(n) PROVE <1>10!:
    <3>1. n.cheque \in Cheque /\ n.news \in Statuses
      BY DEF Typed, TypeOK, Note, Statuses
    <3> QED  BY <2>1, <3>1 DEF Notify, Typed, TypeOK
  <2>2. UNCHANGED <<local, debit>> \/ \E n \in note : Notify(n)
    BY DEF Cancel, AnnounceCancelled, CrashCancel, Expire, AnnounceExpired, CrashSweep, GiveUp,
           ChangeTerms, NotifyFails, bank
  <2> QED  BY <2>1, <2>2 DEF Typed, TypeOK
<1>11. TypeOK'
  BY <1>2, <1>3, <1>4, <1>5, <1>6, <1>7, <1>8, <1>9, <1>10
  DEF Typed, TypeOK, issuing, redeeming
<1>12. Linked'
  BY <1>3, <1>5 DEF Typed, Linked, Fresh, Closed, Owner, issuing, redeeming
<1> QED  BY <1>11, <1>12 DEF Typed

LEMMA StepType == Typed /\ [Next]_vars => Typed'
<1> SUFFICES ASSUME Typed, [Next]_vars PROVE Typed'
  OBVIOUS
<1>1. CASE UNCHANGED vars
  BY <1>1 DEF vars, issuing, redeeming, bank, Typed, TypeOK, Linked, Fresh, Closed, Owner
<1> QED  BY <1>1, IssueType, RedeemType, ReleaseType DEF Next

LEMMA InitType == Init => Typed
<1> SUFFICES ASSUME Init PROVE Typed
  OBVIOUS
<1>1. Nothing \in Shares
  BY DEF Nothing, Shares
<1>2. \A a \in Agent : 1 <= Len(Agreements[a])
  OBVIOUS
<1>3. TypeOK
  BY <1>1, <1>2 DEF Init, TypeOK, Statuses, Outcomes
<1>4. Linked
  BY DEF Init, Linked, Fresh, Closed, Owner, Winning
<1> QED  BY <1>3, <1>4 DEF Typed

(* Every reachable state is well typed: in particular the shares of a      *)
(* redeemed cheque are never negative (calculate_split), and a webhook is  *)
(* about a cheque that exists.                                             *)
THEOREM TypeCorrect == Spec => []TypeOK
<1>1. Spec => []Typed
  BY InitType, StepType, PTL DEF Spec
<1> QED  BY <1>1, PTL DEF Typed

-----------------------------------------------------------------------------
(* Transactions and their booking *)

(* A request that has not redeemed, and never will if it is refused. *)
Early   == {"idle", "lock", "replayed"} \cup Refusals
Settled == {"announce", "remember", "answered"}

Untouched == \A r \in Request : at[r] \in Early => won[r] = Nothing /\ entry[r] = Nothing

WonBy   == \A c \in Cheque : by[c] # NoRequest => won[by[c]] # Nothing
OneEach == \A c, d \in Cheque : by[c] # NoRequest /\ by[c] = by[d] => c = d
Single  ==
  \A q, r \in Request : won[q] # Nothing /\ won[r] # Nothing /\ SameOrder(q, r) => q = r
Whole   ==
  \A r \in Request :
    won[r] # Nothing =>
      \E c \in Cheque : by[c] = r /\ won[r].klik + won[r].agent + won[r].net = AmountOf[c]

(* Booking r, which redeemed c. *)
Inside(r, c) == BankOf[c] = MerchantBank[AgentOf[r]]
InFull(r, c) ==
  /\ entry[r].klik = won[r].klik /\ entry[r].agent = won[r].agent
  /\ Inside(r, c) \/ entry[r].net = won[r].net
KeyTaken(r) == \E q \in Request \ {r} : entry[q] # Nothing /\ KeyOf[q] = KeyOf[r]

LeftOut(r)  == entry[r] = Nothing /\ (r \in logged \/ KeyTaken(r))

Booked(r) ==
  /\ at[r] \in {"book", "insert"} => entry[r] = Nothing
  /\ at[r] \in Settled => \A c \in Cheque : by[c] = r => InFull(r, c) \/ LeftOut(r)

Booking == \A r \in Request : Booked(r)

Orders == Untouched /\ WonBy /\ OneEach /\ Single /\ Whole /\ Booking

(* What is neither a redemption nor a booking leaves the transactions. *)
LEMMA OrdersKept ==
  ASSUME Typed, Orders, UNCHANGED <<by, won, entry, logged>>,
         \A r \in Request : \/ at'[r] = at[r]
                            \/ at[r] = "book" /\ at'[r] = "insert"
                            \/ at[r] \in Early /\ at'[r] \in Early
                            \/ at[r] \in Settled /\ at'[r] \in Settled
                            \/ at'[r] = "dead"
  PROVE  Orders'
<1>1. "dead" \notin Early /\ "dead" \notin Settled /\ {"book", "insert"} \cap (Early \cup Settled) = {}
  BY DEF Early, Settled, Refusals
<1>2. \A r \in Request : /\ at'[r] \in Early => at[r] \in Early
                         /\ at'[r] \in Settled => at[r] \in Settled
                         /\ at'[r] \in {"book", "insert"} => at[r] \in {"book", "insert"}
  BY <1>1 DEF Early, Settled, Refusals
<1>3. Untouched'
  BY <1>2 DEF Orders, Untouched
<1>4. WonBy' /\ OneEach' /\ Single' /\ Whole'
  BY DEF Orders, WonBy, OneEach, Single, Whole
<1>5. Booking'
  <2> SUFFICES ASSUME NEW r \in Request PROVE Booked(r)'
    BY DEF Booking
  <2>1. Booked(r)
    BY DEF Orders, Booking
  <2> QED  BY <1>2, <2>1 DEF Booked, InFull, LeftOut, KeyTaken
<1> QED  BY <1>3, <1>4, <1>5 DEF Orders

LEMMA OrdersRedeemed ==
  ASSUME Typed, Orders, NEW r \in Request, Redeem(r)
  PROVE  Orders'
<1>1. PICK c \in Cheque, msc \in Terms(r) :
        /\ status[c] = "ACTIVE" /\ ~Taken(r)
        /\ by' = [by EXCEPT ![c] = r]
        /\ won' = [won EXCEPT ![r] = Split(msc, AmountOf[c])]
  BY DEF Redeem, Found, Active, Refused
<1> DEFINE split == Split(msc, AmountOf[c])
<1>2. split # Nothing /\ split.klik + split.agent + split.net = AmountOf[c]
  BY TermsAreAgreements, SplitAddsUp DEF Typed
<1> HIDE DEF split
<1>3. /\ UNCHANGED <<entry, logged>> /\ at[r] = "lock" /\ at'[r] = "book"
      /\ \A q \in Request : q # r => at'[q] = at[q]
  BY DEF Redeem, Advance, Typed, TypeOK
<1>4. won[r] = Nothing /\ entry[r] = Nothing
  BY <1>3 DEF Orders, Untouched, Early
<1>5. by[c] = NoRequest
  BY <1>1 DEF Typed, Linked, Closed
<1>6. /\ by'[c] = r /\ \A d \in Cheque : d # c => by'[d] = by[d]
      /\ won'[r] = split /\ \A q \in Request : q # r => won'[q] = won[q]
  BY <1>1 DEF split, Typed, TypeOK
<1>7. \A d \in Cheque : by[d] # r
  BY <1>4 DEF Orders, WonBy
<1>8. \A d \in Cheque : by[d] \in Request \cup {NoRequest}
  BY DEF Typed, TypeOK
<1>9. Untouched'
  <2>1. "book" \notin Early
    BY DEF Early, Refusals
  <2> SUFFICES ASSUME NEW q \in Request, at'[q] \in Early
               PROVE  won'[q] = Nothing /\ entry'[q] = Nothing
    BY DEF Untouched
  <2>2. q # r /\ at[q] \in Early
    BY <1>3, <2>1
  <2> QED  BY <1>3, <1>6, <2>2 DEF Orders, Untouched
<1>10. WonBy'
  <2> SUFFICES ASSUME NEW d \in Cheque, by'[d] # NoRequest
               PROVE  won'[by'[d]] # Nothing
    BY DEF WonBy
  <2>1. CASE d = c
    BY <1>2, <1>6, <2>1
  <2>2. CASE d # c
    <3>1. by'[d] = by[d] /\ by[d] # NoRequest /\ by[d] # r /\ by[d] \in Request
      BY <1>6, <1>7, <1>8, <2>2
    <3>2. won[by[d]] # Nothing /\ won'[by[d]] = won[by[d]]
      BY <1>6, <3>1 DEF Orders, WonBy
    <3> QED  BY <3>1, <3>2
  <2> QED  BY <2>1, <2>2
<1>11. OneEach'
  BY <1>6, <1>7 DEF Orders, OneEach
<1>12. Single'
  <2> SUFFICES ASSUME NEW p \in Request, NEW q \in Request, won'[p] # Nothing,
                      won'[q] # Nothing, SameOrder(p, q)
               PROVE  p = q
    BY DEF Single
  <2>1. \A s \in Request : won[s] # Nothing => ~SameOrder(s, r)
    BY <1>1 DEF Taken
  <2>2. SameOrder(q, p)
    BY DEF SameOrder
  <2> QED  BY <1>6, <2>1, <2>2 DEF Orders, Single
<1>13. Whole'
  <2> SUFFICES ASSUME NEW q \in Request, won'[q] # Nothing
               PROVE  \E d \in Cheque :
                        by'[d] = q /\ won'[q].klik + won'[q].agent + won'[q].net = AmountOf[d]
    BY DEF Whole
  <2>1. CASE q = r
    BY <1>2, <1>6, <2>1
  <2>2. CASE q # r
    <3>1. won[q] # Nothing /\ won'[q] = won[q]
      BY <1>6, <2>2
    <3>2. PICK d \in Cheque :
            by[d] = q /\ won[q].klik + won[q].agent + won[q].net = AmountOf[d]
      BY <3>1 DEF Orders, Whole
    <3>3. d # c
      BY <1>5, <3>2
    <3> QED  BY <1>6, <3>1, <3>2, <3>3
  <2> QED  BY <2>1, <2>2
<1>14. Booking'
  <2> SUFFICES ASSUME NEW q \in Request PROVE Booked(q)'
    BY DEF Booking
  <2>1. CASE q = r
    BY <1>3, <1>4, <2>1 DEF Booked, Settled
  <2>2. CASE q # r
    <3>1. Booked(q) /\ at'[q] = at[q] /\ won'[q] = won[q]
      BY <1>3, <1>6, <2>2 DEF Orders, Booking
    <3>2. \A d \in Cheque : by'[d] = q => by[d] = q
      BY <1>6, <2>2
    <3> QED  BY <1>3, <3>1, <3>2 DEF Booked, InFull, LeftOut, KeyTaken
  <2> QED  BY <2>1, <2>2
<1> QED  BY <1>9, <1>10, <1>11, <1>12, <1>13, <1>14 DEF Orders

(* The booking of a request succeeds, or fails: others are not concerned,  *)
(* except that they may find the entries.                                  *)
LEMMA OrdersBooked ==
  ASSUME Typed, Orders, NEW r \in Request,
         UNCHANGED <<by, won>>, logged \subseteq logged',
         at[r] \in {"book", "insert"}, at' = [at EXCEPT ![r] = "announce"],
         \A q \in Request : q # r => entry'[q] = entry[q] /\ (q \in logged' => q \in logged),
         \A c \in Cheque : by[c] = r => (InFull(r, c) \/ LeftOut(r))'
  PROVE  Orders'
<1>1. at'[r] = "announce" /\ \A q \in Request : q # r => at'[q] = at[q]
  BY DEF Typed, TypeOK
<1>2. entry[r] = Nothing
  BY DEF Orders, Booking, Booked
<1>3. WonBy' /\ OneEach' /\ Single' /\ Whole'
  BY DEF Orders, WonBy, OneEach, Single, Whole
<1>4. Untouched'
  <2>1. "announce" \notin Early
    BY DEF Early, Refusals
  <2> QED  BY <1>1, <2>1 DEF Orders, Untouched
<1>5. Booked(r)'
  BY <1>1 DEF Booked
<1>6. ASSUME NEW q \in Request, q # r PROVE Booked(q)'
  <2>1. Booked(q) /\ at'[q] = at[q] /\ entry'[q] = entry[q] /\ (q \in logged => q \in logged')
    BY <1>1, <1>6 DEF Orders, Booking
  <2>2. KeyTaken(q) => KeyTaken(q)'
    BY <1>2 DEF KeyTaken
  <2> QED  BY <2>1, <2>2 DEF Booked, InFull, LeftOut, Inside
<1> QED  BY <1>3, <1>4, <1>5, <1>6 DEF Orders, Booking

(* What is inserted is the split of the redemption. *)
LEMMA BookedSplit ==
  ASSUME Typed, Orders, NEW r \in Request, Book(r)
  PROVE  Orders'
<1>1. /\ UNCHANGED <<by, won, logged>> /\ at[r] = "insert"
      /\ at' = [at EXCEPT ![r] = "announce"] /\ entry' = [entry EXCEPT ![r] = Legs(r)]
  BY DEF Book, Advance
<1>2. entry'[r] = Legs(r) /\ \A q \in Request : q # r => entry'[q] = entry[q]
  BY <1>1 DEF Typed, TypeOK
<1>3. ASSUME NEW c \in Cheque, by[c] = r PROVE InFull(r, c)'
  <2>1. c = ChequeOf(r)
    <3>1. ChequeOf(r) \in Cheque /\ by[ChequeOf(r)] = r
      BY <1>3, ItsCheque
    <3> QED  BY <1>3, <3>1 DEF Orders, OneEach
  <2>2. OnUs(r) <=> Inside(r, c)
    BY <2>1 DEF OnUs, Inside
  <2>3. won[r] \in Shares
    BY DEF Typed, TypeOK
  <2>4. /\ entry'[r].klik = won[r].klik /\ entry'[r].agent = won[r].agent
        /\ Inside(r, c) \/ entry'[r].net = won[r].net
    BY <1>2, <2>2, <2>3 DEF Legs, Shares
  <2> QED  BY <1>1, <2>4 DEF InFull, Inside
<1> QED  BY <1>1, <1>2, <1>3, OrdersBooked

(* The log has the exception, and the ledger nothing. *)
LEMMA BookingLogged ==
  ASSUME Typed, Orders, NEW r \in Request, BookingFails(r)
  PROVE  Orders'
<1>1. /\ UNCHANGED <<by, won, entry>> /\ at[r] \in {"book", "insert"}
      /\ at' = [at EXCEPT ![r] = "announce"] /\ logged' = logged \cup {r}
  BY DEF BookingFails, Advance
<1>2. entry[r] = Nothing
  BY <1>1 DEF Orders, Booking, Booked
<1>3. LeftOut(r)'
  BY <1>1, <1>2 DEF LeftOut
<1> QED  BY <1>1, <1>3, OrdersBooked

(* Where entries are found, they are another request's. *)
LEMMA EntriesFound ==
  ASSUME Typed, Orders, NEW r \in Request, LookForEntries(r)
  PROVE  Orders'
<1>1. /\ UNCHANGED <<by, won, entry, logged>> /\ at[r] = "book"
      /\ at' = [at EXCEPT ![r] = IF RefUsed(r) THEN "announce" ELSE "insert"]
  BY DEF LookForEntries, Advance
<1>2. CASE RefUsed(r)
  <2>1. entry[r] = Nothing
    BY <1>1 DEF Orders, Booking, Booked
  <2>2. KeyTaken(r)
    BY <1>2, <2>1 DEF RefUsed, KeyTaken
  <2>3. LeftOut(r)'
    BY <1>1, <2>1, <2>2 DEF LeftOut, KeyTaken
  <2> QED  BY <1>1, <1>2, <2>3, OrdersBooked
<1>3. CASE ~RefUsed(r)
  <2>1. at'[r] = "insert" /\ \A q \in Request : q # r => at'[q] = at[q]
    BY <1>1, <1>3 DEF Typed, TypeOK
  <2> QED  BY <1>1, <2>1, OrdersKept
<1> QED  BY <1>2, <1>3

LEMMA OrdersStep == Typed /\ Orders /\ [Next]_vars => Orders'
<1> SUFFICES ASSUME Typed, Orders, [Next]_vars PROVE Orders'
  OBVIOUS
<1>1. ASSUME NEW r \in Request,
             \/ Receive(r) \/ FoundExpired(r) \/ NotRedeemed(r)
             \/ Announce(r) \/ Remember(r) \/ CrashRequest(r)
      PROVE  Orders'
  <2>1. UNCHANGED <<by, won, entry, logged>>
    BY <1>1 DEF Receive, FoundExpired, NotRedeemed, Announce, Remember, CrashRequest
  <2>2. /\ \A q \in Request : q # r => at'[q] = at[q]
        /\ \/ at[r] \in Early /\ at'[r] \in Early
           \/ at[r] \in Settled /\ at'[r] \in Settled
           \/ at'[r] = "dead"
    BY <1>1
    DEF Receive, FoundExpired, NotRedeemed, Announce, Remember, CrashRequest, Advance, Typed,
        TypeOK, Early, Settled, Refusals
  <2> QED  BY <2>1, <2>2, OrdersKept
<1>2. ASSUME UNCHANGED <<by, redeeming>> PROVE Orders'
  BY <1>2, OrdersKept DEF redeeming
<1>3. ASSUME NEW c \in Cheque,
             \/ OrderCheque(c) \/ HoldMoney(c) \/ AskCancel(c) \/ CancelAnswered(c)
             \/ \E n \in Code : DrawCode(c, n)
             \/ InsertCheque(c) \/ CrashIssue(c) \/ Lapse(c)
             \/ Cancel(c) \/ AnnounceCancelled(c) \/ CrashCancel(c)
             \/ Expire(c) \/ AnnounceExpired(c) \/ CrashSweep(c)
      PROVE  Orders'
  <2>1. UNCHANGED <<by, redeeming>>
    BY <1>3
    DEF OrderCheque, HoldMoney, AskCancel, CancelAnswered, DrawCode, InsertCheque, CrashIssue,
        Lapse, Cancel, AnnounceCancelled, CrashCancel, Expire, AnnounceExpired, CrashSweep
  <2> QED  BY <1>2, <2>1
<1>4. CASE \/ \E call \in waiting : GiveUp(call)
           \/ \E a \in Agent : ChangeTerms(a)
           \/ \E n \in note : Notify(n) \/ NotifyFails(n)
           \/ UNCHANGED vars
  <2>1. UNCHANGED <<by, redeeming>>
    BY <1>4 DEF GiveUp, ChangeTerms, Notify, NotifyFails, vars
  <2> QED  BY <1>2, <2>1
<1> QED  BY <1>1, <1>3, <1>4, OrdersRedeemed, BookedSplit, BookingLogged,
          EntriesFound DEF Next

LEMMA InitOrders == Init => Orders
BY DEF Init, Orders, Untouched, WonBy, OneEach, Single, Whole, Booking, Booked, Settled

LEMMA OrdersHold == Spec => [](Typed /\ Orders)
BY InitType, StepType, InitOrders, OrdersStep, PTL DEF Spec

(* One cheque for all the requests of an agent under one key               *)
(* (tx_unique_agent_idempotency, in the transaction of the redemption).    *)
THEOREM OrdersGetOneCheque == Spec => []OneChequePerOrder
<1>1. Typed /\ Orders => OneChequePerOrder
  <2> SUFFICES ASSUME Typed, Orders, NEW c \in Cheque, NEW d \in Cheque,
                      by[c] # NoRequest, by[d] # NoRequest, SameOrder(by[c], by[d])
               PROVE  c = d
    BY DEF OneChequePerOrder
  <2>1. by[c] \in Request /\ by[d] \in Request
    BY DEF Typed, TypeOK
  <2>2. won[by[c]] # Nothing /\ won[by[d]] # Nothing
    BY DEF Orders, WonBy
  <2>3. by[c] = by[d]
    BY <2>1, <2>2 DEF Orders, Single
  <2> QED  BY <2>3 DEF Orders, OneEach
<1> QED  BY <1>1, OrdersHold, PTL

(* A transaction is of the whole of its own, REDEEMED cheque               *)
(* (ChequeRedeemView.post writes both under the lock of the cheque).       *)
THEOREM MerchantsGetTheCheque == Spec => []PaidFromItsCheque
<1>1. Typed /\ Orders => PaidFromItsCheque
  <2> SUFFICES ASSUME Typed, Orders, NEW r \in Request, won[r] # Nothing
               PROVE  \E c \in Cheque :
                        /\ by[c] = r /\ status[c] = "REDEEMED"
                        /\ won[r].klik + won[r].agent + won[r].net = AmountOf[c]
    BY DEF PaidFromItsCheque
  <2>1. PICK c \in Cheque :
          by[c] = r /\ won[r].klik + won[r].agent + won[r].net = AmountOf[c]
    BY DEF Orders, Whole
  <2>2. status[c] = "REDEEMED"
    BY <2>1 DEF Typed, Linked, Closed
  <2> QED  BY <2>1, <2>2
<1> QED  BY <1>1, OrdersHold, PTL

(* Whatever becomes of the call that books it (record_c2b_transaction, after *)
(* the commit, with its exceptions swallowed), a redeemed cheque is booked   *)
(* in full when it is announced and answered; or nothing of it is, and the  *)
(* log says so or the ledger had entries of another agent's request.        *)
THEOREM AnswersAreBooked == Spec => []AnsweredIsBooked
<1>1. Typed /\ Orders => AnsweredIsBooked
  <2> SUFFICES ASSUME Typed, Orders, NEW r \in Request, at[r] \in Settled
               PROVE  \/ BookedInFull(r)
                      \/ /\ entry[r] = Nothing
                         /\ \/ r \in logged
                            \/ \E q \in Request \ {r} :
                                 entry[q] # Nothing /\ KeyOf[q] = KeyOf[r]
    BY DEF AnsweredIsBooked, Settled
  <2> DEFINE c == ChequeOf(r)
  <2>1. c \in Cheque /\ by[c] = r
    BY ItsCheque DEF Typed, Linked, Owner, Winning, Settled
  <2>2. InFull(r, c) \/ LeftOut(r)
    BY <2>1 DEF Orders, Booking, Booked
  <2> QED
    BY <2>2 DEF InFull, LeftOut, KeyTaken, Inside, BookedInFull, OnUs
<1> QED  BY <1>1, OrdersHold, PTL

-----------------------------------------------------------------------------
(* Money that is given back *)

(* What a request saw of the clock was true, and what it redeemed had not  *)
(* expired in its eyes.                                                    *)
Seen  == \A r \in Request : seen[r] \subseteq due
Alive == \A c \in Cheque : by[c] # NoRequest => c \notin seen[by[c]]
Taker == \A c \in Cheque : status[c] = "REDEEMED" => by[c] # NoRequest
Clock == Seen /\ Alive /\ Taker

FoundDead(c) == \E r \in Request : at[r] = "expired" /\ c \in seen[r]

(* A cheque may be said to have ended in this way. *)
Ended(c, news) ==
  \/ status[c] = news
  \/ news = "EXPIRED" /\ c \in due /\ FoundDead(c)

Noted     == \A n \in note : n.news # "REDEEMED" => Ended(n.cheque, n.news)
Cancelled == \A c \in Cheque : cancel[c] = "announce" => status[c] = "CANCELLED"
Swept     == \A c \in swept : status[c] = "EXPIRED"
Told      == Noted /\ Cancelled /\ Swept

GivenBack(c) == Ended(c, "CANCELLED") \/ Ended(c, "EXPIRED")

Money(c) ==
  /\ issue[c] \in {"idle", "draw", "insert", "reply"} => local[c] = "none"
  /\ <<"cancel", c>> \in waiting => local[c] # "none"
  /\ local[c] = "none" => debit[c] = 0
  /\ local[c] = "ACTIVE" => debit[c] = AmountOf[c]
  /\ local[c] # "none" /\ debit[c] = 0 => GivenBack(c)

Moneys == \A c \in Cheque : Money(c)

(* The status of a cheque moves once after it is ACTIVE. *)
LEMMA StatusMoves ==
  ASSUME Typed, [Next]_vars, NEW c \in Cheque
  PROVE  \/ status'[c] = status[c]
         \/ status[c] = "none" /\ status'[c] = "ACTIVE"
         \/ status[c] = "ACTIVE" /\ status'[c] \in {"CANCELLED", "EXPIRED"}
         \/ status[c] = "ACTIVE" /\ by'[c] # NoRequest
<1>1. status \in [Cheque -> Statuses] /\ by \in [Cheque -> Request \cup {NoRequest}]
  BY DEF Typed, TypeOK
<1>2. ASSUME NEW r \in Request, Redeem(r)
      PROVE  \/ status'[c] = status[c]
             \/ status[c] = "ACTIVE" /\ by'[c] # NoRequest
  <2>1. PICK d \in Cheque : /\ status[d] = "ACTIVE" /\ by' = [by EXCEPT ![d] = r]
                            /\ status' = [status EXCEPT ![d] = "REDEEMED"]
    BY <1>2 DEF Redeem, Found, Active
  <2>2. CASE d = c
    BY <1>1, <2>1, <2>2
  <2>3. CASE d # c
    BY <1>1, <2>1, <2>3
  <2> QED  BY <2>2, <2>3
<1>3. ASSUME NEW d \in Cheque, InsertCheque(d)
      PROVE  \/ status'[c] = status[c]
             \/ status[c] = "none" /\ status'[c] = "ACTIVE"
  <2>1. status[d] = "none" /\ status' = [status EXCEPT ![d] = "ACTIVE"]
    BY <1>3 DEF InsertCheque, Typed, Linked, Fresh
  <2> QED  BY <1>1, <2>1
<1>4. ASSUME NEW d \in Cheque, Cancel(d) \/ Expire(d)
      PROVE  \/ status'[c] = status[c]
             \/ status[c] = "ACTIVE" /\ status'[c] \in {"CANCELLED", "EXPIRED"}
  BY <1>1, <1>4 DEF Cancel, Expire, StillActive
<1>5. ASSUME NEW d \in Cheque,
             \/ OrderCheque(d) \/ HoldMoney(d) \/ AskCancel(d) \/ CancelAnswered(d)
             \/ \E n \in Code : DrawCode(d, n)
             \/ CrashIssue(d) \/ Lapse(d) \/ AnnounceCancelled(d) \/ CrashCancel(d)
             \/ AnnounceExpired(d) \/ CrashSweep(d)
      PROVE  UNCHANGED status
  BY <1>5
  DEF OrderCheque, HoldMoney, AskCancel, CancelAnswered, DrawCode, CrashIssue, Lapse,
      AnnounceCancelled, CrashCancel, AnnounceExpired, CrashSweep
<1>6. ASSUME NEW r \in Request,
             \/ Receive(r) \/ FoundExpired(r) \/ NotRedeemed(r)
             \/ LookForEntries(r) \/ Book(r) \/ BookingFails(r)
             \/ Announce(r) \/ Remember(r) \/ CrashRequest(r)
      PROVE  UNCHANGED status
  BY <1>6 DEF Receive, FoundExpired, NotRedeemed, LookForEntries, Book, BookingFails, Announce,
              Remember, CrashRequest
<1>7. CASE \/ \E call \in waiting : GiveUp(call)
           \/ \E a \in Agent : ChangeTerms(a)
           \/ \E n \in note : Notify(n) \/ NotifyFails(n)
           \/ UNCHANGED vars
  BY <1>7 DEF GiveUp, ChangeTerms, Notify, NotifyFails, vars
<1> QED  BY <1>2, <1>3, <1>4, <1>5, <1>6, <1>7 DEF Next

(* Time goes on, and a request that has found a cheque expired stays so. *)
LEMMA ClockMoves ==
  ASSUME Typed, [Next]_vars
  PROVE  /\ due \subseteq due'
         /\ \A r \in Request : /\ at[r] = "expired" => at'[r] = "expired"
                               /\ seen'[r] # seen[r] => at[r] = "idle" /\ seen'[r] = due
<1>1. ASSUME NEW r \in Request,
             \/ Receive(r) \/ FoundExpired(r) \/ NotRedeemed(r) \/ Redeem(r)
             \/ LookForEntries(r) \/ Book(r) \/ BookingFails(r)
             \/ Announce(r) \/ Remember(r) \/ CrashRequest(r)
      PROVE  /\ UNCHANGED due
             /\ \A q \in Request :
                  /\ at[q] = "expired" => at'[q] = "expired"
                  /\ seen'[q] # seen[q] => at[q] = "idle" /\ seen'[q] = due
  <2>1. at \in [Request -> {"idle", "lock", "book", "insert", "announce", "remember",
                            "answered", "replayed", "dead"} \cup Refusals]
        /\ seen \in [Request -> SUBSET Cheque]
    BY DEF Typed, TypeOK
  <2>2. UNCHANGED due
    BY <1>1
    DEF Receive, FoundExpired, NotRedeemed, Redeem, LookForEntries, Book, BookingFails,
        Announce, Remember, CrashRequest
  <2>3. at[r] # "expired" /\ \A q \in Request : q # r => at'[q] = at[q]
    BY <1>1, <2>1
    DEF Receive, FoundExpired, NotRedeemed, Redeem, LookForEntries, Book, BookingFails,
        Announce, Remember, CrashRequest, Advance
  <2>4. UNCHANGED seen \/ (at[r] = "idle" /\ seen' = [seen EXCEPT ![r] = due])
    BY <1>1
    DEF Receive, FoundExpired, NotRedeemed, Redeem, LookForEntries, Book, BookingFails,
        Announce, Remember, CrashRequest
  <2> QED  BY <2>1, <2>2, <2>3, <2>4
<1>2. ASSUME NEW c \in Cheque,
             \/ OrderCheque(c) \/ HoldMoney(c) \/ AskCancel(c) \/ CancelAnswered(c)
             \/ \E n \in Code : DrawCode(c, n)
             \/ InsertCheque(c) \/ CrashIssue(c) \/ Lapse(c)
             \/ Cancel(c) \/ AnnounceCancelled(c) \/ CrashCancel(c)
             \/ Expire(c) \/ AnnounceExpired(c) \/ CrashSweep(c)
      PROVE  due \subseteq due' /\ UNCHANGED <<at, seen>>
  BY <1>2
  DEF OrderCheque, HoldMoney, AskCancel, CancelAnswered, DrawCode, InsertCheque, CrashIssue,
      Lapse, Cancel, AnnounceCancelled, CrashCancel, Expire, AnnounceExpired, CrashSweep,
      redeeming
<1>3. CASE \/ \E call \in waiting : GiveUp(call)
           \/ \E a \in Agent : ChangeTerms(a)
           \/ \E n \in note : Notify(n) \/ NotifyFails(n)
           \/ UNCHANGED vars
  BY <1>3 DEF GiveUp, ChangeTerms, Notify, NotifyFails, vars, redeeming
<1> QED  BY <1>1, <1>2, <1>3 DEF Next

LEMMA EndStays ==
  ASSUME Typed, [Next]_vars, NEW c \in Cheque, NEW news \in {"CANCELLED", "EXPIRED"},
         Ended(c, news)
  PROVE  Ended(c, news)'
<1>1. CASE status[c] = news
  BY <1>1, StatusMoves DEF Ended
<1>2. CASE news = "EXPIRED" /\ c \in due /\ FoundDead(c)
  <2>1. PICK r \in Request : at[r] = "expired" /\ c \in seen[r]
    BY <1>2 DEF FoundDead
  <2>2. c \in due' /\ at'[r] = "expired" /\ seen'[r] = seen[r]
    BY <1>2, <2>1, ClockMoves
  <2> QED  BY <1>2, <2>1, <2>2 DEF Ended, FoundDead
<1> QED  BY <1>1, <1>2 DEF Ended

LEMMA ClockStep == Typed /\ Orders /\ Clock /\ [Next]_vars => Clock'
<1> SUFFICES ASSUME Typed, Orders, Clock, [Next]_vars PROVE Clock'
  OBVIOUS
<1>1. Seen'
  BY ClockMoves DEF Clock, Seen
<1>2. CASE \E r \in Request : Redeem(r)
  <2>1. PICK r \in Request, c \in Cheque :
          /\ c \notin seen[r] /\ UNCHANGED seen
          /\ by' = [by EXCEPT ![c] = r] /\ status' = [status EXCEPT ![c] = "REDEEMED"]
    BY <1>2 DEF Redeem, Found, Active
  <2>2. by'[c] = r /\ \A d \in Cheque : d # c => by'[d] = by[d] /\ status'[d] = status[d]
    BY <2>1 DEF Typed, TypeOK
  <2>3. Alive' /\ Taker'
    BY <2>1, <2>2 DEF Clock, Alive, Taker
  <2> QED  BY <1>1, <2>3 DEF Clock
<1>3. CASE UNCHANGED by
  <2>1. Taker'
    BY <1>3, StatusMoves DEF Clock, Taker
  <2>2. Alive'
    <3> SUFFICES ASSUME NEW c \in Cheque, by[c] # NoRequest
                 PROVE  c \notin seen'[by[c]]
      BY <1>3 DEF Alive
    <3>1. by[c] \in Request /\ won[by[c]] # Nothing
      BY DEF Typed, TypeOK, Orders, WonBy
    <3>2. at[by[c]] # "idle"
      BY <3>1 DEF Orders, Untouched, Early
    <3> QED  BY <3>1, <3>2, ClockMoves DEF Clock, Alive
  <2> QED  BY <1>1, <2>1, <2>2 DEF Clock
<1>4. UNCHANGED by \/ \E r \in Request : Redeem(r)
  <2>1. ASSUME NEW r \in Request,
               \/ Receive(r) \/ FoundExpired(r) \/ NotRedeemed(r)
               \/ LookForEntries(r) \/ Book(r) \/ BookingFails(r)
             \/ Announce(r) \/ Remember(r) \/ CrashRequest(r)
        PROVE  UNCHANGED by
    BY <2>1 DEF Receive, FoundExpired, NotRedeemed, LookForEntries, Book, BookingFails,
                Announce, Remember, CrashRequest
  <2>2. ASSUME NEW c \in Cheque,
               \/ OrderCheque(c) \/ HoldMoney(c) \/ AskCancel(c) \/ CancelAnswered(c)
               \/ \E n \in Code : DrawCode(c, n)
               \/ InsertCheque(c) \/ CrashIssue(c) \/ Lapse(c)
               \/ Cancel(c) \/ AnnounceCancelled(c) \/ CrashCancel(c)
               \/ Expire(c) \/ AnnounceExpired(c) \/ CrashSweep(c)
        PROVE  UNCHANGED by
    BY <2>2
    DEF OrderCheque, HoldMoney, AskCancel, CancelAnswered, DrawCode, InsertCheque, CrashIssue,
        Lapse, Cancel, AnnounceCancelled, CrashCancel, Expire, AnnounceExpired, CrashSweep
  <2>3. CASE \/ \E call \in waiting : GiveUp(call)
             \/ \E a \in Agent : ChangeTerms(a)
             \/ \E n \in note : Notify(n) \/ NotifyFails(n)
             \/ UNCHANGED vars
    BY <2>3 DEF GiveUp, ChangeTerms, Notify, NotifyFails, vars
  <2> QED  BY <2>1, <2>2, <2>3 DEF Next
<1> QED  BY <1>2, <1>3, <1>4

(* Every announcement is true when it is made, and stays so. *)
LEMMA ToldStep == Typed /\ Clock /\ Told /\ [Next]_vars => Told'
<1> SUFFICES ASSUME Typed, Clock, Told, [Next]_vars PROVE Told'
  OBVIOUS
<1>1. \A c \in Cheque : /\ status[c] = "CANCELLED" => status'[c] = "CANCELLED"
                        /\ status[c] = "EXPIRED" => status'[c] = "EXPIRED"
  BY StatusMoves
<1>2. \A n \in note : n.news # "REDEEMED" => Ended(n.cheque, n.news)'
  <2> SUFFICES ASSUME NEW n \in note, n.news # "REDEEMED"
               PROVE  Ended(n.cheque, n.news)'
    OBVIOUS
  <2>1. n.cheque \in Cheque /\ n.news \in {"CANCELLED", "EXPIRED"}
    BY DEF Typed, TypeOK, Note, Outcomes
  <2>2. Ended(n.cheque, n.news)
    BY DEF Told, Noted
  <2> QED  BY <2>1, <2>2, EndStays
<1>3. ASSUME NEW m, note' = note \cup {m}, m.news # "REDEEMED" => Ended(m.cheque, m.news)'
      PROVE  Noted'
  BY <1>2, <1>3 DEF Noted
<1>4. ASSUME note' \subseteq note PROVE Noted'
  BY <1>2, <1>4 DEF Noted
<1>5. \A c \in Cheque, news \in Outcomes : /\ Announcement(c, news).cheque = c
                                           /\ Announcement(c, news).news = news
  BY DEF Announcement
<1>6. {"REDEEMED", "CANCELLED", "EXPIRED"} \subseteq Outcomes
  BY DEF Outcomes
<1>7. ASSUME NEW r \in Request,
             \/ Receive(r) \/ FoundExpired(r) \/ NotRedeemed(r) \/ Redeem(r)
             \/ LookForEntries(r) \/ Book(r) \/ BookingFails(r)
             \/ Announce(r) \/ Remember(r) \/ CrashRequest(r)
      PROVE  Told'
  <2>1. UNCHANGED <<cancel, swept>>
    BY <1>7
    DEF Receive, FoundExpired, NotRedeemed, Redeem, LookForEntries, Book, BookingFails,
        Announce, Remember, CrashRequest
  <2>2. Cancelled' /\ Swept'
    <3>1. swept \subseteq Cheque
      BY DEF Typed, TypeOK
    <3> QED  BY <1>1, <2>1, <3>1 DEF Told, Cancelled, Swept
  <2>3. CASE FoundExpired(r)
    <3>1. PICK c \in Cheque : /\ c \in seen[r]
                              /\ note' = note \cup {Announcement(c, "EXPIRED")}
      BY <2>3 DEF FoundExpired, Found, Active
    <3>2. at'[r] = "expired" /\ seen' = seen /\ due' = due
      BY <2>3 DEF FoundExpired, Advance, Typed, TypeOK
    <3>3. c \in due
      BY <3>1 DEF Clock, Seen
    <3>4. FoundDead(c)'
      BY <3>1, <3>2 DEF FoundDead
    <3>5. Ended(c, "EXPIRED")'
      BY <3>2, <3>3, <3>4 DEF Ended
    <3> DEFINE m == Announcement(c, "EXPIRED")
    <3>6. m.cheque = c /\ m.news = "EXPIRED" /\ note' = note \cup {m}
      BY <1>5, <1>6, <3>1
    <3> HIDE DEF m
    <3>7. Noted'
      BY <1>3, <3>5, <3>6
    <3> QED  BY <2>2, <3>7 DEF Told
  <2>4. CASE Announce(r)
    <3> DEFINE m == Announcement(ChequeOf(r), "REDEEMED")
    <3>1. ChequeOf(r) \in Cheque
      BY <2>4, ItsCheque DEF Announce, Typed, Linked, Owner, Winning
    <3>2. m.news = "REDEEMED" /\ note' = note \cup {m}
      BY <1>5, <1>6, <2>4, <3>1 DEF Announce
    <3> HIDE DEF m
    <3>3. Noted'
      BY <1>3, <3>2
    <3> QED  BY <2>2, <3>3 DEF Told
  <2>5. CASE ~FoundExpired(r) /\ ~Announce(r)
    <3>1. note' \subseteq note
      BY <1>7, <2>5 DEF Receive, NotRedeemed, Redeem, LookForEntries, Book, BookingFails,
                        Remember, CrashRequest
    <3> QED  BY <1>4, <2>2, <3>1 DEF Told
  <2> QED  BY <2>3, <2>4, <2>5
<1>8. ASSUME NEW c \in Cheque,
             \/ OrderCheque(c) \/ HoldMoney(c) \/ AskCancel(c) \/ CancelAnswered(c)
             \/ \E n \in Code : DrawCode(c, n)
             \/ InsertCheque(c) \/ CrashIssue(c) \/ Lapse(c)
             \/ Cancel(c) \/ AnnounceCancelled(c) \/ CrashCancel(c)
             \/ Expire(c) \/ AnnounceExpired(c) \/ CrashSweep(c)
      PROVE  Told'
  <2>1. Cancelled'
    <3>1. \A d \in Cheque : cancel'[d] = "announce" =>
            cancel[d] = "announce" \/ status'[d] = "CANCELLED"
      BY <1>8
      DEF OrderCheque, HoldMoney, AskCancel, CancelAnswered, DrawCode, InsertCheque, CrashIssue,
          Lapse, Cancel, AnnounceCancelled, CrashCancel, Expire, AnnounceExpired, CrashSweep,
          Typed, TypeOK
    <3> QED  BY <1>1, <3>1 DEF Told, Cancelled
  <2>2. Swept'
    <3>1. swept \subseteq Cheque
      BY DEF Typed, TypeOK
    <3>2. swept' \subseteq swept \/ (swept' = swept \cup {c} /\ status'[c] = "EXPIRED")
      BY <1>8
      DEF OrderCheque, HoldMoney, AskCancel, CancelAnswered, DrawCode, InsertCheque, CrashIssue,
          Lapse, Cancel, AnnounceCancelled, CrashCancel, Expire, AnnounceExpired, CrashSweep,
          Typed, TypeOK
    <3> QED  BY <1>1, <3>1, <3>2 DEF Told, Swept
  <2>3. CASE AnnounceCancelled(c)
    <3> DEFINE m == Announcement(c, "CANCELLED")
    <3>1. Ended(c, "CANCELLED")'
      BY <1>1, <2>3 DEF AnnounceCancelled, Told, Cancelled, Ended
    <3>2. m.cheque = c /\ m.news = "CANCELLED" /\ note' = note \cup {m}
      BY <1>5, <1>6, <2>3 DEF AnnounceCancelled
    <3> HIDE DEF m
    <3>3. Noted'
      BY <1>3, <3>1, <3>2
    <3> QED  BY <2>1, <2>2, <3>3 DEF Told
  <2>4. CASE AnnounceExpired(c)
    <3> DEFINE m == Announcement(c, "EXPIRED")
    <3>1. Ended(c, "EXPIRED")'
      BY <1>1, <2>4 DEF AnnounceExpired, Told, Swept, Ended
    <3>2. m.cheque = c /\ m.news = "EXPIRED" /\ note' = note \cup {m}
      BY <1>5, <1>6, <2>4 DEF AnnounceExpired
    <3> HIDE DEF m
    <3>3. Noted'
      BY <1>3, <3>1, <3>2
    <3> QED  BY <2>1, <2>2, <3>3 DEF Told
  <2>5. CASE ~AnnounceCancelled(c) /\ ~AnnounceExpired(c)
    <3>1. note' \subseteq note
      BY <1>8, <2>5
      DEF OrderCheque, HoldMoney, AskCancel, CancelAnswered, DrawCode, InsertCheque, CrashIssue,
          Lapse, Cancel, CrashCancel, Expire, CrashSweep
    <3> QED  BY <1>4, <2>1, <2>2, <3>1 DEF Told
  <2> QED  BY <2>3, <2>4, <2>5
<1>9. CASE \/ \E call \in waiting : GiveUp(call)
           \/ \E a \in Agent : ChangeTerms(a)
           \/ \E n \in note : Notify(n) \/ NotifyFails(n)
           \/ UNCHANGED vars
  <2>1. UNCHANGED <<cancel, swept>>
    BY <1>9 DEF GiveUp, ChangeTerms, Notify, NotifyFails, vars
  <2>2. Cancelled' /\ Swept'
    <3>1. swept \subseteq Cheque
      BY DEF Typed, TypeOK
    <3> QED  BY <1>1, <2>1, <3>1 DEF Told, Cancelled, Swept
  <2>3. CASE note' \subseteq note
    BY <1>4, <2>2, <2>3 DEF Told
  <2>4. ASSUME NEW n \in note, Notify(n) \/ NotifyFails(n) PROVE Told'
    <3>1. note' \subseteq note \cup Again(n)
      BY <2>4 DEF Notify, NotifyFails
    <3>2. \A m \in Again(n) : m.cheque = n.cheque /\ m.news = n.news
      BY Repeated DEF Typed, TypeOK
    <3>3. Noted'
      BY <1>2, <3>1, <3>2 DEF Noted
    <3> QED  BY <2>2, <3>3 DEF Told
  <2>5. note' \subseteq note \/ \E n \in note : Notify(n) \/ NotifyFails(n)
    BY <1>9 DEF GiveUp, ChangeTerms, vars
  <2> QED  BY <2>3, <2>4, <2>5
<1> QED  BY <1>7, <1>8, <1>9 DEF Next

(* Given-back cheques keep the reason for which they were given back. *)
LEMMA BackStays ==
  ASSUME Typed, [Next]_vars, NEW c \in Cheque, GivenBack(c)
  PROVE  GivenBack(c)'
<1>1. CASE Ended(c, "CANCELLED")
  BY <1>1, EndStays DEF GivenBack
<1>2. CASE Ended(c, "EXPIRED")
  BY <1>2, EndStays DEF GivenBack
<1> QED  BY <1>1, <1>2 DEF GivenBack

(* What leaves the bank's own books alone. *)
LEMMA MoneyKept ==
  ASSUME Typed, [Next]_vars, NEW c \in Cheque, Money(c),
         local'[c] = local[c], debit'[c] = debit[c],
         issue'[c] \in {"idle", "draw", "insert", "reply"} =>
           issue[c] \in {"idle", "draw", "insert", "reply"},
         <<"cancel", c>> \in waiting' => <<"cancel", c>> \in waiting \/ local[c] # "none"
  PROVE  Money(c)'
BY BackStays DEF Money

LEMMA MoneyStep == Typed /\ Told /\ Moneys /\ [Next]_vars => Moneys'
<1> SUFFICES ASSUME Typed, Told, Moneys, [Next]_vars, NEW c \in Cheque
             PROVE  Money(c)'
  BY DEF Moneys
<1>1. /\ Money(c)
      /\ issue \in [Cheque -> {"idle", "draw", "insert", "reply", "done", "dead"}]
      /\ local \in [Cheque -> Statuses] /\ debit \in [Cheque -> Int]
      /\ AmountOf[c] \in Nat \ {0}
  BY DEF Moneys, Typed, TypeOK
<1>2. ASSUME NEW d \in Cheque,
             \/ OrderCheque(d) \/ AskCancel(d) \/ \E n \in Code : DrawCode(d, n)
             \/ InsertCheque(d) \/ CrashIssue(d) \/ Lapse(d)
             \/ Cancel(d) \/ AnnounceCancelled(d) \/ CrashCancel(d)
             \/ Expire(d) \/ AnnounceExpired(d) \/ CrashSweep(d)
      PROVE  Money(c)'
  <2>1. UNCHANGED <<local, debit>>
    BY <1>2
    DEF OrderCheque, AskCancel, DrawCode, InsertCheque, CrashIssue, Lapse, Cancel,
        AnnounceCancelled, CrashCancel, Expire, AnnounceExpired, CrashSweep, bank
  <2>2. issue'[c] \in {"idle", "draw", "insert", "reply"} =>
          issue[c] \in {"idle", "draw", "insert", "reply"}
    BY <1>1, <1>2
    DEF OrderCheque, AskCancel, DrawCode, InsertCheque, CrashIssue, Lapse, Cancel,
        AnnounceCancelled, CrashCancel, Expire, AnnounceExpired, CrashSweep, issuing
  <2>3. <<"cancel", c>> \in waiting' => <<"cancel", c>> \in waiting \/ local[c] # "none"
    <3>1. <<"issue", d>> # <<"cancel", c>>
      OBVIOUS
    <3>2. AskCancel(d) => local[d] = "ACTIVE" /\ waiting' = waiting \cup {<<"cancel", d>>}
      BY DEF AskCancel
    <3>3. <<"cancel", c>> = <<"cancel", d>> => c = d
      OBVIOUS
    <3>4. AskCancel(d) \/ waiting' \subseteq waiting \cup {<<"issue", d>>}
      BY <1>2
      DEF OrderCheque, DrawCode, InsertCheque, CrashIssue, Lapse, Cancel,
          AnnounceCancelled, CrashCancel, Expire, AnnounceExpired, CrashSweep, bank
    <3> QED  BY <3>1, <3>2, <3>3, <3>4
  <2> QED  BY <1>1, <2>1, <2>2, <2>3, MoneyKept
<1>3. ASSUME NEW d \in Cheque, HoldMoney(d) PROVE Money(c)'
  <2>1. /\ waiting' \subseteq waiting /\ issue[d] = "reply"
        /\ issue' = [issue EXCEPT ![d] = "done"]
        /\ local' = [local EXCEPT ![d] = "ACTIVE"]
        /\ debit' = [debit EXCEPT ![d] = debit[d] + AmountOf[d]]
    BY <1>3 DEF HoldMoney
  <2>2. CASE c # d
    <3>1. local'[c] = local[c] /\ debit'[c] = debit[c] /\ issue'[c] = issue[c]
      BY <1>1, <2>1, <2>2
    <3> QED  BY <1>1, <2>1, <3>1, MoneyKept
  <2>3. CASE c = d
    <3>1. local[c] = "none" /\ debit[c] = 0
      BY <1>1, <2>1, <2>3 DEF Money
    <3>2. issue'[c] = "done" /\ local'[c] = "ACTIVE" /\ debit'[c] = AmountOf[c]
      BY <1>1, <2>1, <2>3, <3>1
    <3> QED  BY <1>1, <3>2 DEF Money
  <2> QED  BY <2>2, <2>3
<1>4. ASSUME NEW d \in Cheque, CancelAnswered(d) PROVE Money(c)'
  <2>1. /\ waiting' \subseteq waiting /\ <<"cancel", d>> \in waiting
        /\ UNCHANGED <<issue, debit>>
        /\ UNCHANGED local \/ local' = [local EXCEPT ![d] = "CANCELLED"]
    BY <1>4 DEF CancelAnswered, issuing
  <2>2. CASE local'[c] = local[c]
    BY <1>1, <2>1, <2>2, MoneyKept
  <2>3. CASE local'[c] # local[c]
    <3>1. c = d /\ local'[c] = "CANCELLED" /\ local[c] # "none"
      BY <1>1, <2>1, <2>3 DEF Money
    <3>2. debit[c] = 0 => GivenBack(c)'
      BY <1>1, <3>1, BackStays DEF Money
    <3> QED  BY <1>1, <2>1, <3>1, <3>2 DEF Money
  <2> QED  BY <2>2, <2>3
<1>5. ASSUME NEW n \in note, Notify(n) PROVE Money(c)'
  <2> DEFINE d == n.cheque
  <2>1. d \in Cheque /\ n.news \in Outcomes
    BY DEF Typed, TypeOK, Note
  <2>2. UNCHANGED <<issue, waiting>>
    BY <1>5 DEF Notify, issuing
  <2>3. CASE ~Paid(n) /\ ~Released(n)
    <3>1. UNCHANGED <<local, debit>>
      BY <1>5, <2>3 DEF Notify
    <3> QED  BY <1>1, <2>2, <3>1, MoneyKept
  <2>4. CASE Paid(n)
    <3>1. /\ local[d] # "none" /\ n.news = "REDEEMED" /\ UNCHANGED debit
          /\ local' = [local EXCEPT ![d] = "REDEEMED"]
      BY <1>5, <2>4 DEF Notify, Paid, Released
    <3>2. CASE c # d
      <4>1. local'[c] = local[c]
        BY <1>1, <3>1, <3>2
      <4> QED  BY <1>1, <2>2, <3>1, <4>1, MoneyKept
    <3>3. CASE c = d
      <4>1. local'[c] = "REDEEMED" /\ local[c] # "none"
        BY <1>1, <3>1, <3>3
      <4>2. debit[c] = 0 => GivenBack(c)'
        BY <1>1, <4>1, BackStays DEF Money
      <4> QED  BY <1>1, <2>2, <3>1, <4>1, <4>2 DEF Money
    <3> QED  BY <3>2, <3>3
  <2>5. CASE Released(n)
    <3>1. /\ local[d] = "ACTIVE" /\ n.news # "REDEEMED"
          /\ local' = [local EXCEPT ![d] = n.news]
          /\ debit' = [debit EXCEPT ![d] = debit[d] - AmountOf[d]]
      BY <1>5, <2>5 DEF Notify, Released
    <3>2. CASE c # d
      <4>1. local'[c] = local[c] /\ debit'[c] = debit[c]
        BY <1>1, <3>1, <3>2
      <4> QED  BY <1>1, <2>2, <4>1, MoneyKept
    <3>3. CASE c = d
      <4>1. n.news \in {"CANCELLED", "EXPIRED"} /\ local'[c] = n.news
        BY <1>1, <2>1, <3>1, <3>3 DEF Outcomes
      <4>2. Ended(c, n.news)'
        BY <3>1, <3>3, <4>1, EndStays DEF Told, Noted
      <4>3. GivenBack(c)'
        BY <4>1, <4>2 DEF GivenBack
      <4>4. issue'[c] \notin {"idle", "draw", "insert", "reply"}
        BY <1>1, <2>2, <3>1, <3>3 DEF Money
      <4> QED  BY <4>1, <4>3, <4>4 DEF Money
    <3> QED  BY <3>2, <3>3
  <2> QED  BY <2>3, <2>4, <2>5
<1>6. ASSUME NEW r \in Request,
             \/ Receive(r) \/ FoundExpired(r) \/ NotRedeemed(r) \/ Redeem(r)
             \/ LookForEntries(r) \/ Book(r) \/ BookingFails(r)
             \/ Announce(r) \/ Remember(r) \/ CrashRequest(r)
      PROVE  Money(c)'
  <2>1. UNCHANGED <<issue, waiting, local, debit>>
    BY <1>6
    DEF Receive, FoundExpired, NotRedeemed, Redeem, LookForEntries, Book, BookingFails,
        Announce, Remember, CrashRequest, issuing, bank
  <2> QED  BY <1>1, <2>1, MoneyKept
<1>7. CASE \/ \E call \in waiting : GiveUp(call)
           \/ \E a \in Agent : ChangeTerms(a)
           \/ \E n \in note : NotifyFails(n)
           \/ UNCHANGED vars
  <2>1. UNCHANGED <<issue, local, debit>> /\ waiting' \subseteq waiting
    BY <1>7 DEF GiveUp, ChangeTerms, NotifyFails, vars, issuing, bank
  <2> QED  BY <1>1, <2>1, MoneyKept
<1> QED  BY <1>2, <1>3, <1>4, <1>5, <1>6, <1>7 DEF Next

(* The money of a cheque is given back for one of three reasons - it was   *)
(* cancelled, it was swept, or a request found it expired under its lock - *)
(* and only the last leaves it redeemable, to a request whose clock is     *)
(* older (ChequeRedeemView.post reads the clock before the lock and rolls  *)
(* EXPIRED back; webhook_cheque_released returns the money).               *)
THEOREM RefundsAreFinal == Spec => []RefundedNotRedeemed
<1>1. Init => Clock /\ Told /\ Moneys
  BY DEF Init, Clock, Seen, Alive, Taker, Told, Noted, Cancelled, Swept, Moneys, Money
<1>2. Typed /\ Orders /\ Clock /\ Told /\ Moneys /\ [Next]_vars =>
        Clock' /\ Told' /\ Moneys'
  BY ClockStep, ToldStep, MoneyStep
<1>3. Spec => [](Typed /\ Orders /\ Clock /\ Told /\ Moneys)
  BY <1>1, <1>2, InitType, StepType, InitOrders, OrdersStep, PTL DEF Spec
<1>4. Typed /\ Clock /\ Moneys => RefundedNotRedeemed
  <2> SUFFICES ASSUME Typed, Clock, Moneys, NEW c \in Cheque,
                      local[c] # "none", debit[c] = 0, status[c] = "REDEEMED"
               PROVE  /\ c \in due \ seen[by[c]]
                      /\ \E r \in Request : at[r] = "expired" /\ c \in seen[r]
    BY DEF RefundedNotRedeemed
  <2>1. GivenBack(c)
    BY DEF Moneys, Money
  <2>2. c \in due /\ FoundDead(c)
    BY <2>1 DEF GivenBack, Ended
  <2>3. c \notin seen[by[c]]
    BY DEF Clock, Alive, Taker
  <2> QED  BY <2>2, <2>3 DEF FoundDead
<1> QED  BY <1>3, <1>4, PTL

-----------------------------------------------------------------------------
(* The balance *)

(* While a bank's application waits for KLIK it does nothing else: the     *)
(* balance stays as it was when it was checked.                            *)
RowsFinite == \A b \in Bank : IsFiniteSet(HeldBy(b))
OneCall    == \A p, q \in waiting : BankOf[p[2]] = BankOf[q[2]] => p = q
Reserved   == \A c \in Cheque : <<"issue", c>> \in waiting => Covered(c)
Solvent    == \A b \in Bank : Balance(b) >= 0
FullAmount == \A c \in Cheque : debit[c] \in {0, AmountOf[c]}
Accounts   == RowsFinite /\ OneCall /\ Reserved /\ Solvent /\ FullAmount

(* The balance of a bank is a number. *)
LEMMA BalanceType ==
  ASSUME TypeOK, NEW b \in Bank, IsFiniteSet(HeldBy(b))
  PROVE  /\ SumFunctionOnSet(debit, HeldBy(b)) \in Int
         /\ Balance(b) \in Int
<1>1. SumFunctionOnSet(debit, HeldBy(b)) \in Int
  <2>1. \A c \in HeldBy(b) : debit[c] \in Int
    BY DEF TypeOK, HeldBy
  <2> QED  BY <2>1, SumType
<1> QED  BY <1>1 DEF Balance

(* How the books of a bank's application change: a new row takes money, a  *)
(* released one returns it, and nothing else moves any.                    *)
Takes(c) ==
  /\ local[c] = "none" /\ local' = [local EXCEPT ![c] = "ACTIVE"]
  /\ debit[c] = 0 /\ debit' = [debit EXCEPT ![c] = AmountOf[c]]

Returned(c) ==
  /\ \A d \in Cheque : local'[d] = "none" <=> local[d] = "none"
  /\ local[c] = "ACTIVE" /\ debit[c] = AmountOf[c]
  /\ debit' = [debit EXCEPT ![c] = 0]

Unmoved ==
  /\ \A d \in Cheque : local'[d] = "none" <=> local[d] = "none"
  /\ UNCHANGED debit

(* Money is taken only for a cheque whose call the bank waits for, and     *)
(* returned only while it waits for none.                                  *)
LEMMA BooksMove ==
  ASSUME Typed, Moneys, [Next]_vars
  PROVE  \/ \E c \in Cheque : Takes(c) /\ HoldMoney(c)
         \/ \E c \in Cheque : Returned(c) /\ ~Busy(BankOf[c])
         \/ Unmoved
<1>1. /\ \A c \in Cheque : Money(c)
      /\ local \in [Cheque -> Statuses] /\ debit \in [Cheque -> Int]
      /\ \A c \in Cheque : AmountOf[c] \in Nat \ {0}
  BY DEF Moneys, Typed, TypeOK
<1>2. ASSUME UNCHANGED <<local, debit>> PROVE Unmoved
  BY <1>2 DEF Unmoved
<1>3. ASSUME NEW c \in Cheque, HoldMoney(c) PROVE Takes(c)
  <2>1. /\ issue[c] = "reply" /\ local' = [local EXCEPT ![c] = "ACTIVE"]
        /\ debit' = [debit EXCEPT ![c] = debit[c] + AmountOf[c]]
    BY <1>3 DEF HoldMoney
  <2>2. local[c] = "none" /\ debit[c] = 0
    BY <1>1, <2>1 DEF Money
  <2>3. debit[c] + AmountOf[c] = AmountOf[c]
    BY <1>1, <2>2
  <2> QED  BY <2>1, <2>2, <2>3 DEF Takes
<1>4. ASSUME NEW c \in Cheque, CancelAnswered(c) PROVE Unmoved
  <2>1. /\ <<"cancel", c>> \in waiting /\ UNCHANGED debit
        /\ UNCHANGED local \/ local' = [local EXCEPT ![c] = "CANCELLED"]
    BY <1>4 DEF CancelAnswered
  <2>2. local[c] # "none"
    BY <1>1, <2>1 DEF Money
  <2> QED  BY <1>1, <2>1, <2>2 DEF Unmoved
<1>5. ASSUME NEW n \in note, Notify(n)
      PROVE  Unmoved \/ \E c \in Cheque : Returned(c) /\ ~Busy(BankOf[c])
  <2> DEFINE c == n.cheque
  <2>1. c \in Cheque /\ n.news \in Outcomes /\ ~Busy(BankOf[c])
    BY <1>5 DEF Typed, TypeOK, Note, Notify
  <2>2. /\ local' = IF Paid(n) \/ Released(n) THEN [local EXCEPT ![c] = n.news] ELSE local
        /\ debit' = IF Released(n) THEN [debit EXCEPT ![c] = debit[c] - AmountOf[c]] ELSE debit
    BY <1>5 DEF Notify
  <2>3. Paid(n) \/ Released(n) => local[c] # "none" /\ n.news # "none"
    BY <2>1 DEF Paid, Released, Outcomes
  <2>4. \A d \in Cheque : local'[d] = "none" <=> local[d] = "none"
    BY <1>1, <2>1, <2>2, <2>3
  <2>5. CASE Released(n)
    <3>1. local[c] = "ACTIVE" /\ debit[c] = AmountOf[c]
      BY <1>1, <2>1, <2>5 DEF Released, Money
    <3>2. debit[c] - AmountOf[c] = 0
      BY <1>1, <2>1, <3>1
    <3> QED  BY <2>1, <2>2, <2>4, <2>5, <3>1, <3>2 DEF Returned
  <2>6. CASE ~Released(n)
    BY <2>2, <2>4, <2>6 DEF Unmoved
  <2> QED  BY <2>5, <2>6
<1>6. ASSUME NEW c \in Cheque,
             \/ OrderCheque(c) \/ AskCancel(c)
             \/ \E n \in Code : DrawCode(c, n)
             \/ InsertCheque(c) \/ CrashIssue(c) \/ Lapse(c)
             \/ Cancel(c) \/ AnnounceCancelled(c) \/ CrashCancel(c)
             \/ Expire(c) \/ AnnounceExpired(c) \/ CrashSweep(c)
      PROVE  UNCHANGED <<local, debit>>
  BY <1>6
  DEF OrderCheque, AskCancel, DrawCode, InsertCheque, CrashIssue, Lapse, Cancel,
      AnnounceCancelled, CrashCancel, Expire, AnnounceExpired, CrashSweep, bank
<1>7. ASSUME NEW r \in Request,
             \/ Receive(r) \/ FoundExpired(r) \/ NotRedeemed(r) \/ Redeem(r)
             \/ LookForEntries(r) \/ Book(r) \/ BookingFails(r)
             \/ Announce(r) \/ Remember(r) \/ CrashRequest(r)
      PROVE  UNCHANGED <<local, debit>>
  BY <1>7
  DEF Receive, FoundExpired, NotRedeemed, Redeem, LookForEntries, Book, BookingFails, Announce,
      Remember, CrashRequest, bank
<1>8. ASSUME \/ \E call \in waiting : GiveUp(call)
             \/ \E a \in Agent : ChangeTerms(a)
             \/ \E n \in note : NotifyFails(n)
             \/ UNCHANGED vars
      PROVE  UNCHANGED <<local, debit>>
  BY <1>8 DEF GiveUp, ChangeTerms, NotifyFails, vars, bank
<1> QED  BY <1>2, <1>3, <1>4, <1>5, <1>6, <1>7, <1>8 DEF Next

(* The application makes a call when it waits for none, and asks for a     *)
(* cheque only if the balance covers it.                                   *)
LEMMA CallsMove ==
  ASSUME Typed, [Next]_vars
  PROVE  \/ waiting' \subseteq waiting
         \/ \E c \in Cheque, kind \in {"issue", "cancel"} :
              /\ waiting' = waiting \cup {<<kind, c>>}
              /\ ~Busy(BankOf[c])
              /\ kind = "issue" => Covered(c)
              /\ UNCHANGED <<local, debit>>
<1>1. ASSUME NEW c \in Cheque, OrderCheque(c) \/ AskCancel(c)
      PROVE  \E d \in Cheque, kind \in {"issue", "cancel"} :
               /\ waiting' = waiting \cup {<<kind, d>>}
               /\ ~Busy(BankOf[d])
               /\ kind = "issue" => Covered(d)
               /\ UNCHANGED <<local, debit>>
  BY <1>1 DEF OrderCheque, AskCancel
<1>2. ASSUME NEW c \in Cheque,
             \/ HoldMoney(c) \/ CancelAnswered(c)
             \/ \E n \in Code : DrawCode(c, n)
             \/ InsertCheque(c) \/ CrashIssue(c) \/ Lapse(c)
             \/ Cancel(c) \/ AnnounceCancelled(c) \/ CrashCancel(c)
             \/ Expire(c) \/ AnnounceExpired(c) \/ CrashSweep(c)
      PROVE  waiting' \subseteq waiting
  BY <1>2
  DEF HoldMoney, CancelAnswered, DrawCode, InsertCheque, CrashIssue, Lapse, Cancel,
      AnnounceCancelled, CrashCancel, Expire, AnnounceExpired, CrashSweep, bank
<1>3. ASSUME NEW r \in Request,
             \/ Receive(r) \/ FoundExpired(r) \/ NotRedeemed(r) \/ Redeem(r)
             \/ LookForEntries(r) \/ Book(r) \/ BookingFails(r)
             \/ Announce(r) \/ Remember(r) \/ CrashRequest(r)
      PROVE  waiting' \subseteq waiting
  BY <1>3
  DEF Receive, FoundExpired, NotRedeemed, Redeem, LookForEntries, Book, BookingFails, Announce,
      Remember, CrashRequest, bank
<1>4. ASSUME \/ \E call \in waiting : GiveUp(call)
             \/ \E a \in Agent : ChangeTerms(a)
             \/ \E n \in note : Notify(n) \/ NotifyFails(n)
             \/ UNCHANGED vars
      PROVE  waiting' \subseteq waiting
  BY <1>4 DEF GiveUp, ChangeTerms, Notify, NotifyFails, vars, bank
<1> QED  BY <1>1, <1>2, <1>3, <1>4 DEF Next

(* What that means for the sums. *)
LEMMA TakenFromBalance ==
  ASSUME Typed, RowsFinite, NEW c \in Cheque, Takes(c), NEW b \in Bank
  PROVE  /\ IsFiniteSet(HeldBy(b)')
         /\ Balance(b)' = Balance(b) - (IF BankOf[c] = b THEN AmountOf[c] ELSE 0)
<1> DEFINE held == HeldBy(b)
           next == debit'
<1>1. /\ c \notin held /\ IsFiniteSet(held) /\ held \subseteq Cheque
      /\ \A d \in held : d # c /\ debit[d] \in Int /\ next[d] = debit[d]
      /\ next[c] = AmountOf[c] /\ AmountOf[c] \in Int
      /\ Funds[b] \in Int
  <2>1. /\ debit \in [Cheque -> Int] /\ debit' = [debit EXCEPT ![c] = AmountOf[c]]
        /\ local[c] = "none"
    BY DEF Takes, Typed, TypeOK
  <2>2. c \notin held /\ held \subseteq Cheque /\ IsFiniteSet(held)
    BY <2>1 DEF HeldBy, RowsFinite
  <2>3. AmountOf[c] \in Int /\ Funds[b] \in Int
    OBVIOUS
  <2> HIDE DEF held
  <2> QED  BY <2>1, <2>2, <2>3
<1>2. HeldBy(b)' = IF BankOf[c] = b THEN held \cup {c} ELSE held
  BY DEF Takes, HeldBy, Typed, TypeOK
<1>3. /\ SumFunctionOnSet(debit, held) \in Int
      /\ Balance(b) = Funds[b] - SumFunctionOnSet(debit, held)
      /\ Balance(b)' = Funds[b] - SumFunctionOnSet(next, HeldBy(b)')
  BY <1>1, BalanceType DEF Balance, Typed
<1> HIDE DEF held, next
<1>4. SumFunctionOnSet(next, held) = SumFunctionOnSet(debit, held)
  BY <1>1, SumSame
<1>5. SumFunctionOnSet(next, held \cup {c}) = SumFunctionOnSet(debit, held) + AmountOf[c]
  <2>1. \A d \in held \cup {c} : next[d] \in Int
    BY <1>1
  <2>2. SumFunctionOnSet(next, held \cup {c}) = SumFunctionOnSet(next, held) + next[c]
    BY <1>1, <2>1, SumAdd
  <2> QED  BY <1>1, <1>4, <2>2
<1>6. IsFiniteSet(held \cup {c})
  BY <1>1, FS_AddElement
<1> QED  BY <1>1, <1>2, <1>3, <1>4, <1>5, <1>6

LEMMA ReturnedToBalance ==
  ASSUME Typed, RowsFinite, NEW c \in Cheque, Returned(c), NEW b \in Bank
  PROVE  /\ HeldBy(b)' = HeldBy(b)
         /\ Balance(b)' = Balance(b) + (IF BankOf[c] = b THEN AmountOf[c] ELSE 0)
<1> DEFINE held == HeldBy(b)
           next == debit'
<1>1. /\ IsFiniteSet(held) /\ held \subseteq Cheque
      /\ \A d \in held : debit[d] \in Int /\ next[d] \in Int /\ (d # c => next[d] = debit[d])
      /\ next[c] = 0 /\ debit[c] = AmountOf[c] /\ AmountOf[c] \in Int
      /\ c \in held <=> BankOf[c] = b
      /\ Funds[b] \in Int
  <2>1. /\ debit \in [Cheque -> Int] /\ debit' = [debit EXCEPT ![c] = 0]
        /\ debit[c] = AmountOf[c] /\ local[c] = "ACTIVE"
    BY DEF Returned, Typed, TypeOK
  <2>2. held \subseteq Cheque /\ IsFiniteSet(held) /\ (c \in held <=> BankOf[c] = b)
    BY <2>1 DEF HeldBy, RowsFinite
  <2>3. AmountOf[c] \in Int /\ Funds[b] \in Int
    OBVIOUS
  <2> HIDE DEF held
  <2> QED  BY <2>1, <2>2, <2>3
<1>2. HeldBy(b)' = held
  BY DEF Returned, HeldBy
<1>3. /\ SumFunctionOnSet(debit, held) \in Int
      /\ Balance(b) = Funds[b] - SumFunctionOnSet(debit, held)
      /\ Balance(b)' = Funds[b] - SumFunctionOnSet(next, held)
  BY <1>1, <1>2, BalanceType DEF Balance, Typed
<1>4. HeldBy(b)' = HeldBy(b)
  BY <1>2
<1> HIDE DEF held, next
<1>5. CASE BankOf[c] = b
  <2>1. SumFunctionOnSet(next, held) = SumFunctionOnSet(debit, held) + (next[c] - debit[c])
    BY <1>1, <1>5, SumReplace
  <2> QED  BY <1>1, <1>3, <1>4, <1>5, <2>1
<1>6. CASE BankOf[c] # b
  <2>1. \A d \in held : next[d] = debit[d]
    BY <1>1, <1>6
  <2>2. SumFunctionOnSet(next, held) = SumFunctionOnSet(debit, held)
    BY <1>1, <2>1, SumSame
  <2> QED  BY <1>1, <1>3, <1>4, <1>6, <2>2
<1> QED  BY <1>5, <1>6

LEMMA UnmovedBalance ==
  ASSUME Unmoved, NEW b \in Bank
  PROVE  HeldBy(b)' = HeldBy(b) /\ Balance(b)' = Balance(b)
<1>1. HeldBy(b)' = HeldBy(b) /\ debit' = debit
  BY DEF Unmoved, HeldBy
<1> QED  BY <1>1 DEF Balance

(* The balance was checked before the call; the call keeps every other     *)
(* step of the bank away until the money is taken.                         *)
LEMMA AccountsStep == Typed /\ Moneys /\ Accounts /\ [Next]_vars => Accounts'
<1> SUFFICES ASSUME Typed, Moneys, Accounts, [Next]_vars PROVE Accounts'
  OBVIOUS
<1>1. /\ RowsFinite
      /\ \A b \in Bank : Balance(b) \in Int /\ Balance(b) >= 0
      /\ \A c \in Cheque : AmountOf[c] \in Nat /\ BankOf[c] \in Bank
      /\ waiting \subseteq {"issue", "cancel"} \X Cheque
  BY BalanceType DEF Accounts, RowsFinite, Solvent, Typed, TypeOK
<1>2. OneCall'
  <2>1. CASE waiting' \subseteq waiting
    BY <2>1 DEF Accounts, OneCall
  <2>2. ASSUME NEW c \in Cheque, NEW kind \in {"issue", "cancel"},
               waiting' = waiting \cup {<<kind, c>>}, ~Busy(BankOf[c])
        PROVE  OneCall'
    <3>1. \A p \in waiting : BankOf[p[2]] # BankOf[c]
      BY <2>2 DEF Busy
    <3> QED  BY <2>2, <3>1 DEF Accounts, OneCall
  <2> QED  BY <2>1, <2>2, CallsMove
<1>3. ASSUME NEW c \in Cheque, Takes(c), HoldMoney(c)
      PROVE  RowsFinite' /\ Reserved' /\ Solvent'
  <2>1. /\ <<"issue", c>> \in waiting /\ waiting' = waiting \ {<<"issue", c>>}
    BY <1>3 DEF HoldMoney
  <2>2. \A b \in Bank :
          /\ IsFiniteSet(HeldBy(b)')
          /\ Balance(b)' = Balance(b) - (IF BankOf[c] = b THEN AmountOf[c] ELSE 0)
    BY <1>1, <1>3, TakenFromBalance
  <2>3. Balance(BankOf[c]) >= AmountOf[c]
    BY <2>1 DEF Accounts, Reserved, Covered
  <2>4. Solvent'
    <3>1. ASSUME NEW b \in Bank PROVE Balance(b)' >= 0
      <4>1. Balance(b) \in Int /\ Balance(b) >= 0 /\ AmountOf[c] \in Int
        BY <1>1
      <4>2. CASE BankOf[c] = b
        BY <2>2, <2>3, <4>1, <4>2
      <4>3. CASE BankOf[c] # b
        BY <2>2, <4>1, <4>3
      <4> QED  BY <4>2, <4>3
    <3> QED  BY <3>1 DEF Solvent
  <2>5. Reserved'
    <3> SUFFICES ASSUME NEW d \in Cheque, <<"issue", d>> \in waiting'
                 PROVE  Balance(BankOf[d])' >= AmountOf[d]
      BY DEF Reserved, Covered
    <3>1. <<"issue", d>> \in waiting /\ BankOf[d] # BankOf[c]
      BY <2>1 DEF Accounts, OneCall
    <3>2. Balance(BankOf[d]) >= AmountOf[d]
      BY <3>1 DEF Accounts, Reserved, Covered
    <3>3. Balance(BankOf[d])' = Balance(BankOf[d]) - 0
      BY <1>1, <2>2, <3>1
    <3> QED  BY <1>1, <3>2, <3>3
  <2> QED  BY <2>2, <2>4, <2>5 DEF RowsFinite
<1> DEFINE Kept == \A b \in Bank : /\ HeldBy(b)' = HeldBy(b)
                                  /\ Balance(b)' \in Int /\ Balance(b)' >= Balance(b)
<1>4. ASSUME NEW c \in Cheque, Returned(c) PROVE Kept
  <2> SUFFICES ASSUME NEW b \in Bank
               PROVE  /\ HeldBy(b)' = HeldBy(b)
                      /\ Balance(b)' \in Int /\ Balance(b)' >= Balance(b)
    OBVIOUS
  <2>1. /\ HeldBy(b)' = HeldBy(b)
        /\ Balance(b)' = Balance(b) + (IF BankOf[c] = b THEN AmountOf[c] ELSE 0)
    BY <1>1, <1>4, ReturnedToBalance
  <2>2. Balance(b) \in Int /\ AmountOf[c] \in Nat
    BY <1>1
  <2> QED  BY <2>1, <2>2
<1>5. ASSUME Unmoved PROVE Kept
  BY <1>1, <1>5, UnmovedBalance
<1>6. ASSUME Kept PROVE RowsFinite' /\ Reserved' /\ Solvent'
  <2>1. RowsFinite'
    BY <1>1, <1>6 DEF RowsFinite
  <2>2. \A b \in Bank : Balance(b)' \in Int
    BY <1>6
  <2>3. Solvent'
    BY <1>1, <1>6, <2>2 DEF Solvent
  <2>4. Reserved'
    <3> SUFFICES ASSUME NEW d \in Cheque, <<"issue", d>> \in waiting'
                 PROVE  Balance(BankOf[d])' >= AmountOf[d]
      BY DEF Reserved, Covered
    <3>1. Balance(BankOf[d]) >= AmountOf[d]
      <4>1. CASE <<"issue", d>> \in waiting
        BY <4>1 DEF Accounts, Reserved, Covered
      <4>2. CASE <<"issue", d>> \notin waiting
        <5>1. PICK c \in Cheque, kind \in {"issue", "cancel"} :
                /\ waiting' = waiting \cup {<<kind, c>>}
                /\ kind = "issue" => Covered(c)
          BY <4>2, CallsMove
        <5>2. kind = "issue" /\ c = d
          BY <4>2, <5>1
        <5> QED  BY <5>1, <5>2 DEF Covered
      <4> QED  BY <4>1, <4>2
    <3> QED  BY <1>1, <1>6, <2>2, <3>1
  <2> QED  BY <2>1, <2>3, <2>4
<1>7. RowsFinite' /\ Reserved' /\ Solvent'
  BY <1>3, <1>4, <1>5, <1>6, BooksMove
<1>8. FullAmount'
  <2>1. debit \in [Cheque -> Int]
    BY DEF Typed, TypeOK
  <2> QED  BY <2>1, BooksMove DEF Accounts, FullAmount, Takes, Returned, Unmoved
<1> QED  BY <1>2, <1>7, <1>8 DEF Accounts

(* The bank checks the balance before it calls KLIK and takes the money    *)
(* after the answer (api_issue_cheque): the balance is never negative and  *)
(* no cheque gives back more than it took, because the bank's application  *)
(* serves nobody while it waits, whoever gives up waiting or asks again.   *)
THEOREM BalanceCoversCheques == Spec => []NeverOverdrawn
<1>1. Init => Clock /\ Told /\ Moneys
  BY DEF Init, Clock, Seen, Alive, Taker, Told, Noted, Cancelled, Swept, Moneys, Money
<1>2. Init => Accounts
  <2> SUFFICES ASSUME Init PROVE Accounts
    OBVIOUS
  <2>1. waiting = {} /\ \A b \in Bank : HeldBy(b) = {}
    BY DEF Init, HeldBy
  <2>2. \A b \in Bank : IsFiniteSet(HeldBy(b)) /\ Balance(b) = Funds[b]
    <3>1. SumFunctionOnSet(debit, {}) = 0
      BY SumOfNothing
    <3>2. \A b \in Bank : Balance(b) = Funds[b] - 0
      BY <2>1, <3>1 DEF Balance
    <3>3. \A b \in Bank : Funds[b] - 0 = Funds[b]
      OBVIOUS
    <3> QED  BY <2>1, <3>2, <3>3, FS_EmptySet
  <2>3. RowsFinite /\ Solvent
    BY <2>2 DEF RowsFinite, Solvent
  <2>4. FullAmount
    BY DEF Init, FullAmount
  <2> QED  BY <2>1, <2>3, <2>4 DEF Accounts, OneCall, Reserved
<1>3. Typed /\ Orders /\ Clock /\ Told /\ Moneys /\ [Next]_vars => Clock' /\ Told' /\ Moneys'
  BY ClockStep, ToldStep, MoneyStep
<1>4. Accounts => NeverOverdrawn
  <2> SUFFICES ASSUME Accounts PROVE NeverOverdrawn
    OBVIOUS
  <2>1. \A c \in Cheque : debit[c] >= 0
    <3>1. \A c \in Cheque : AmountOf[c] \in Nat /\ debit[c] \in {0, AmountOf[c]}
      BY DEF Accounts, FullAmount
    <3>2. ASSUME NEW c \in Cheque PROVE debit[c] >= 0
      <4>1. AmountOf[c] \in Nat /\ (debit[c] = 0 \/ debit[c] = AmountOf[c])
        BY <3>1
      <4> QED  BY <4>1
    <3> QED  BY <3>2
  <2> QED  BY <2>1 DEF Accounts, Solvent, NeverOverdrawn
<1> QED
  BY <1>1, <1>2, <1>3, <1>4, AccountsStep, InitType, StepType, InitOrders, OrdersStep, PTL
  DEF Spec
=============================================================================
