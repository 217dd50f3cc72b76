--------------------------- MODULE RecurringProofs ---------------------------
(***************************************************************************)
(* Proofs about Schedule and Recurring: the calendar of any months and any *)
(* mandate in it, then the standing order for any plans, thresholds and    *)
(* bounds.                                                                 *)
(***************************************************************************)
EXTENDS Recurring, Functions, FiniteSetTheorems, WellFoundedInduction, TLAPS

-----------------------------------------------------------------------------
(* Arithmetic *)

LEMMA Division ==
  ASSUME NEW a \in Nat, NEW w \in Nat \ {0}
  PROVE  /\ a \div w \in Nat
         /\ w * (a \div w) <= a /\ a < w * (a \div w) + w
<1>1. w * (a \div w) + (a % w) = a
  OBVIOUS
<1>2. a % w \in 0 .. w - 1
  OBVIOUS
<1>3. a \div w \in Nat
  OBVIOUS
<1>4. w * (a \div w) \in Nat
  BY <1>3
<1> QED  BY <1>1, <1>2, <1>3, <1>4

LEMMA Multiple ==
  ASSUME NEW n \in Nat, NEW w \in Nat \ {0}
  PROVE  (w * n) % w = 0 /\ w * n \in Nat
<1>1. (w * n) % w = 0
  OBVIOUS
<1>2. w * n \in Nat
  OBVIOUS
<1> QED  BY <1>1, <1>2

(* There is no multiple between two that follow each other. *)
LEMMA NoMultiple ==
  ASSUME NEW n \in Nat, NEW x \in Nat, NEW w \in Nat \ {0}, x % w = 0, w * n < x
  PROVE  w * n + w <= x
<1> DEFINE q == x \div w
<1>1. q \in Nat /\ w * q + (x % w) = x
  <2>1. w * q + (x % w) = x
    OBVIOUS
  <2> QED  BY <2>1
<1> HIDE DEF q
<1>2. x = w * q
  BY <1>1
<1>3. CASE q <= n
  <2> DEFINE k == n - q
  <2>1. k \in Nat /\ n = q + k
    BY <1>1, <1>3
  <2> HIDE DEF k
  <2>2. w * n = w * q + w * k /\ w * k \in Nat /\ w * q \in Nat
    BY <1>1, <2>1
  <2> QED  BY <1>2, <2>2
<1>4. CASE q > n
  <2> DEFINE k == q - n - 1
  <2>1. k \in Nat /\ q = n + 1 + k
    BY <1>1, <1>4
  <2> HIDE DEF k
  <2>2. w * q = w * n + w + w * k /\ w * k \in Nat /\ w * n \in Nat
    BY <1>1, <2>1
  <2> QED  BY <1>2, <2>2
<1> QED  BY <1>1, <1>3, <1>4

LEMMA Halves ==
  ASSUME NEW time \in Nat
  PROVE  /\ DateOf(time) \in Nat
         /\ 2 * DateOf(time) <= time /\ time <= 2 * DateOf(time) + 1
BY DEF DateOf

LEMMA Odd ==
  ASSUME NEW date \in Nat
  PROVE  /\ 2 * date + 1 \in Nat /\ (2 * date + 1) % 2 = 1 /\ DateOf(2 * date + 1) = date
BY DEF DateOf

(* A set of numbers up to k has a greatest one. *)
LEMMA Greatest ==
  ASSUME NEW k \in Nat, NEW S, S \subseteq 0 .. k, S # {}
  PROVE  \E n \in S : \A m \in S : m <= n
<1> DEFINE T == {k - n : n \in S}
<1>1. T \subseteq Nat /\ T # {}
  <2>1. \A n \in S : k - n \in Nat
    OBVIOUS
  <2> QED  BY <2>1
<1>2. PICK x \in T : \A y \in T : ~(<<y, x>> \in OpToRel(<, Nat))
  BY <1>1, NatLessThanWellFounded, WFMin
<1>3. \A y \in T : ~(y < x)
  BY <1>1, <1>2 DEF OpToRel
<1>4. PICK n \in S : x = k - n
  OBVIOUS
<1>5. ASSUME NEW m \in S PROVE m <= n
  <2>1. k - m \in T
    OBVIOUS
  <2>2. ~(k - m < k - n)
    BY <1>3, <1>4, <2>1
  <2> QED  BY <2>2
<1> QED  BY <1>5

-----------------------------------------------------------------------------
USE CalendarAssumption

-----------------------------------------------------------------------------
(* Months *)

LEMMA MonthStarts ==
  ASSUME NEW m \in 0 .. Months
  PROVE  /\ FirstDay[m] \in Nat
         /\ \A k \in 0 .. Months : (m < k => FirstDay[m] < FirstDay[k])
                                /\ (m <= k => FirstDay[m] <= FirstDay[k])
<1>1. \A k \in 0 .. Months : FirstDay[k] \in Nat
  OBVIOUS
<1>2. \A k \in 0 .. Months : m < k => FirstDay[m] < FirstDay[k]
  OBVIOUS
<1>3. \A k \in 0 .. Months : m <= k => m = k \/ m < k
  OBVIOUS
<1> QED  BY <1>1, <1>2, <1>3

LEMMA MonthIs ==
  ASSUME NEW m \in Month, NEW date \in Nat, FirstDay[m] <= date, date < FirstDay[m + 1]
  PROVE  MonthOf(date) = m
<1>1. ASSUME NEW k \in Month, FirstDay[k] <= date, date < FirstDay[k + 1] PROVE k = m
  <2>1. /\ k + 1 \in 0 .. Months /\ m + 1 \in 0 .. Months
        /\ k \in 0 .. Months /\ m \in 0 .. Months
    BY DEF Month
  <2>2. ~(k + 1 <= m) /\ ~(m + 1 <= k)
    BY <1>1, <2>1, MonthStarts
  <2> QED  BY <2>1, <2>2
<1> QED  BY <1>1 DEF MonthOf

(* A date lies in its month. *)
LEMMA InMonth ==
  ASSUME NEW date \in Date
  PROVE  /\ date \in Nat /\ MonthOf(date) \in Month
         /\ FirstDay[MonthOf(date)] <= date /\ date < FirstDay[MonthOf(date) + 1]
         /\ DayOf(date) \in Nat /\ date = FirstDay[MonthOf(date)] + DayOf(date)
         /\ DayOf(date) <= LastDay(MonthOf(date))
<1>1. date \in Nat
  BY DEF Date
<1>2. \E m \in Month : FirstDay[m] <= date /\ date < FirstDay[m + 1]
  BY DEF Date, Month
<1>3. /\ MonthOf(date) \in Month
      /\ FirstDay[MonthOf(date)] <= date /\ date < FirstDay[MonthOf(date) + 1]
  BY <1>2 DEF MonthOf
<1> DEFINE m == MonthOf(date)
<1>4. FirstDay[m] \in Nat /\ FirstDay[m + 1] \in Nat
  BY <1>3, MonthStarts DEF Month
<1> QED  BY <1>1, <1>3, <1>4 DEF DayOf, LastDay

LEMMA LastDays ==
  ASSUME NEW m \in Month
  PROVE  /\ FirstDay[m] \in Nat /\ LastDay(m) \in Nat
         /\ FirstDay[m] + LastDay(m) + 1 = FirstDay[m + 1]
         /\ FirstDay[m + 1] \in Nat /\ FirstDay[m + 1] <= FirstDay[Months]
<1>1. m \in 0 .. Months /\ m + 1 \in 0 .. Months /\ Months \in 0 .. Months
  BY DEF Month
<1>2. /\ FirstDay[m] \in Nat /\ FirstDay[m + 1] \in Nat /\ FirstDay[Months] \in Nat
      /\ FirstDay[m] < FirstDay[m + 1] /\ FirstDay[m + 1] <= FirstDay[Months]
  BY <1>1, MonthStarts
<1> QED  BY <1>2 DEF LastDay

(* Months are added without leaving the month they lead to. *)
LEMMA MonthsAdded ==
  ASSUME NEW date \in Date, NEW n \in Nat, MonthOf(date) + n \in Month
  PROVE  /\ PlusMonths(date, n) \in Date
         /\ MonthOf(PlusMonths(date, n)) = MonthOf(date) + n
         /\ DayOf(PlusMonths(date, n)) =
              IF DayOf(date) <= LastDay(MonthOf(date) + n)
                THEN DayOf(date) ELSE LastDay(MonthOf(date) + n)
         /\ FirstDay[MonthOf(date) + n] <= PlusMonths(date, n)
         /\ PlusMonths(date, n) < FirstDay[MonthOf(date) + n + 1]
<1> DEFINE m == MonthOf(date) + n
           day == IF DayOf(date) <= LastDay(m) THEN DayOf(date) ELSE LastDay(m)
           sum == FirstDay[m] + day
<1>1. /\ FirstDay[m] \in Nat /\ LastDay(m) \in Nat
      /\ FirstDay[m] + LastDay(m) + 1 = FirstDay[m + 1]
      /\ FirstDay[m + 1] \in Nat /\ FirstDay[m + 1] <= FirstDay[Months]
  BY LastDays
<1>2. DayOf(date) \in Nat
  BY InMonth
<1>3. day \in 0 .. LastDay(m)
  BY <1>1, <1>2
<1>4. PlusMonths(date, n) = sum
  BY DEF PlusMonths
<1>5. FirstDay[Months] \in Nat
  OBVIOUS
<1> HIDE DEF day
<1>6. sum \in Nat /\ FirstDay[m] <= sum /\ sum < FirstDay[m + 1] /\ sum - FirstDay[m] = day
  <2> DEFINE first == FirstDay[m]
             after == FirstDay[m + 1]
             last  == LastDay(m)
  <2>1. /\ first \in Nat /\ last \in Nat /\ after = first + last + 1
        /\ day \in 0 .. last /\ sum = first + day
    BY <1>1, <1>3
  <2> HIDE DEF first, after, last, sum
  <2>2. sum \in Nat /\ first <= sum /\ sum < after /\ sum - first = day
    BY <2>1
  <2> QED  BY <2>2 DEF first, after
<1>7. sum \in Date
  BY <1>1, <1>5, <1>6 DEF Date
<1> HIDE DEF sum
<1>8. MonthOf(sum) = m
  BY <1>6, MonthIs
<1> QED  BY <1>4, <1>6, <1>7, <1>8 DEF DayOf, day

LEMMA NoMonthAdded ==
  ASSUME NEW date \in Date
  PROVE  PlusMonths(date, 0) = date
<1>1. /\ DayOf(date) <= LastDay(MonthOf(date)) /\ MonthOf(date) \in Month
      /\ date = FirstDay[MonthOf(date)] + DayOf(date)
  BY InMonth
<1>2. MonthOf(date) + 0 = MonthOf(date)
  BY <1>1 DEF Month
<1> QED  BY <1>1, <1>2 DEF PlusMonths

(* A monthly slot is the only day of its month that the plan runs on. *)
LEMMA MonthlyDay ==
  ASSUME NEW p, p.start \in Date, p.cycle = "MONTHLY", NEW date \in Date, p.start <= date
  PROVE  /\ MonthOf(p.start) <= MonthOf(date)
         /\ RunsOn(p, date) <=> date = PlusMonths(p.start, MonthOf(date) - MonthOf(p.start))
<1> DEFINE m == MonthOf(p.start)
           n == MonthOf(date) - m
           slot == PlusMonths(p.start, n)
<1>1. /\ m \in Month /\ MonthOf(date) \in Month
      /\ FirstDay[m] <= p.start /\ date < FirstDay[MonthOf(date) + 1]
      /\ date = FirstDay[MonthOf(date)] + DayOf(date)
      /\ DayOf(date) \in Nat /\ DayOf(date) <= LastDay(MonthOf(date))
      /\ p.start \in Nat /\ date \in Nat /\ DayOf(p.start) \in Nat
  BY InMonth
<1>2. m <= MonthOf(date)
  <2>1. m \in 0 .. Months /\ MonthOf(date) + 1 \in 0 .. Months
    BY <1>1 DEF Month
  <2>2. FirstDay[m] \in Nat /\ FirstDay[MonthOf(date) + 1] \in Nat
    BY <2>1, MonthStarts
  <2>3. ~(MonthOf(date) + 1 <= m)
    BY <1>1, <2>1, <2>2, MonthStarts
  <2> QED  BY <1>1, <2>3 DEF Month
<1>3. n \in Nat /\ m + n = MonthOf(date)
  BY <1>1, <1>2 DEF Month
<1> HIDE DEF n
<1>4. /\ FirstDay[MonthOf(date)] \in Nat /\ LastDay(MonthOf(date)) \in Nat
  BY <1>1, LastDays
<1>5. slot = FirstDay[MonthOf(date)] + (IF DayOf(p.start) <= LastDay(MonthOf(date))
                                          THEN DayOf(p.start) ELSE LastDay(MonthOf(date)))
  BY <1>3 DEF PlusMonths
<1> HIDE DEF slot
<1>6. RunsOn(p, date) <=> \/ DayOf(date) = DayOf(p.start)
                         \/ /\ DayOf(date) = LastDay(MonthOf(date))
                            /\ DayOf(date) < DayOf(p.start)
  <2>1. date >= p.start
    BY <1>1
  <2> QED  BY <2>1 DEF RunsOn
<1>7. RunsOn(p, date) <=> date = slot
  BY <1>1, <1>4, <1>5, <1>6
<1> QED  BY <1>2, <1>7 DEF n, slot

(* The full months up to a date are those of the last slot not after it. *)
LEMMA FullMonthsAre ==
  ASSUME NEW start \in Date, NEW date \in Date, start <= date,
         MonthOf(date) + 1 \in Month, MonthOf(start) <= MonthOf(date)
  PROVE  /\ FullMonths(start, date) \in 0 .. MonthOf(date) - MonthOf(start)
         /\ PlusMonths(start, FullMonths(start, date)) <= date
         /\ date < PlusMonths(start, FullMonths(start, date) + 1)
<1> DEFINE m == MonthOf(start)
           k == MonthOf(date) - m
           between == {n \in 0 .. k : PlusMonths(start, n) <= date}
           full == FullMonths(start, date)
<1>1. m \in Month /\ MonthOf(date) \in Month /\ date < FirstDay[MonthOf(date) + 1]
      /\ date \in Nat
  BY InMonth
<1>2. k \in Nat /\ m + k = MonthOf(date)
  BY <1>1 DEF Month
<1>3. 0 \in between
  BY <1>2, NoMonthAdded
<1>4. \E n \in between : \A i \in between : i <= n
  <2>1. between \subseteq 0 .. k /\ between # {}
    BY <1>3
  <2> HIDE DEF between, k
  <2> QED  BY <1>2, <2>1, Greatest
<1>5. full \in between /\ \A i \in between : i <= full
  <2>1. full = CHOOSE n \in between : \A i \in between : i <= n
    BY DEF FullMonths
  <2> HIDE DEF full, between
  <2> QED  BY <1>4, <2>1
<1>6. full \in 0 .. k /\ PlusMonths(start, full) <= date /\ full + 1 \notin between
  BY <1>5
<1> HIDE DEF full
<1>7. date < PlusMonths(start, full + 1)
  <2>1. full + 1 \in Nat /\ m + (full + 1) \in Month
    <3>1. full \in Nat /\ full <= k
      BY <1>2, <1>6
    <3>2. m \in Nat /\ m + k + 1 \in 0 .. Months - 1
      BY <1>1, <1>2 DEF Month
    <3> HIDE DEF k, m, between
    <3>3. full + 1 \in Nat /\ m + (full + 1) \in 0 .. Months - 1
      BY <1>2, <3>1, <3>2
    <3> QED  BY <3>3 DEF Month
  <2>2. /\ PlusMonths(start, full + 1) \in Date
        /\ FirstDay[m + (full + 1)] <= PlusMonths(start, full + 1)
    BY <2>1, MonthsAdded
  <2>3. PlusMonths(start, full + 1) \in Nat
    BY <2>2 DEF Date
  <2>4. CASE full < k
    BY <1>1, <1>2, <1>6, <2>3, <2>4
  <2>5. CASE full = k
    <3>1. m + (full + 1) = MonthOf(date) + 1
      BY <1>1, <1>2, <2>5 DEF Month
    <3>2. FirstDay[MonthOf(date) + 1] \in Nat
      BY MonthStarts DEF Month
    <3> QED  BY <1>1, <2>2, <2>3, <3>1, <3>2
  <2> QED  BY <1>2, <1>6, <2>4, <2>5
<1> QED  BY <1>6, <1>7 DEF full

-----------------------------------------------------------------------------
(* Slots *)

Cycle == {"DAILY", "WEEKLY", "MONTHLY"}

(* The dates before the last month: the slot after them is in the calendar. *)
Early(date) == date \in Nat /\ date < FirstDay[Months - 1]

LEMMA EarlyDate ==
  ASSUME NEW date, Early(date)
  PROVE  date \in Date /\ MonthOf(date) + 1 \in Month
<1>1. /\ Months - 1 \in 0 .. Months /\ Months \in 0 .. Months
      /\ FirstDay[Months - 1] \in Nat /\ FirstDay[Months] \in Nat
      /\ FirstDay[Months - 1] <= FirstDay[Months]
  BY MonthStarts
<1>2. date \in Date
  BY <1>1 DEF Early, Date
<1>3. MonthOf(date) \in Month /\ FirstDay[MonthOf(date)] <= date
  BY <1>2, InMonth
<1>4. MonthOf(date) \in 0 .. Months /\ FirstDay[MonthOf(date)] \in Nat
  BY <1>3, MonthStarts DEF Month
<1>5. ~(Months - 1 <= MonthOf(date))
  BY <1>1, <1>3, <1>4, MonthStarts DEF Early
<1> QED  BY <1>2, <1>3, <1>5 DEF Month

(* What the estimate of compute_next_run_at is: the slot before the date,   *)
(* or on it, and the next; no other day of the plan is between.            *)
Neighbours(p, date, n) ==
  /\ n \in Nat /\ SlotDate(p, n) \in Nat /\ SlotDate(p, n + 1) \in Nat
  /\ RunsOn(p, SlotDate(p, n)) /\ RunsOn(p, SlotDate(p, n + 1))
  /\ \/ date < p.start /\ SlotDate(p, n) = p.start
     \/ SlotDate(p, n) <= date
  /\ SlotDate(p, n) < SlotDate(p, n + 1) /\ date < SlotDate(p, n + 1)
  /\ \A d \in Date :
       SlotDate(p, n) < d /\ d < SlotDate(p, n + 1) => ~RunsOn(p, d)

LEMMA AreNeighbours ==
  ASSUME NEW p, NEW date, NEW n \in Nat, NEW s \in Nat, NEW t \in Nat,
         SlotDate(p, n) = s, SlotDate(p, n + 1) = t,
         RunsOn(p, s), RunsOn(p, t), s < t, date < t,
         (date < p.start /\ s = p.start) \/ s <= date,
         \A d \in Date : s < d /\ d < t => ~RunsOn(p, d)
  PROVE  Neighbours(p, date, n)
BY DEF Neighbours

LEMMA RunsFromStart ==
  ASSUME NEW p, NEW date, RunsOn(p, date)
  PROVE  date >= p.start
BY DEF RunsOn

LEMMA DailySlots ==
  ASSUME NEW p, Early(p.start), p.cycle = "DAILY", NEW date, Early(date)
  PROVE  Neighbours(p, date, SlotBefore(p, date))
<1> DEFINE n == SlotBefore(p, date)
<1>1. p.start \in Nat /\ date \in Nat /\ Date \subseteq Nat
  BY DEF Early, Date
<1>2. n = IF date < p.start THEN 0 ELSE date - p.start
  BY <1>1 DEF SlotBefore
<1>3. n \in Nat
  BY <1>1, <1>2
<1>4. SlotDate(p, n) = p.start + n /\ SlotDate(p, n + 1) = p.start + n + 1
  BY <1>1, <1>3 DEF SlotDate
<1>5. \A d \in Nat : RunsOn(p, d) <=> d >= p.start
  BY DEF RunsOn
<1> DEFINE a == p.start
<1>6. /\ a \in Nat /\ RunsOn(p, a + n) /\ RunsOn(p, a + n + 1)
      /\ n = IF date < a THEN 0 ELSE date - a
  BY <1>1, <1>2, <1>3, <1>5
<1> HIDE DEF n
<1>7. (date < p.start /\ a + n = p.start) \/ a + n <= date
  <2>1. CASE date < a
    BY <1>1, <1>6, <2>1
  <2>2. CASE ~(date < a)
    <3> HIDE DEF a
    <3> QED  BY <1>1, <1>6, <2>2
  <2> QED  BY <2>1, <2>2
<1>8. SlotDate(p, n) = a + n /\ SlotDate(p, n + 1) = a + n + 1
  BY <1>4
<1> HIDE DEF a
<1>9. date < a + n + 1 /\ a + n < a + n + 1 /\ a + n \in Nat /\ a + n + 1 \in Nat
  BY <1>1, <1>3, <1>6
<1>10. \A d \in Date : ~(a + n < d /\ d < a + n + 1)
  BY <1>1, <1>3, <1>6
<1>11. \A d \in Date : a + n < d /\ d < a + n + 1 => ~RunsOn(p, d)
  BY <1>10
<1>12. RunsOn(p, a + n) /\ RunsOn(p, a + n + 1)
  BY <1>6
<1>13. Neighbours(p, date, n)
  BY <1>3, <1>7, <1>8, <1>9, <1>11, <1>12, AreNeighbours
<1> QED  BY <1>13 DEF n

LEMMA WeeklySlots ==
  ASSUME NEW p, Early(p.start), p.cycle = "WEEKLY", NEW date, Early(date)
  PROVE  Neighbours(p, date, SlotBefore(p, date))
<1> DEFINE n == SlotBefore(p, date)
           a == p.start
           w == Week * n
<1>1. a \in Nat /\ date \in Nat /\ Date \subseteq Nat /\ Week \in Nat \ {0}
  BY DEF Early, Date
<1>2. n = IF date < a THEN 0 ELSE (date - a) \div Week
  BY <1>1 DEF SlotBefore
<1>3. \A d \in Nat : RunsOn(p, d) <=> d >= a /\ (d - a) % Week = 0
  BY DEF RunsOn
<1>4. \A i : SlotDate(p, i) = a + Week * i
  BY DEF SlotDate
<1>5. date < p.start <=> date < a
  OBVIOUS
<1>6. a = p.start
  OBVIOUS
<1> HIDE DEF n, a
<1>7. /\ n \in Nat
      /\ date < a => n = 0
      /\ date >= a => Week * n <= date - a /\ date - a < Week * n + Week
  <2>1. CASE date >= a
    <3> DEFINE x == date - a
    <3>1. x \in Nat /\ n = x \div Week
      BY <1>1, <1>2, <2>1
    <3>2. ~(date < a)
      BY <1>1, <2>1
    <3> HIDE DEF x
    <3>3. n \in Nat /\ Week * n <= x /\ x < Week * n + Week
      BY <1>1, <3>1, Division
    <3> QED  BY <3>2, <3>3 DEF x
  <2>2. CASE date < a
    <3>1. n = 0 /\ ~(date >= a)
      BY <1>1, <1>2, <2>2
    <3> QED  BY <3>1
  <2> QED  BY <1>1, <2>1, <2>2
<1>8. n + 1 \in Nat
  BY <1>7
<1>9. Week * (n + 1) = w + Week
  BY <1>1, <1>7
<1>10. w \in Nat /\ w % Week = 0 /\ (w + Week) % Week = 0
  <2>1. w \in Nat /\ w % Week = 0
    BY <1>1, <1>7, Multiple
  <2>2. (Week * (n + 1)) % Week = 0
    BY <1>1, <1>8, Multiple
  <2> QED  BY <1>9, <2>1, <2>2
<1>11. date < a => w = 0
  BY <1>1, <1>7
<1>12. \A x \in Nat : x % Week = 0 /\ w < x => w + Week <= x
  BY <1>1, <1>7, NoMultiple
<1>13. date >= a => w <= date - a /\ date - a < w + Week
  BY <1>7
<1>14. SlotDate(p, n) = a + w /\ SlotDate(p, n + 1) = a + (w + Week)
  BY <1>4, <1>9
<1> HIDE DEF w
<1> DEFINE s == a + w
           t == a + (w + Week)
<1>15. s \in Nat /\ t \in Nat /\ s >= a /\ t >= a /\ s - a = w /\ t - a = w + Week /\ s < t
  BY <1>1, <1>10
<1>16. RunsOn(p, s) /\ RunsOn(p, t)
  <2> HIDE DEF s, t
  <2> QED  BY <1>3, <1>10, <1>15
<1>17. ASSUME NEW d \in Date, s < d, d < t, RunsOn(p, d) PROVE FALSE
  <2>1. d \in Nat /\ d >= a /\ (d - a) % Week = 0
    BY <1>1, <1>3, <1>17
  <2>2. d - a \in Nat /\ w < d - a /\ d - a < w + Week
    BY <1>1, <1>10, <1>17, <2>1
  <2>3. w + Week <= d - a
    BY <1>12, <2>1, <2>2
  <2> QED  BY <1>1, <1>10, <2>2, <2>3
<1>18. date < t /\ ((date < p.start /\ s = p.start) \/ s <= date)
  <2>1. CASE date < a
    <3>1. w = 0 /\ date < p.start
      BY <1>5, <1>11, <2>1
    <3>2. s = a /\ date < t
      BY <1>1, <2>1, <3>1
    <3> HIDE DEF s, t
    <3> QED  BY <1>6, <3>1, <3>2
  <2>2. CASE ~(date < a)
    BY <1>1, <1>10, <1>13, <2>2
  <2> QED  BY <2>1, <2>2
<1> HIDE DEF s, t
<1>19. SlotDate(p, n) = s /\ SlotDate(p, n + 1) = t
  BY <1>14 DEF s, t
<1>20. Neighbours(p, date, n)
  BY <1>7, <1>15, <1>16, <1>17, <1>18, <1>19, AreNeighbours
<1> QED  BY <1>20 DEF n

LEMMA MonthlySlots ==
  ASSUME NEW p, Early(p.start), p.cycle = "MONTHLY", NEW date, Early(date)
  PROVE  Neighbours(p, date, SlotBefore(p, date))
<1> DEFINE n == SlotBefore(p, date)
           m == MonthOf(p.start)
           S(i) == PlusMonths(p.start, i)
<1>1. /\ p.start \in Nat /\ date \in Nat /\ Date \subseteq Nat
      /\ p.start \in Date /\ date \in Date
  BY EarlyDate DEF Early, Date
<1>2. /\ n \in Nat /\ m + (n + 1) \in Month /\ m + n \in Month
      /\ \/ date < p.start /\ n = 0
         \/ S(n) <= date /\ date < S(n + 1)
  <2>1. m \in Month /\ m + 1 \in Month
    BY <1>1, InMonth, EarlyDate
  <2>2. CASE date < p.start
    <3>1. n = 0
      BY <1>1, <2>2 DEF SlotBefore
    <3> QED  BY <2>1, <2>2, <3>1 DEF Month
  <2>3. CASE date >= p.start
    <3>1. n = FullMonths(p.start, date)
      BY <1>1, <2>3 DEF SlotBefore
    <3>2. m <= MonthOf(date) /\ MonthOf(date) + 1 \in Month /\ MonthOf(date) \in Month
      BY <1>1, <2>3, MonthlyDay, EarlyDate, InMonth
    <3> HIDE DEF n
    <3>3. n \in 0 .. MonthOf(date) - m /\ S(n) <= date /\ date < S(n + 1)
      BY <1>1, <2>3, <3>1, <3>2, FullMonthsAre
    <3> QED  BY <2>1, <3>2, <3>3 DEF Month
  <2> QED  BY <1>1, <2>2, <2>3
<1> HIDE DEF n
<1>3. n + 1 \in Nat
  BY <1>2
<1>4. \A i \in {n, n + 1} : /\ S(i) \in Date /\ MonthOf(S(i)) = m + i
                           /\ FirstDay[m + i] <= S(i) /\ S(i) < FirstDay[m + i + 1]
  BY <1>1, <1>2, <1>3, MonthsAdded
<1>5. m \in Month
  BY <1>1, InMonth
<1>6. S(n) < S(n + 1)
  <2>1. m + n + 1 = m + (n + 1) /\ m + n + 1 \in 0 .. Months
    BY <1>2, <1>5 DEF Month
  <2>2. S(n) < FirstDay[m + n + 1] /\ FirstDay[m + n + 1] <= S(n + 1)
    BY <1>4, <2>1
  <2>3. FirstDay[m + n + 1] \in Nat /\ S(n) \in Nat /\ S(n + 1) \in Nat
    BY <1>1, <1>4, <2>1, MonthStarts
  <2> HIDE DEF S
  <2> QED  BY <2>2, <2>3
<1>7. \A i \in {n, n + 1} : p.start <= S(i)
  <2>1. p.start <= S(n)
    <3>1. CASE n = 0
      BY <1>1, <3>1, NoMonthAdded
    <3>2. CASE n # 0
      <4>1. m + 1 \in 0 .. Months /\ m + n \in 0 .. Months /\ m + 1 <= m + n
        BY <1>2, <1>5, <3>2 DEF Month
      <4>2. /\ p.start < FirstDay[m + 1] /\ FirstDay[m + 1] <= FirstDay[m + n]
            /\ FirstDay[m + n] <= S(n)
            /\ FirstDay[m + 1] \in Nat /\ FirstDay[m + n] \in Nat /\ S(n) \in Nat
        BY <1>1, <1>4, <4>1, InMonth, MonthStarts
      <4> HIDE DEF S, m
      <4> QED  BY <1>1, <4>2
    <3> QED  BY <3>1, <3>2
  <2>2. S(n) \in Nat /\ S(n + 1) \in Nat
    BY <1>1, <1>4
  <2> HIDE DEF S
  <2> QED  BY <1>1, <1>6, <2>1, <2>2
<1>8. \A i \in {n, n + 1} : RunsOn(p, S(i))
  <2> SUFFICES ASSUME NEW i \in {n, n + 1} PROVE RunsOn(p, S(i))
    OBVIOUS
  <2>1. MonthOf(S(i)) - MonthOf(p.start) = i
    BY <1>2, <1>4, <1>5 DEF Month
  <2> QED  BY <1>1, <1>4, <1>7, <2>1, MonthlyDay
<1>9. ASSUME NEW d \in Date, S(n) < d, d < S(n + 1), RunsOn(p, d) PROVE FALSE
  <2>1. p.start <= d /\ d \in Nat /\ S(n) \in Nat /\ S(n + 1) \in Nat
    <3>1. S(n) \in Nat /\ S(n + 1) \in Nat /\ d \in Nat /\ p.start <= S(n)
      BY <1>1, <1>4, <1>7
    <3> HIDE DEF S
    <3> QED  BY <1>1, <1>9, <3>1
  <2> DEFINE k == MonthOf(d)
  <2>2. d = S(k - m) /\ k \in Month
    BY <1>1, <1>9, <2>1, MonthlyDay, InMonth
  <2>3. FirstDay[k] <= d /\ d < FirstDay[k + 1]
    BY InMonth
  <2> HIDE DEF k
  <2>4. k # m + n /\ k # m + (n + 1)
    <3>1. (m + n) - m = n /\ (m + (n + 1)) - m = n + 1
      BY <1>2, <1>5 DEF Month
    <3> HIDE DEF S
    <3> QED  BY <1>9, <2>1, <2>2, <3>1
  <2>5. k + 1 \in 0 .. Months /\ k \in 0 .. Months /\ m + n \in 0 .. Months
        /\ m + (n + 1) \in 0 .. Months /\ m + (n + 1) + 1 \in 0 .. Months
    BY <1>2, <2>2 DEF Month
  <2>6. CASE k + 1 <= m + n
    <3>1. FirstDay[k + 1] <= FirstDay[m + n] /\ FirstDay[m + n] <= S(n)
      BY <1>4, <2>5, <2>6, MonthStarts
    <3>2. FirstDay[k + 1] \in Nat /\ FirstDay[m + n] \in Nat
      BY <2>5, MonthStarts
    <3> HIDE DEF S
    <3> QED  BY <1>9, <2>1, <2>3, <3>1, <3>2
  <2>7. CASE m + (n + 1) + 1 <= k
    <3>1. /\ FirstDay[m + (n + 1) + 1] <= FirstDay[k]
          /\ S(n + 1) < FirstDay[m + (n + 1) + 1]
      BY <1>4, <2>5, <2>7, MonthStarts
    <3>2. FirstDay[k] \in Nat /\ FirstDay[m + (n + 1) + 1] \in Nat
      BY <2>5, MonthStarts
    <3> HIDE DEF S
    <3> QED  BY <1>9, <2>1, <2>3, <3>1, <3>2
  <2>8. n \in Nat /\ m \in Nat /\ k \in Nat
    BY <1>2, <1>5, <2>2 DEF Month
  <2>9. k + 1 <= m + n \/ k = m + n \/ k = m + (n + 1) \/ m + (n + 1) + 1 <= k
    <3> HIDE DEF m
    <3> QED  BY <2>8
  <2> QED  BY <2>4, <2>6, <2>7, <2>9
<1>10. SlotDate(p, n) = S(n) /\ SlotDate(p, n + 1) = S(n + 1)
  BY DEF SlotDate
<1>11. date < p.start /\ n = 0 => S(n) = p.start /\ date < S(n + 1)
  <2>1. n = 0 => S(n) = p.start
    BY <1>1, NoMonthAdded
  <2>2. S(n) \in Nat /\ S(n + 1) \in Nat
    BY <1>1, <1>4
  <2> HIDE DEF S
  <2> QED  BY <1>1, <1>6, <2>1, <2>2
<1>12. S(n) \in Nat /\ S(n + 1) \in Nat
  BY <1>1, <1>4
<1> HIDE DEF S
<1>13. RunsOn(p, S(n)) /\ RunsOn(p, S(n + 1))
  BY <1>8
<1>14. /\ date < S(n + 1)
       /\ (date < p.start /\ S(n) = p.start) \/ S(n) <= date
  BY <1>2, <1>11
<1>15. \A d \in Date : S(n) < d /\ d < S(n + 1) => ~RunsOn(p, d)
  BY <1>9
<1>16. Neighbours(p, date, n)
  BY <1>2, <1>6, <1>10, <1>12, <1>13, <1>14, <1>15, AreNeighbours
<1> QED  BY <1>16 DEF n

(* compute_next_run_at (schedule.py) gives the first slot after the time,   *)
(* for a daily, weekly or monthly mandate in a calendar of any months, also *)
(* where a month has no such day: no slot is left out and none is added.   *)
THEOREM NextRunIsFirst ==
  ASSUME NEW p, Early(p.start), p.cycle \in Cycle,
         NEW after \in Nat, Early(DateOf(after))
  PROVE  NextRunAt(p, after) \in Nat /\ IsFirstSlotAfter(p, after, NextRunAt(p, after))
<1> DEFINE date == DateOf(after)
           n    == SlotBefore(p, date)
           s    == SlotDate(p, n)
           t    == SlotDate(p, n + 1)
           run  == NextRunAt(p, after)
<1>1. Neighbours(p, date, n)
  BY DailySlots, WeeklySlots, MonthlySlots DEF Cycle
<1>2. /\ s \in Nat /\ t \in Nat /\ RunsOn(p, s) /\ RunsOn(p, t)
      /\ (date < p.start /\ s = p.start) \/ s <= date
      /\ s < t /\ date < t
      /\ \A d \in Date : s < d /\ d < t => ~RunsOn(p, d)
  BY <1>1 DEF Neighbours
<1>3. date \in Nat /\ p.start \in Nat /\ 2 * date <= after /\ after <= 2 * date + 1
  BY Halves DEF Early
<1>4. run = IF 2 * s + 1 > after THEN 2 * s + 1 ELSE 2 * t + 1
  BY DEF NextRunAt, SlotAt
<1>5. Date \subseteq Nat
  BY DEF Date
<1>6. \A d \in Date : d < p.start => ~RunsOn(p, d)
  <2>1. \A d \in Date : RunsOn(p, d) => d >= p.start
    BY RunsFromStart
  <2> QED  BY <1>3, <1>5, <2>1
<1> HIDE DEF run, t, s, n, date
<1>7. CASE 2 * s + 1 > after
  <2>1. run = 2 * s + 1
    BY <1>4, <1>7
  <2>2. run \in Nat /\ run % 2 = 1 /\ DateOf(run) = s
    BY <1>2, <2>1, Odd
  <2>3. ASSUME NEW d \in Date, 2 * d + 1 > after, 2 * d + 1 < run PROVE ~RunsOn(p, d)
    BY <1>2, <1>3, <1>5, <1>6, <2>1, <2>3
  <2> QED  BY <1>2, <1>7, <2>1, <2>2, <2>3 DEF IsFirstSlotAfter, run
<1>8. CASE ~(2 * s + 1 > after)
  <2>1. run = 2 * t + 1
    BY <1>4, <1>8
  <2>2. run \in Nat /\ run % 2 = 1 /\ DateOf(run) = t
    BY <1>2, <2>1, Odd
  <2>3. ASSUME NEW d \in Date, 2 * d + 1 > after, 2 * d + 1 < run PROVE ~RunsOn(p, d)
    <3>1. s < d /\ d < t
      BY <1>2, <1>3, <1>5, <1>8, <2>1, <2>3
    <3> QED  BY <1>2, <3>1
  <2>4. run > after
    BY <1>2, <1>3, <2>1
  <2> QED  BY <1>2, <2>2, <2>3, <2>4 DEF IsFirstSlotAfter, run
<1> QED  BY <1>7, <1>8

(* The slots up to a date: they rise, lie between the start and the date,  *)
(* and the plan runs on no other day there.                                *)
Numbered(p, end, last) ==
  /\ last \in Nat
  /\ \A n \in 0 .. last : SlotDate(p, n) \in p.start .. end /\ RunsOn(p, SlotDate(p, n))
  /\ \A n, k \in 0 .. last : n < k => SlotDate(p, n) < SlotDate(p, k)
  /\ \A d \in p.start .. end : RunsOn(p, d) => \E n \in 0 .. last : d = SlotDate(p, n)

LEMMA DailyNumbered ==
  ASSUME NEW p, p.cycle = "DAILY", p.start \in Nat, NEW end \in Nat, p.start <= end
  PROVE  Numbered(p, end, SlotBefore(p, end))
<1> DEFINE a == p.start
           last == SlotBefore(p, end)
<1>1. last = end - a
  BY DEF SlotBefore
<1>2. \A n : SlotDate(p, n) = a + n
  BY DEF SlotDate
<1>3. \A d \in Nat : RunsOn(p, d) <=> d >= a
  BY DEF RunsOn
<1>4. a \in Nat /\ a <= end
  OBVIOUS
<1> HIDE DEF a, last
<1>5. last \in Nat
  BY <1>1, <1>4
<1>6. ASSUME NEW n \in 0 .. last PROVE a + n \in a .. end /\ RunsOn(p, a + n)
  BY <1>1, <1>3, <1>4
<1>7. \A n, k \in 0 .. last : n < k => a + n < a + k
  BY <1>4, <1>5
<1>8. ASSUME NEW d \in a .. end PROVE \E n \in 0 .. last : d = a + n
  <2>1. d - a \in 0 .. last /\ d = a + (d - a)
    BY <1>1, <1>4
  <2> QED  BY <2>1
<1> QED  BY <1>2, <1>5, <1>6, <1>7, <1>8 DEF Numbered, a, last

LEMMA WeeklyNumbered ==
  ASSUME NEW p, p.cycle = "WEEKLY", p.start \in Nat, NEW end \in Nat, p.start <= end
  PROVE  Numbered(p, end, SlotBefore(p, end))
<1> DEFINE a == p.start
           last == SlotBefore(p, end)
<1>1. last = (end - a) \div Week
  BY DEF SlotBefore
<1>2. \A n : SlotDate(p, n) = a + Week * n
  BY DEF SlotDate
<1>3. \A d \in Nat : RunsOn(p, d) <=> d >= a /\ (d - a) % Week = 0
  BY DEF RunsOn
<1>4. a \in Nat /\ a <= end /\ Week \in Nat \ {0}
  OBVIOUS
<1> HIDE DEF a, last
<1>5. last \in Nat /\ Week * last <= end - a /\ end - a < Week * last + Week
  <2>1. end - a \in Nat
    BY <1>4
  <2> QED  BY <1>1, <1>4, <2>1, Division
<1>6. ASSUME NEW n \in Nat, NEW k \in Nat, n < k
      PROVE  Week * n \in Nat /\ Week * n + Week <= Week * k
  <2> DEFINE j == k - n - 1
  <2>1. j \in Nat /\ k = n + 1 + j
    BY <1>6
  <2> HIDE DEF j
  <2> DEFINE v == Week * k
             w == Week * n
             u == Week * j
  <2>2. v = w + Week + u /\ u \in Nat /\ w \in Nat
    BY <1>4, <2>1
  <2> HIDE DEF v, w, u
  <2>3. w \in Nat /\ w + Week <= v
    BY <1>4, <2>2
  <2> QED  BY <2>3 DEF v, w
<1>7. ASSUME NEW n \in 0 .. last PROVE a + Week * n \in a .. end /\ RunsOn(p, a + Week * n)
  <2> DEFINE w == Week * n
             v == Week * last
  <2>1. w \in Nat /\ w % Week = 0
    BY <1>4, <1>5, Multiple
  <2>2. v \in Nat /\ v <= end - a
    BY <1>4, <1>5, Multiple
  <2>3. n = last \/ w + Week <= v
    BY <1>5, <1>6
  <2>4. n = last => w = v
    OBVIOUS
  <2> HIDE DEF w, v
  <2>5. w <= v
    BY <1>4, <2>1, <2>2, <2>3, <2>4
  <2>6. a + w \in a .. end /\ (a + w) - a = w
    BY <1>4, <2>1, <2>2, <2>5
  <2>7. a + w \in Nat /\ a + w >= a
    BY <1>4, <2>6
  <2>8. RunsOn(p, a + w)
    BY <1>3, <2>1, <2>6, <2>7
  <2> QED  BY <2>6, <2>8 DEF w
<1>8. \A n, k \in 0 .. last : n < k => a + Week * n < a + Week * k
  <2> SUFFICES ASSUME NEW n \in 0 .. last, NEW k \in 0 .. last, n < k
               PROVE  a + Week * n < a + Week * k
    OBVIOUS
  <2> DEFINE w == Week * n
             v == Week * k
  <2>1. w \in Nat /\ v \in Nat /\ w + Week <= v
    BY <1>4, <1>5, <1>6, Multiple
  <2> HIDE DEF w, v
  <2>2. a + w < a + v
    BY <1>4, <2>1
  <2> QED  BY <2>2 DEF w, v
<1>9. ASSUME NEW d \in a .. end, RunsOn(p, d) PROVE \E n \in 0 .. last : d = a + Week * n
  <2> DEFINE x == d - a
             q == x \div Week
  <2>1. x \in Nat /\ x <= end - a /\ x % Week = 0 /\ d = a + x
    BY <1>3, <1>4, <1>9
  <2> HIDE DEF x
  <2>2. q \in Nat /\ x = Week * q
    <3>1. q \in Nat
      BY <1>4, <2>1, Division
    <3>2. Week * q + (x % Week) = x
      BY <1>4, <2>1
    <3> HIDE DEF q
    <3>3. Week * q \in Nat
      BY <1>4, <3>1, Multiple
    <3> QED  BY <2>1, <3>1, <3>3, <3>2
  <2> HIDE DEF q
  <2>3. q <= last
    <3> SUFFICES ASSUME last < q PROVE FALSE
      BY <1>5, <2>2
    <3> DEFINE v == Week * last
               w == Week * q
    <3>1. v \in Nat /\ v + Week <= w
      BY <1>5, <1>6, <2>2
    <3>2. w <= end - a /\ end - a < v + Week /\ w \in Nat
      BY <1>5, <2>1, <2>2
    <3> HIDE DEF v, w
    <3> QED  BY <1>4, <3>1, <3>2
  <2> QED  BY <1>5, <2>1, <2>2, <2>3
<1> QED  BY <1>2, <1>5, <1>7, <1>8, <1>9 DEF Numbered, a, last

LEMMA MonthlyNumbered ==
  ASSUME NEW p, p.cycle = "MONTHLY", Early(p.start), NEW end, Early(end), p.start <= end
  PROVE  Numbered(p, end, SlotBefore(p, end))
<1> DEFINE m == MonthOf(p.start)
           S(i) == PlusMonths(p.start, i)
           last == SlotBefore(p, end)
<1>1. /\ p.start \in Nat /\ end \in Nat /\ Date \subseteq Nat
      /\ p.start \in Date /\ end \in Date /\ MonthOf(end) + 1 \in Month
      /\ m \in Month /\ MonthOf(end) \in Month
  BY EarlyDate, InMonth DEF Early, Date
<1>2. last = FullMonths(p.start, end)
  BY <1>1 DEF SlotBefore
<1>3. m <= MonthOf(end)
  BY <1>1, MonthlyDay
<1> HIDE DEF last
<1>4. last \in 0 .. MonthOf(end) - m /\ S(last) <= end /\ end < S(last + 1)
  BY <1>1, <1>2, <1>3, FullMonthsAre
<1>5. last \in Nat /\ \A i \in 0 .. last + 1 : i \in Nat /\ m + i \in Month
  <2>1. m \in Nat /\ MonthOf(end) \in Nat /\ MonthOf(end) + 1 <= Months - 1 /\ Months \in Nat
    BY <1>1 DEF Month
  <2> DEFINE e == MonthOf(end)
  <2>2. last \in 0 .. e - m
    BY <1>4
  <2> HIDE DEF m, e
  <2>3. \A i \in 0 .. last + 1 : i \in Nat /\ m + i \in 0 .. Months - 1
    BY <1>3, <2>1, <2>2 DEF e
  <2> QED  BY <1>3, <2>1, <2>2, <2>3 DEF Month, e
<1>6. \A i \in 0 .. last + 1 : /\ S(i) \in Date /\ MonthOf(S(i)) = m + i
                              /\ FirstDay[m + i] <= S(i) /\ S(i) < FirstDay[m + i + 1]
  BY <1>1, <1>5, MonthsAdded
<1>7. ASSUME NEW i \in 0 .. last + 1, NEW j \in 0 .. last + 1, i < j PROVE S(i) < S(j)
  <2>1. m + i + 1 \in 0 .. Months /\ m + j \in 0 .. Months /\ m + i + 1 <= m + j
    <3>1. m \in Nat /\ i \in Nat /\ j \in Nat /\ m + j \in 0 .. Months - 1 /\ m + i \in 0 .. Months - 1
      BY <1>1, <1>5 DEF Month
    <3> HIDE DEF m
    <3> QED  BY <1>7, <3>1
  <2>2. /\ S(i) < FirstDay[m + i + 1] /\ FirstDay[m + i + 1] <= FirstDay[m + j]
        /\ FirstDay[m + j] <= S(j)
    BY <1>6, <2>1, MonthStarts
  <2>3. FirstDay[m + i + 1] \in Nat /\ FirstDay[m + j] \in Nat /\ S(i) \in Nat /\ S(j) \in Nat
    BY <1>1, <1>6, <2>1, MonthStarts
  <2> HIDE DEF S, m
  <2> QED  BY <2>2, <2>3
<1>8. S(0) = p.start
  BY <1>1, NoMonthAdded
<1>9. ASSUME NEW n \in 0 .. last PROVE S(n) \in p.start .. end /\ RunsOn(p, S(n))
  <2>1. n \in 0 .. last + 1 /\ last \in 0 .. last + 1 /\ 0 \in 0 .. last + 1
    BY <1>5
  <2>2. S(n) \in Nat /\ S(last) \in Nat
    BY <1>1, <1>6, <2>1
  <2>3. n = 0 \/ S(0) < S(n)
    BY <1>5, <1>7, <2>1
  <2>4. n = last \/ S(n) < S(last)
    BY <1>5, <1>7, <2>1
  <2>5. p.start <= S(n) /\ S(n) <= end
    <3>1. (n = 0 => S(n) = S(0)) /\ (n = last => S(n) = S(last))
      OBVIOUS
    <3> HIDE DEF S
    <3> QED  BY <1>1, <1>4, <1>8, <2>2, <2>3, <2>4, <3>1
  <2>6. RunsOn(p, S(n))
    <3>1. MonthOf(S(n)) - MonthOf(p.start) = n
      BY <1>1, <1>5, <1>6, <2>1 DEF Month
    <3> QED  BY <1>1, <1>6, <2>1, <2>5, <3>1, MonthlyDay
  <2> HIDE DEF S
  <2> QED  BY <1>1, <2>2, <2>5, <2>6
<1>10. ASSUME NEW d \in p.start .. end, RunsOn(p, d) PROVE \E n \in 0 .. last : d = S(n)
  <2>1. d \in Nat /\ p.start <= d /\ d <= end /\ Early(d)
    <3>1. FirstDay[Months - 1] \in Nat
      <4>1. Months - 1 \in 0 .. Months
        OBVIOUS
      <4> QED  BY <4>1, MonthStarts
    <3> QED  BY <1>1, <3>1 DEF Early
  <2>2. d \in Date
    BY <2>1, EarlyDate
  <2> DEFINE k == MonthOf(d) - m
  <2>3. m <= MonthOf(d) /\ d = S(k) /\ MonthOf(d) \in Month
    <3>1. m <= MonthOf(d) /\ (RunsOn(p, d) <=> d = PlusMonths(p.start, MonthOf(d) - MonthOf(p.start)))
      BY <1>1, <2>1, <2>2, MonthlyDay
    <3>2. MonthOf(d) \in Month
      BY <2>2, InMonth
    <3> QED  BY <1>10, <3>1, <3>2
  <2>4. k \in Nat /\ m + k = MonthOf(d)
    BY <1>1, <2>3 DEF Month
  <2> HIDE DEF k
  <2>5. k <= last
    <3> SUFFICES ASSUME last < k PROVE FALSE
      BY <1>5, <2>4
    <3>1. PlusMonths(p.start, last + 1) <= d
      <4>1. CASE k = last + 1
        BY <2>1, <2>3, <4>1
      <4>2. CASE k # last + 1
        <5>1. m + (last + 1) + 1 <= m + k /\ m + (last + 1) + 1 \in 0 .. Months /\ m + k \in 0 .. Months
          <6>1. m \in Nat /\ m + k \in 0 .. Months - 1
            BY <1>1, <2>3, <2>4 DEF Month
          <6> HIDE DEF m
          <6> QED  BY <1>5, <2>4, <4>2, <6>1
        <5>2. /\ FirstDay[m + (last + 1) + 1] <= FirstDay[m + k]
              /\ FirstDay[m + k] <= d
              /\ FirstDay[m + k] \in Nat /\ FirstDay[m + (last + 1) + 1] \in Nat
          BY <2>2, <2>4, <5>1, MonthStarts, InMonth
        <5>3. S(last + 1) < FirstDay[m + (last + 1) + 1] /\ S(last + 1) \in Nat
          <6>1. last + 1 \in 0 .. last + 1
            BY <1>5
          <6> QED  BY <1>1, <1>6, <6>1
        <5> HIDE DEF m, S
        <5>4. S(last + 1) <= d
          BY <2>1, <5>2, <5>3
        <5> QED  BY <5>4 DEF S
      <4> QED  BY <4>1, <4>2
    <3>2. S(last + 1) \in Nat
      <4>1. last + 1 \in 0 .. last + 1
        BY <1>5
      <4> QED  BY <1>1, <1>6, <4>1
    <3> QED  BY <1>1, <1>4, <2>1, <3>1, <3>2
  <2> HIDE DEF S
  <2> QED  BY <1>5, <2>3, <2>4, <2>5
<1>11. \A n : SlotDate(p, n) = S(n)
  BY DEF SlotDate
<1>12. \A n, k \in 0 .. last : n < k => S(n) < S(k)
  <2>1. \A n \in 0 .. last : n \in 0 .. last + 1
    BY <1>5
  <2> HIDE DEF S
  <2> QED  BY <1>7, <2>1
<1> HIDE DEF S
<1> QED  BY <1>5, <1>9, <1>10, <1>11, <1>12 DEF Numbered, last

(* estimate_total_runs (schedule.py), which GET /recurring/{id} shows as    *)
(* the scheduled runs, is the number of days from the start to the end on  *)
(* which the mandate runs, in a calendar of any months: the estimate by    *)
(* full months is exact although short months clip slots.                  *)
THEOREM TotalRunsAreCounted ==
  ASSUME NEW p, Early(p.start), Early(p.end), p.cycle \in Cycle
  PROVE  TotalRuns(p) = Cardinality({d \in p.start .. p.end : RunsOn(p, d)})
<1> DEFINE R == {d \in p.start .. p.end : RunsOn(p, d)}
<1>1. p.start \in Nat /\ p.end \in Nat
  BY DEF Early
<1>2. CASE p.end < p.start
  <2>1. R = {} /\ TotalRuns(p) = 0
    BY <1>1, <1>2 DEF TotalRuns
  <2> QED  BY <2>1, FS_EmptySet
<1>3. CASE p.end >= p.start
  <2> DEFINE last == SlotBefore(p, p.end)
             slot == [n \in 0 .. last |-> SlotDate(p, n)]
  <2>1. p.start <= p.end
    BY <1>1, <1>3
  <2>2. Numbered(p, p.end, last)
    BY <1>1, <2>1, DailyNumbered, WeeklyNumbered, MonthlyNumbered DEF Cycle
  <2>3. TotalRuns(p) = last + 1
    BY <1>1, <1>3 DEF TotalRuns, SlotBefore, Cycle
  <2> HIDE DEF last
  <2>4. /\ last \in Nat
        /\ \A n \in 0 .. last : SlotDate(p, n) \in R /\ SlotDate(p, n) \in Nat
        /\ \A n, k \in 0 .. last : n < k => SlotDate(p, n) < SlotDate(p, k)
        /\ \A d \in R : \E n \in 0 .. last : d = SlotDate(p, n)
    BY <1>1, <2>2 DEF Numbered
  <2> HIDE DEF R
  <2>5. slot \in [0 .. last -> R] /\ \A d \in R : \E n \in 0 .. last : slot[n] = d
    BY <2>4
  <2>6. \A n, k \in 0 .. last : slot[n] = slot[k] => n = k
    <3> SUFFICES ASSUME NEW n \in 0 .. last, NEW k \in 0 .. last, n # k PROVE slot[n] # slot[k]
      OBVIOUS
    <3>1. n < k \/ k < n
      BY <2>4
    <3>2. SlotDate(p, n) # SlotDate(p, k)
      BY <2>4, <3>1
    <3> QED  BY <3>2
  <2> HIDE DEF slot
  <2>7. slot \in Bijection(0 .. last, R)
    BY <2>5, <2>6 DEF Bijection, Injection, Surjection, IsInjective
  <2>8. IsFiniteSet(0 .. last) /\ Cardinality(0 .. last) = last + 1
    <3>1. 0 \in Int /\ last \in Int /\ ~(0 > last) /\ last - 0 + 1 = last + 1
      BY <2>4
    <3>2. /\ IsFiniteSet(0 .. last)
          /\ Cardinality(0 .. last) = IF 0 > last THEN 0 ELSE last - 0 + 1
      BY ONLY <3>1, FS_Interval
    <3> QED  BY <3>1, <3>2
  <2>9. Cardinality(R) = Cardinality(0 .. last)
    BY <2>7, <2>8, FS_Bijection DEF ExistsBijection
  <2> QED  BY <2>3, <2>8, <2>9 DEF R
<1> QED  BY <1>1, <1>2, <1>3

-----------------------------------------------------------------------------
(* The row of an execution, field by field *)

LEMMA StageWritten ==
  ASSUME NEW old \in Execution
  PROVE  LET new == [old EXCEPT !.stage = "write"]
         IN  /\ new \in Execution /\ new.stage = "write" /\ new.slot = old.slot
             /\ new.result = old.result /\ new.tries = old.tries
BY DEF Execution

LEMMA AnswerWritten ==
  ASSUME NEW old \in Execution, NEW answer
  PROVE  [old EXCEPT !.answer = answer] =
           [slot |-> old.slot, result |-> old.result, stage |-> old.stage,
            tries |-> old.tries, answer |-> answer]
<1>1. old = [slot |-> old.slot, result |-> old.result, stage |-> old.stage,
             tries |-> old.tries, answer |-> old.answer]
  BY DEF Execution
<1> QED  BY <1>1

LEMMA RowWritten ==
  ASSUME NEW old \in Execution, NEW answer
  PROVE  [[old EXCEPT !.stage = "write"] EXCEPT !.answer = answer] =
           [slot |-> old.slot, result |-> old.result, stage |-> "write",
            tries |-> old.tries, answer |-> answer]
<1> DEFINE mid == [old EXCEPT !.stage = "write"]
<1>1. /\ mid \in Execution /\ mid.stage = "write" /\ mid.slot = old.slot
      /\ mid.result = old.result /\ mid.tries = old.tries
  BY StageWritten
<1> HIDE DEF mid
<1>2. [mid EXCEPT !.answer = answer] =
        [slot |-> mid.slot, result |-> mid.result, stage |-> mid.stage, tries |-> mid.tries,
         answer |-> answer]
  BY <1>1, AnswerWritten
<1> QED  BY <1>1, <1>2 DEF mid

LEMMA AtWritten ==
  ASSUME NEW at
  PROVE  [NoCall EXCEPT !.at = at] =
           [at |-> at, op |-> "none", read |-> Start, reply |-> "none"]
BY DEF NoCall

-----------------------------------------------------------------------------
USE RecurringAssumption

(* Types *)

(* A mandate has a plan, and failures and runs only once it exists. *)
Unborn == status = "none" => failed = 0 /\ \A i \in Run : exec[i].stage = "none"

(* Where an execution may be once it has been claimed *)
Unclaimed == \A i \in Run : i > runs => exec[i].stage = "none"

(* One order is on its way at most, and before there is a mandate; nothing  *)
(* else is asked or told before.                                           *)
Ordered  == \A k \in Call : AtLock(k, "create") => plan # NoPlan /\ status = "none"
OneOrder == \A j, k \in Call : AtLock(j, "create") /\ AtLock(k, "create") => j = k
Asked    == \A k \in Call : call[k].at = "lock" => call[k].op = "create" \/ status # "none"
Told     == /\ \A k \in Call : call[k].reply # "none" => status # "none"
            /\ local # "none" => status # "none"

Started == Ordered /\ OneOrder /\ Asked /\ Told

(* A job has read a time that was, and holds the lock of an active mandate. *)
Clocked == \A time \in Time : jobs.read[time] > 0 => time <= now
Held    == jobs.ends => status = "ACTIVE"

Typed == TypeOK /\ Unborn /\ Unclaimed /\ Started /\ Clocked /\ Held

(* What a job does before it has the lock, and when it leaves without effect *)
Fetch == Dispatch \/ LoseJob \/ TakeJob \/ RollBack \/ \E time \in Time : Drop(time)

LEMMA Fetched ==
  ASSUME Fetch
  PROVE  /\ UNCHANGED <<now, plan, status, next, failed, runs, exec, late, note, call, waits,
                        stale, local, revoked, ran, paid, funds>>
         /\ UNCHANGED faults \/ Fault
BY DEF Fetch, Dispatch, LoseJob, TakeJob, RollBack, Drop, mandate, api, account

LEMMA Found ==
  ASSUME NEW time \in Time, FindEnd(time)
  PROVE  /\ UNCHANGED <<now, plan, status, next, failed, runs, exec, late, call, waits,
                        stale, local, revoked, ran, paid, funds, faults>>
         /\ status = "ACTIVE" /\ next <= time /\ PastEnd(next) /\ jobs.read[time] > 0
         /\ note' = note \cup {Announcement("COMPLETED")}
BY DEF FindEnd, Claimable, Locks, mandate, api, account

LEMMA Completed ==
  ASSUME Complete
  PROVE  /\ UNCHANGED <<now, plan, next, failed, runs, exec, late, note, call, waits,
                        stale, local, revoked, ran, paid, funds, faults>>
         /\ jobs.ends /\ status' = "COMPLETED"
BY DEF Complete, api, account

LEMMA PlansAreEarly ==
  ASSUME NEW p \in Plans
  PROVE  Early(p.start) /\ p.cycle \in Cycle /\ p # NoPlan
<1>1. /\ p \in [start : Date, cycle : {"DAILY", "WEEKLY", "MONTHLY"}, end : Date]
      /\ p.start < FirstDay[Months - 1]
  OBVIOUS
<1>2. p.start \in Date /\ p.cycle \in {"DAILY", "WEEKLY", "MONTHLY"}
  BY <1>1
<1>3. p.cycle # NoPlan.cycle
  BY <1>2 DEF NoPlan
<1> QED  BY <1>1, <1>2, <1>3 DEF Early, Date, Cycle

LEMMA Times == Time \subseteq Nat /\ Start \in Time
<1> DEFINE last == 2 * FirstDay[Months - 1] - 1
<1>1. Time \subseteq 0 .. last /\ Start \in Time
  OBVIOUS
<1> HIDE DEF last
<1> QED  BY <1>1

(* The clock never shows a time in the last month of the calendar. *)
LEMMA ClockIsEarly ==
  ASSUME NEW time \in Nat, NEW other \in Time, time <= other
  PROVE  Early(DateOf(time)) /\ other \in Nat
<1> DEFINE last == FirstDay[Months - 1]
<1>1. other \in 0 .. 2 * last - 1 /\ last \in Nat
  <2>1. Months - 1 \in 0 .. Months
    OBVIOUS
  <2> QED  BY <2>1
<1> HIDE DEF last
<1>2. DateOf(time) \in Nat /\ 2 * DateOf(time) <= time
  BY Halves
<1>3. other \in Nat /\ DateOf(time) < last
  <2> DEFINE date == DateOf(time)
  <2> HIDE DEF date
  <2>1. date \in Nat /\ 2 * date <= time
    BY <1>2 DEF date
  <2> QED  BY <1>1, <2>1 DEF date
<1> QED  BY <1>2, <1>3 DEF Early, last

(* What the schedule gives for a mandate at a time that the clock has shown *)
LEMMA NextRuns ==
  ASSUME Typed, status # "none", NEW after \in Nat, NEW other \in Time, after <= other
  PROVE  LET run == NextRunAt(plan, after)
         IN  run \in Nat /\ run > after /\ run % 2 = 1 /\ RunsOn(plan, DateOf(run))
<1>1. plan \in Plans
  BY DEF Typed, TypeOK
<1> QED  BY <1>1, PlansAreEarly, ClockIsEarly, NextRunIsFirst DEF IsFirstSlotAfter

LEMMA FirstRuns ==
  ASSUME NEW p \in Plans
  PROVE  /\ FirstRunAt(p) \in Nat /\ FirstRunAt(p) % 2 = 1
         /\ RunsOn(p, DateOf(FirstRunAt(p)))
<1> DEFINE a == p.start
<1>1. a \in Nat /\ p.cycle \in Cycle
  BY PlansAreEarly DEF Early
<1>2. /\ 2 * a + 1 \in Nat /\ (2 * a + 1) % 2 = 1 /\ DateOf(2 * a + 1) = a
  BY <1>1, Odd
<1>3. RunsOn(p, a)
  <2>1. (a - p.start) % Week = 0 /\ a >= p.start
    BY <1>1
  <2>2. CASE p.cycle = "DAILY"
    BY <2>1, <2>2 DEF RunsOn
  <2>3. CASE p.cycle = "WEEKLY"
    BY <2>1, <2>3 DEF RunsOn
  <2>4. CASE p.cycle = "MONTHLY"
    BY <2>1, <2>4 DEF RunsOn
  <2> QED  BY <1>1, <2>2, <2>3, <2>4 DEF Cycle
<1> QED  BY <1>2, <1>3 DEF FirstRunAt

(* Every step of a task replaces the row of its execution. *)
Moved(i, result, stage, tries, answer) ==
  exec' = [exec EXCEPT ![i] = [slot |-> exec[i].slot, result |-> result, stage |-> stage,
                               tries |-> tries, answer |-> answer]]

LEMMA Row ==
  ASSUME Typed, NEW i \in Run
  PROVE  /\ exec[i] = [slot |-> exec[i].slot, result |-> exec[i].result,
                       stage |-> exec[i].stage, tries |-> exec[i].tries,
                       answer |-> exec[i].answer]
         /\ exec[i].slot \in Nat
         /\ exec[i].result \in {"none", "EXECUTING", "SUCCESS", "FAILED"}
         /\ exec[i].stage \in {"none", "look", "call", "sent", "write", "end", "dead"}
         /\ exec[i].tries \in 0 .. MaxRetries /\ exec[i].answer \in Reasons
         /\ exec \in [Run -> Execution]
<1>1. exec \in [Run -> Execution]
  BY DEF Typed, TypeOK
<1>2. exec[i] \in Execution
  BY <1>1
<1> QED  BY <1>1, <1>2 DEF Execution

LEMMA Decided ==
  ASSUME NEW i \in Run, NEW decision \in Decisions(i), Typed
  PROVE  decision \in Answers
<1>1. Rejections \subseteq Answers
  BY DEF Answers, Cancelling
<1>2. ran[i] \in Answers \cup {"none"}
  BY DEF Typed, TypeOK
<1>3. Before(i) \subseteq Answers
  BY <1>2 DEF Before
<1> QED  BY <1>1, <1>3 DEF Decisions, Answers, Cancelling

LEMMA Rewritten ==
  ASSUME Typed, NEW i \in Run, NEW answer
  PROVE  [exec EXCEPT ![i].stage = "write", ![i].answer = answer] =
           [exec EXCEPT ![i] = [slot |-> exec[i].slot, result |-> exec[i].result,
                                stage |-> "write", tries |-> exec[i].tries, answer |-> answer]]
<1> DEFINE old == exec[i]
<1>1. old \in Execution /\ exec \in [Run -> Execution]
  BY DEF Typed, TypeOK
<1>2. [exec EXCEPT ![i].stage = "write", ![i].answer = answer] =
        [exec EXCEPT ![i] = [[old EXCEPT !.stage = "write"] EXCEPT !.answer = answer]]
  BY <1>1
<1> HIDE DEF old
<1> QED  BY <1>1, <1>2, RowWritten DEF old

LEMMA Moves ==
  ASSUME Typed, NEW i \in Run
  PROVE  LET row == exec[i]
         IN  /\ LookUp(i) => \/ Moved(i, row.result, "call", row.tries, row.answer)
                             \/ Moved(i, row.result, "write", row.tries, "RECIPIENT_ALIAS_GONE")
             /\ CallBank(i) => \/ Moved(i, row.result, "sent", row.tries, row.answer)
                               \/ Moved(i, row.result, "write", row.tries, "NETWORK_TIMEOUT")
             /\ NoAnswer(i) =>
                  \/ /\ row.tries < MaxRetries
                     /\ Moved(i, row.result, "call", row.tries + 1, row.answer)
                  \/ Moved(i, row.result, "dead", 0, "none")
                  \/ Moved(i, row.result, "write", row.tries, "NETWORK_TIMEOUT")
             /\ CrashRun(i) => Moved(i, row.result, "dead", 0, "none")
             /\ Serve(i) =>
                  \E decision \in Decisions(i) :
                    Serves(i, decision) /\ Moved(i, row.result, "write", row.tries, decision)
             /\ Succeed(i) => Moved(i, "SUCCESS", "end", 0, row.answer)
             /\ Reject(i) => Moved(i, "FAILED", "end", 0, row.answer)
<1> DEFINE row == exec[i]
<1>1. /\ row = [slot |-> row.slot, result |-> row.result, stage |-> row.stage,
                tries |-> row.tries, answer |-> row.answer]
      /\ exec \in [Run -> Execution]
  BY Row
<1>2. LookUp(i) => \/ Moved(i, row.result, "call", row.tries, row.answer)
                   \/ Moved(i, row.result, "write", row.tries, "RECIPIENT_ALIAS_GONE")
  BY <1>1 DEF LookUp, Reaches, Moved
<1>3. CallBank(i) => \/ Moved(i, row.result, "sent", row.tries, row.answer)
                     \/ Moved(i, row.result, "write", row.tries, "NETWORK_TIMEOUT")
  BY <1>1 DEF CallBank, Reaches, Moved
<1>4. NoAnswer(i) =>
        \/ /\ row.tries < MaxRetries
           /\ Moved(i, row.result, "call", row.tries + 1, row.answer)
        \/ Moved(i, row.result, "dead", 0, "none")
        \/ Moved(i, row.result, "write", row.tries, "NETWORK_TIMEOUT")
  BY <1>1 DEF NoAnswer, Abandoned, Moved
<1>5. CrashRun(i) => Moved(i, row.result, "dead", 0, "none")
  BY <1>1 DEF CrashRun, Abandoned, Moved
<1>6. Serve(i) =>
        \E decision \in Decisions(i) :
          Serves(i, decision) /\ Moved(i, row.result, "write", row.tries, decision)
  <2> SUFFICES ASSUME Serve(i)
               PROVE  \E decision \in Decisions(i) :
                        /\ Serves(i, decision)
                        /\ Moved(i, row.result, "write", row.tries, decision)
    OBVIOUS
  <2>1. PICK decision \in Decisions(i) :
          /\ Serves(i, decision)
          /\ exec' = [exec EXCEPT ![i].stage = "write", ![i].answer = decision]
    BY DEF Serve
  <2>2. Moved(i, row.result, "write", row.tries, decision)
    BY <2>1, Decided, Rewritten DEF Moved, Reasons
  <2> QED  BY <2>1, <2>2
<1>7. Succeed(i) => Moved(i, "SUCCESS", "end", 0, row.answer)
  BY <1>1 DEF Succeed, Writes, Moved
<1>8. Reject(i) => Moved(i, "FAILED", "end", 0, row.answer)
  BY <1>1 DEF Reject, Writes, Moved
<1> QED  BY <1>2, <1>3, <1>4, <1>5, <1>6, <1>7, <1>8

(* The row is in place, and the mandate of the execution exists. *)
LEMMA MovedRow ==
  ASSUME Typed, NEW i \in Run, exec[i].stage # "none",
         NEW result \in {"none", "EXECUTING", "SUCCESS", "FAILED"},
         NEW stage \in {"look", "call", "sent", "write", "end", "dead"},
         NEW tries \in 0 .. MaxRetries, NEW answer \in Reasons,
         Moved(i, result, stage, tries, answer)
  PROVE  /\ status # "none" /\ i <= runs
         /\ exec' \in [Run -> Execution]
         /\ exec'[i] = [slot |-> exec[i].slot, result |-> result, stage |-> stage,
                        tries |-> tries, answer |-> answer]
         /\ \A q \in Run : q # i => exec'[q] = exec[q]
         /\ runs' = runs => Unclaimed'
<1> DEFINE row == [slot |-> exec[i].slot, result |-> result, stage |-> stage,
                   tries |-> tries, answer |-> answer]
<1>1. row \in Execution /\ row.stage # "none"
  BY Row DEF Execution
<1>2. exec' = [exec EXCEPT ![i] = row] /\ exec \in [Run -> Execution]
  BY Row DEF Moved
<1> HIDE DEF row
<1>3. status # "none" /\ i <= runs
  <2>1. runs \in Nat /\ i \in Nat
    BY DEF Typed, TypeOK, Run
  <2> QED  BY <2>1 DEF Typed, Unborn, Unclaimed
<1>4. /\ exec' \in [Run -> Execution] /\ exec'[i] = row
      /\ \A q \in Run : q # i => exec'[q] = exec[q]
  BY <1>1, <1>2
<1>5. runs' = runs => Unclaimed'
  BY <1>3, <1>4 DEF Typed, Unclaimed, Run, TypeOK
<1> QED  BY <1>3, <1>4, <1>5 DEF row

LEMMA CallRows ==
  ASSUME NEW at \in {"idle", "lock", "ok", "refused", "done"}, NEW op \in Ops \cup {"none"},
         NEW read \in Time, NEW reply \in Statuses
  PROVE  /\ [NoCall EXCEPT !.at = at] =
              [at |-> at, op |-> "none", read |-> Start, reply |-> "none"]
         /\ [NoCall EXCEPT !.at = at] \in Calls
         /\ [at |-> at, op |-> op, read |-> read, reply |-> reply] \in Calls
<1>1. [NoCall EXCEPT !.at = at] = [at |-> at, op |-> "none", read |-> Start, reply |-> "none"]
  BY AtWritten
<1>2. [at |-> at, op |-> op, read |-> read, reply |-> reply] \in Calls
  BY DEF Calls
<1>3. [at |-> at, op |-> "none", read |-> Start, reply |-> "none"] \in Calls
  BY DEF Calls, Statuses
<1> QED  BY <1>1, <1>2, <1>3

LEMMA Received ==
  ASSUME Typed, NEW k \in Call, NEW op \in Ops, Receives(k, op)
  PROVE  /\ call' \in [Call -> Calls] /\ waits' = {k} /\ waits' \subseteq Call /\ ~Busy
         /\ call[k].at = "idle"
         /\ call'[k].at = "lock" /\ call'[k].op = op
         /\ call'[k].read = now /\ call'[k].reply = "none"
         /\ \A j \in Call : j # k => call'[j] = call[j]
<1>1. now \in Time /\ "none" \in Statuses /\ call \in [Call -> Calls]
  BY DEF Typed, TypeOK, Statuses
<1> DEFINE row == [at |-> "lock", op |-> op, read |-> now, reply |-> "none"]
<1>2. row \in Calls
  BY <1>1, CallRows
<1>3. call' = [call EXCEPT ![k] = row] /\ waits' = {k} /\ ~Busy /\ call[k].at = "idle"
  BY DEF Receives
<1> HIDE DEF row
<1>4. /\ call' \in [Call -> Calls] /\ call'[k] = row
      /\ \A j \in Call : j # k => call'[j] = call[j]
  BY <1>1, <1>2, <1>3
<1> QED  BY <1>3, <1>4 DEF row

LEMMA Replied ==
  ASSUME Typed, NEW k \in Call, NEW at \in {"ok", "refused"}, NEW reply \in Statuses,
         Replies(k, at, reply)
  PROVE  /\ call' \in [Call -> Calls]
         /\ call'[k].at # "lock" /\ call'[k].reply \in {reply, "none"}
         /\ \A j \in Call : j # k => call'[j] = call[j]
<1>1. "none" \in Statuses /\ call \in [Call -> Calls] /\ call[k].op \in Ops \cup {"none"}
  BY DEF Typed, TypeOK, Statuses, Calls
<1> DEFINE told == [at |-> at, op |-> call[k].op, read |-> Start, reply |-> reply]
           gone == [NoCall EXCEPT !.at = "done"]
           row  == IF k \in waits THEN told ELSE gone
<1>2. /\ told \in Calls /\ told.at # "lock" /\ told.reply = reply
      /\ gone \in Calls /\ gone.at = "done" /\ gone.reply = "none"
  BY <1>1, CallRows
<1>3. call' = [call EXCEPT ![k] = row]
  BY DEF Replies
<1>4. row \in Calls /\ row.at # "lock" /\ row.reply \in {reply, "none"}
  BY <1>2
<1> HIDE DEF row
<1> QED  BY <1>1, <1>3, <1>4

LEMMA Dropped ==
  ASSUME Typed, NEW k \in Call, call' = [call EXCEPT ![k] = [NoCall EXCEPT !.at = "done"]]
  PROVE  /\ call' \in [Call -> Calls]
         /\ call'[k].at = "done" /\ call'[k].reply = "none"
         /\ \A j \in Call : j # k => call'[j] = call[j]
<1> DEFINE gone == [NoCall EXCEPT !.at = "done"]
<1>1. gone \in Calls /\ gone.at = "done" /\ gone.reply = "none" /\ call \in [Call -> Calls]
  BY CallRows DEF Typed, TypeOK, Statuses
<1> HIDE DEF gone
<1> QED  BY <1>1 DEF gone

(* What a call does to the others: nothing. *)
LEMMA StartedKept ==
  ASSUME Typed, NEW k \in Call,
         \A j \in Call : j # k => call'[j] = call[j],
         call'[k].at # "lock", call'[k].reply # "none" => status' # "none",
         local' # "none" => status' # "none",
         status # "none" => status' # "none",
         plan' = plan, status' = status \/ status # "none" \/ AtLock(k, "create")
  PROVE  Started'
<1>1. \A j \in Call : AtLock(j, "create")' => j # k /\ AtLock(j, "create")
  BY DEF AtLock
<1>2. \A i, j \in Call : AtLock(i, "create") /\ AtLock(j, "create") => i = j
  BY DEF Typed, Started, OneOrder
<1>3. Ordered'
  <2> SUFFICES ASSUME NEW j \in Call, AtLock(j, "create")'
               PROVE  plan # NoPlan /\ status' = "none"
    BY DEF Ordered
  <2>1. plan # NoPlan /\ status = "none" /\ ~AtLock(k, "create")
    BY <1>1, <1>2 DEF Typed, Started, Ordered
  <2> QED  BY <2>1
<1>4. OneOrder'
  BY <1>1, <1>2 DEF OneOrder
<1>5. Asked' /\ Told'
  BY DEF Typed, Started, Asked, Told
<1> QED  BY <1>3, <1>4, <1>5 DEF Started

LEMMA StartedStep == Typed /\ [Next]_vars => Started'
<1> SUFFICES ASSUME Typed, [Next]_vars PROVE Started'
  OBVIOUS
<1>1. ASSUME NEW k \in Call, Order(k) PROVE Started'
  <2>1. /\ plan = NoPlan /\ plan' \in Plans /\ UNCHANGED <<status, local>>
        /\ Receives(k, "create")
    BY <1>1 DEF Order, mandate
  <2>2. status = "none" /\ \A j \in Call : ~AtLock(j, "create")
    BY <2>1 DEF Typed, TypeOK, Started, Ordered
  <2>3. /\ call'[k].at = "lock" /\ call'[k].op = "create" /\ call'[k].reply = "none"
        /\ \A j \in Call : j # k => call'[j] = call[j]
    BY <2>1, Received DEF Ops
  <2>4. plan' # NoPlan
    BY <2>1, PlansAreEarly
  <2>5. Ordered'
    BY <2>1, <2>2, <2>4 DEF Ordered
  <2>6. OneOrder'
    BY <2>2, <2>3 DEF OneOrder, AtLock
  <2>7. Asked' /\ Told'
    BY <2>1, <2>3 DEF Typed, Started, Asked, Told
  <2> QED  BY <2>5, <2>6, <2>7 DEF Started
<1>2. ASSUME NEW k \in Call, NEW op \in Ops \ {"create"}, Ask(k, op) PROVE Started'
  <2>1. /\ local # "none" /\ UNCHANGED <<plan, status, local>> /\ Receives(k, op)
    BY <1>2 DEF Ask, mandate
  <2>2. /\ call'[k].at = "lock" /\ call'[k].op = op /\ call'[k].reply = "none"
        /\ \A j \in Call : j # k => call'[j] = call[j]
    BY <2>1, Received
  <2>3. Ordered' /\ OneOrder'
    <3>1. \A j \in Call : AtLock(j, "create")' => AtLock(j, "create")
      BY <2>2 DEF AtLock
    <3> QED  BY <2>1, <3>1 DEF Typed, Started, Ordered, OneOrder
  <2>4. Asked' /\ Told'
    BY <2>1, <2>2 DEF Typed, Started, Asked, Told
  <2> QED  BY <2>3, <2>4 DEF Started
<1>3. ASSUME NEW k \in Call, Answered(k) PROVE Started'
  <2>1. /\ UNCHANGED <<plan, status>> /\ (local' = local \/ local' = call[k].reply)
        /\ call' = [call EXCEPT ![k] = [NoCall EXCEPT !.at = "done"]]
    BY <1>3 DEF Answered, mandate
  <2>2. local' # "none" => status' # "none"
    BY <2>1 DEF Typed, Started, Told
  <2> QED  BY <2>1, <2>2, Dropped, StartedKept
<1>4. ASSUME NEW k \in Call, GiveUp(k) PROVE Started'
  <2>1. /\ UNCHANGED <<plan, status, local>>
        /\ \/ UNCHANGED call
           \/ call' = [call EXCEPT ![k] = [NoCall EXCEPT !.at = "done"]]
    BY <1>4 DEF GiveUp, mandate
  <2>2. local' # "none" => status' # "none"
    BY <2>1 DEF Typed, Started, Told
  <2>3. CASE UNCHANGED call
    BY <2>1, <2>3 DEF Typed, Started, Ordered, OneOrder, Asked, Told, AtLock
  <2> QED  BY <2>1, <2>2, <2>3, Dropped, StartedKept
<1>5. ASSUME NEW k \in Call, Refuse(k) \/ Create(k) \/ Pause(k) \/ Resume(k) \/ Cancel(k)
      PROVE  Started'
  <2>1. /\ UNCHANGED <<plan, local>>
        /\ \/ Replies(k, "refused", "none") /\ UNCHANGED status
           \/ Replies(k, "ok", status') /\ status' \in {"ACTIVE", "PAUSED", "CANCELLED"}
    BY <1>5 DEF Refuse, Create, Pause, Resume, Cancel, mandate
  <2>2. status # "none" \/ AtLock(k, "create")
    BY <1>5 DEF Refuse, Create, Pause, Resume, Cancel, AtLock, Typed, Started, Asked
  <2>3. {"none", "ACTIVE", "PAUSED", "CANCELLED"} \subseteq Statuses
    BY DEF Statuses, Final
  <2>4. /\ \A j \in Call : j # k => call'[j] = call[j]
        /\ call'[k].at # "lock" /\ (call'[k].reply # "none" => status' # "none")
    BY <2>1, <2>3, Replied
  <2>5. /\ local' # "none" => status' # "none"
        /\ status # "none" => status' # "none"
    BY <2>1 DEF Typed, Started, Told
  <2> QED  BY <2>1, <2>2, <2>4, <2>5, StartedKept
<1>6. ASSUME UNCHANGED <<plan, call>>, status' = status \/ (status # "none" /\ status' # "none"),
             local' # "none" => local # "none" \/ status' # "none"
      PROVE  Started'
  BY <1>6 DEF Typed, Started, Ordered, OneOrder, Asked, Told, AtLock
<1>7. CASE Tick \/ RevokeLocally
  BY <1>6, <1>7 DEF Tick, RevokeLocally, mandate, api
<1>8. CASE Fetch
  BY <1>6, <1>8, Fetched
<1>9. CASE Complete
  <2>1. status = "ACTIVE"
    BY <1>9, Completed DEF Typed, Held
  <2> QED  BY <1>6, <1>9, <2>1, Completed
<1>10. ASSUME NEW time \in Time, FindEnd(time) PROVE Started'
  BY <1>6, <1>10, Found
<1>11. ASSUME NEW time \in Time, Claim(time) PROVE Started'
  BY <1>6, <1>11 DEF Claim, mandate, api
<1>12. CASE Refresh
  BY <1>6, <1>12 DEF Refresh, mandate, api
<1>13. ASSUME NEW i \in Run, LookUp(i) \/ CallBank(i) \/ NoAnswer(i) \/ CrashRun(i)
                            \/ Serve(i) \/ ServeLate(i)
      PROVE  Started'
  BY <1>6, <1>13 DEF LookUp, CallBank, NoAnswer, CrashRun, Serve, ServeLate, mandate, api
<1>14. ASSUME NEW i \in Run, Succeed(i) \/ Reject(i) PROVE Started'
  <2>1. UNCHANGED <<plan, call, local>>
    BY <1>14 DEF Succeed, Reject, api
  <2>2. status' = status \/ (status = "ACTIVE" /\ status' # "none")
    BY <1>14 DEF Succeed, Reject, After
  <2> QED  BY <1>6, <2>1, <2>2
<1>15. ASSUME NEW n \in note, Notify(n) \/ NotifyFails(n) PROVE Started'
  BY <1>6, <1>15 DEF Notify, NotifyFails, mandate, api
<1>16. CASE UNCHANGED vars
  BY <1>6, <1>16 DEF vars, mandate, api
<1> QED
  BY <1>1, <1>2, <1>3, <1>4, <1>5, <1>7, <1>8, <1>9, <1>10, <1>11, <1>12, <1>13, <1>14,
     <1>15, <1>16 DEF Next, Fetch

(* What the bank and the notices do keeps its types. *)
LEMMA ServesType ==
  ASSUME Typed, NEW i \in Run, NEW decision \in Decisions(i), Serves(i, decision)
  PROVE  ran' \in [Run -> Answers \cup {"none"}] /\ paid' \in [Run -> Nat] /\ funds' \in Nat
<1>1. decision \in Answers
  BY Decided
<1>2. /\ ran \in [Run -> Answers \cup {"none"}] /\ paid \in [Run -> Nat] /\ funds \in Nat
  BY DEF Typed, TypeOK
<1>3. decision = "EXECUTED" /\ Before(i) = {} => funds >= 1
  BY <1>2 DEF Decisions
<1>4. paid' \in [Run -> Nat] /\ funds' \in Nat
  <2>1. CASE decision = "EXECUTED" /\ Before(i) = {}
    <3>1. paid' = [paid EXCEPT ![i] = @ + 1] /\ funds' = funds - 1
      BY <2>1 DEF Serves
    <3> QED  BY <1>2, <1>3, <2>1, <3>1
  <2>2. CASE ~(decision = "EXECUTED" /\ Before(i) = {})
    BY <1>2, <2>2 DEF Serves
  <2> QED  BY <2>1, <2>2
<1>5. ran' \in [Run -> Answers \cup {"none"}]
  BY <1>1, <1>2 DEF Serves
<1> QED  BY <1>4, <1>5

LEMMA NoteType ==
  ASSUME Typed, NEW n \in note
  PROVE  Again(n) \subseteq Note /\ n \in Note /\ n.news \in {"PAUSED"} \cup Final
         /\ \A m \in Again(n) : m.news = n.news
<1>1. n \in Note
  BY DEF Typed, TypeOK
<1>2. n.tries \in 0 .. MaxRetries /\ n.news \in {"PAUSED"} \cup Final
  BY <1>1 DEF Note
<1>3. n.tries < MaxRetries => n.tries + 1 \in 0 .. MaxRetries
  BY <1>2
<1>4. n.tries < MaxRetries =>
        /\ [n EXCEPT !.tries = @ + 1] \in Note /\ [n EXCEPT !.tries = @ + 1].news = n.news
  BY <1>1, <1>3 DEF Note
<1> QED  BY <1>1, <1>2, <1>4 DEF Again

LEMMA AnnouncementType ==
  ASSUME NEW news \in {"PAUSED"} \cup Final
  PROVE  Announcement(news) \in Note /\ Announcement(news).news = news
BY DEF Announcement, Note

LEMMA StatusTypes == {"none", "ACTIVE", "PAUSED", "CANCELLED", "COMPLETED"} = Statuses
BY DEF Statuses, Final

(* The types are kept by the bank's application and the endpoints. *)
LEMMA CallType ==
  ASSUME Typed, NEW k \in Call,
         \/ Order(k) \/ \E op \in Ops \ {"create"} : Ask(k, op)
         \/ Answered(k) \/ GiveUp(k)
         \/ Refuse(k) \/ Create(k) \/ Pause(k) \/ Resume(k) \/ Cancel(k)
  PROVE  TypeOK' /\ Unborn' /\ Unclaimed'
<1> DEFINE Api == Refuse(k) \/ Create(k) \/ Pause(k) \/ Resume(k) \/ Cancel(k)
<1>1. UNCHANGED <<now, task, late, account>>
  BY DEF Order, Ask, Answered, GiveUp, Refuse, Create, Pause, Resume, Cancel
<1>2. call' \in [Call -> Calls] /\ waits' \subseteq Call
  <2>1. CASE Order(k)
    BY <2>1, Received DEF Order, Ops
  <2>2. ASSUME NEW op \in Ops \ {"create"}, Ask(k, op)
        PROVE  call' \in [Call -> Calls] /\ waits' \subseteq Call
    BY <2>2, Received DEF Ask
  <2>3. CASE Answered(k) \/ GiveUp(k)
    <3>1. waits' = {} /\ (UNCHANGED call \/ call' = [call EXCEPT ![k] = [NoCall EXCEPT !.at = "done"]])
      BY <2>3 DEF Answered, GiveUp
    <3> QED  BY <3>1, Dropped DEF Typed, TypeOK
  <2>4. CASE Api
    <3>1. {"none", "ACTIVE", "PAUSED", "CANCELLED"} \subseteq Statuses
      BY StatusTypes
    <3>2. call' \in [Call -> Calls]
      BY <2>4, <3>1, Replied DEF Refuse, Create, Pause, Resume, Cancel
    <3>3. waits' = waits
      BY <2>4 DEF Refuse, Create, Pause, Resume, Cancel
    <3> QED  BY <3>2, <3>3 DEF Typed, TypeOK
  <2> QED  BY <2>1, <2>2, <2>3, <2>4
<1>3. plan' \in Plans \cup {NoPlan} /\ (status' # "none" => plan' # NoPlan)
  <2>1. CASE Order(k)
    <3>1. plan' \in Plans
      BY <2>1 DEF Order
    <3> QED  BY <3>1, PlansAreEarly
  <2>2. CASE ~Order(k)
    <3>1. plan' = plan /\ (status' = status \/ AtLock(k, "create") \/ status # "none")
      BY <2>2
      DEF Ask, Answered, GiveUp, Refuse, Create, Pause, Resume, Cancel, mandate, AtLock,
          Typed, Started, Asked
    <3> QED  BY <3>1 DEF Typed, TypeOK, Started, Ordered
  <2> QED  BY <2>1, <2>2
<1>4. status' \in Statuses /\ next' \in Nat /\ failed' \in Nat
      /\ (status' = "none" => status = "none" /\ failed' = failed)
  <2>1. CASE Create(k)
    <3>1. plan \in Plans
      BY <2>1 DEF Create, Typed, TypeOK, Started, Ordered
    <3> QED  BY <2>1, <3>1, FirstRuns, StatusTypes DEF Create, Typed, TypeOK, mandate
  <2>2. CASE Resume(k)
    <3>1. call[k].read \in Time
      BY DEF Typed, TypeOK, Calls
    <3>2. call[k].read \in Nat /\ call[k].read <= call[k].read
      BY <3>1, Times
    <3>3. status # "none"
      BY <2>2 DEF Resume
    <3>4. NextRunAt(plan, call[k].read) \in Nat
      BY <3>1, <3>2, <3>3, NextRuns
    <3> QED  BY <2>2, <3>4, StatusTypes DEF Resume
  <2>3. CASE ~Create(k) /\ ~Resume(k)
    BY <2>3, StatusTypes
    DEF Order, Ask, Answered, GiveUp, Refuse, Pause, Cancel, mandate, Typed, TypeOK
  <2> QED  BY <2>1, <2>2, <2>3
<1>5. note' \subseteq Note
  <2>1. note' = note \/ note' = note \cup {Announcement("CANCELLED")}
    BY DEF Order, Ask, Answered, GiveUp, Refuse, Create, Pause, Resume, Cancel
  <2>2. Announcement("CANCELLED") \in Note
    BY AnnouncementType DEF Final
  <2> QED  BY <2>1, <2>2 DEF Typed, TypeOK
<1>6. stale' \in BOOLEAN /\ revoked' \in BOOLEAN
  BY DEF Order, Ask, Answered, GiveUp, Refuse, Create, Pause, Resume, Cancel, Typed, TypeOK
<1>7. local' \in Statuses
  <2>1. local' = local \/ local' = call[k].reply
    BY DEF Order, Ask, Answered, GiveUp, Refuse, Create, Pause, Resume, Cancel
  <2>2. call[k].reply \in Statuses /\ local \in Statuses
    BY DEF Typed, TypeOK, Calls
  <2> QED  BY <2>1, <2>2
<1>8. faults' \in 0 .. MaxFaults
  <2>1. UNCHANGED faults \/ Fault
    BY DEF Order, Ask, Answered, GiveUp, Refuse, Create, Pause, Resume, Cancel
  <2>2. faults \in 0 .. MaxFaults
    BY DEF Typed, TypeOK
  <2> QED  BY <2>1, <2>2 DEF Fault
<1>9. Unborn' /\ Unclaimed'
  BY <1>1, <1>4 DEF Typed, Unborn, Unclaimed, task
<1> QED
  BY <1>1, <1>2, <1>3, <1>4, <1>5, <1>6, <1>7, <1>8, <1>9 DEF Typed, TypeOK, task, account

(* The types are kept by the tasks. *)
LEMMA TaskType ==
  ASSUME Typed, NEW i \in Run,
         \/ LookUp(i) \/ CallBank(i) \/ NoAnswer(i) \/ CrashRun(i)
         \/ Serve(i) \/ ServeLate(i) \/ Succeed(i) \/ Reject(i)
  PROVE  TypeOK' /\ Unborn' /\ Unclaimed'
<1>1. UNCHANGED <<now, plan, next, runs, jobs, api, local, revoked>>
  BY DEF LookUp, CallBank, NoAnswer, CrashRun, Serve, ServeLate, Succeed, Reject, mandate, task
<1>2. /\ exec' \in [Run -> Execution] /\ Unclaimed'
      /\ status # "none" \/ (UNCHANGED <<exec, status, failed>>)
  <2>1. CASE ServeLate(i)
    BY <1>1, <2>1 DEF ServeLate, mandate, task, Typed, TypeOK, Unclaimed
  <2>2. CASE ~ServeLate(i)
    <3>1. exec[i].stage # "none"
      BY <2>2 DEF LookUp, CallBank, NoAnswer, CrashRun, Serve, Succeed, Reject
    <3>2. \E result \in {"none", "EXECUTING", "SUCCESS", "FAILED"},
             stage \in {"look", "call", "sent", "write", "end", "dead"},
             tries \in 0 .. MaxRetries, answer \in Reasons :
               Moved(i, result, stage, tries, answer)
      <4>1. /\ exec[i].result \in {"none", "EXECUTING", "SUCCESS", "FAILED"}
            /\ exec[i].tries \in 0 .. MaxRetries /\ exec[i].answer \in Reasons
            /\ exec[i].tries < MaxRetries => exec[i].tries + 1 \in 0 .. MaxRetries
            /\ 0 \in 0 .. MaxRetries
        <5>1. /\ exec[i].result \in {"none", "EXECUTING", "SUCCESS", "FAILED"}
              /\ exec[i].tries \in 0 .. MaxRetries /\ exec[i].answer \in Reasons
          BY Row
        <5> DEFINE t == exec[i].tries
        <5>2. t \in 0 .. MaxRetries /\ MaxRetries \in Nat
          BY <5>1
        <5> HIDE DEF t
        <5>3. (t < MaxRetries => t + 1 \in 0 .. MaxRetries) /\ 0 \in 0 .. MaxRetries
          BY <5>2
        <5> QED  BY <5>1, <5>3 DEF t
      <4>2. /\ {"RECIPIENT_ALIAS_GONE", "NETWORK_TIMEOUT", "none"} \subseteq Reasons
            /\ Decisions(i) \subseteq Reasons
        BY Decided DEF Reasons
      <4>3. CASE LookUp(i) \/ CallBank(i) \/ CrashRun(i)
        BY <4>1, <4>2, <4>3, Moves
      <4>4. CASE NoAnswer(i)
        BY <4>1, <4>2, <4>4, Moves
      <4>5. CASE Serve(i) \/ Succeed(i) \/ Reject(i)
        BY <4>1, <4>2, <4>5, Moves
      <4> QED  BY <2>2, <4>3, <4>4, <4>5
    <3>3. PICK result \in {"none", "EXECUTING", "SUCCESS", "FAILED"},
               stage \in {"look", "call", "sent", "write", "end", "dead"},
               tries \in 0 .. MaxRetries, answer \in Reasons :
                 Moved(i, result, stage, tries, answer)
      BY <3>2
    <3>4. status # "none" /\ exec' \in [Run -> Execution] /\ (runs' = runs => Unclaimed')
      BY <3>1, <3>3, MovedRow
    <3> QED  BY <1>1, <3>4
  <2> QED  BY <2>1, <2>2
<1>3. status' \in Statuses /\ failed' \in Nat /\ (status # "none" => status' # "none")
  <2>1. status \in Statuses /\ failed \in Nat
    BY DEF Typed, TypeOK
  <2>2. CASE Succeed(i)
    BY <2>1, <2>2, StatusTypes DEF Succeed
  <2>3. CASE Reject(i)
    <3>1. failed' = failed + 1 /\ status' \in {status, "CANCELLED", "PAUSED", "ACTIVE"}
      BY <2>3 DEF Reject, After
    <3> QED  BY <2>1, <3>1, StatusTypes
  <2>4. CASE ~Succeed(i) /\ ~Reject(i)
    BY <2>1, <2>4 DEF LookUp, CallBank, NoAnswer, CrashRun, Serve, ServeLate, mandate
  <2> QED  BY <2>2, <2>3, <2>4
<1>4. late' \subseteq Run
  BY DEF LookUp, CallBank, NoAnswer, CrashRun, Serve, ServeLate, Succeed, Reject, Typed, TypeOK
<1>5. note' \subseteq Note
  <2>1. CASE Succeed(i)
    <3>1. note' \subseteq note \cup {Announcement("COMPLETED")}
      BY <2>1 DEF Succeed
    <3>2. Announcement("COMPLETED") \in Note
      BY AnnouncementType DEF Final
    <3> QED  BY <3>1, <3>2 DEF Typed, TypeOK
  <2>2. CASE Reject(i)
    <3>1. note' \subseteq note \cup {Announcement(status')}
      BY <2>2 DEF Reject
    <3>2. note' = note \/ status' \in {"PAUSED"} \cup Final
      BY <2>2 DEF Reject, After, Final
    <3> QED  BY <3>1, <3>2, AnnouncementType DEF Typed, TypeOK
  <2>3. CASE ~Succeed(i) /\ ~Reject(i)
    BY <2>3 DEF LookUp, CallBank, NoAnswer, CrashRun, Serve, ServeLate, Typed, TypeOK
  <2> QED  BY <2>1, <2>2, <2>3
<1>6. ran' \in [Run -> Answers \cup {"none"}] /\ paid' \in [Run -> Nat] /\ funds' \in Nat
  <2>1. CASE Serve(i) \/ ServeLate(i)
    BY <2>1, ServesType DEF Serve, ServeLate
  <2>2. CASE ~(Serve(i) \/ ServeLate(i))
    BY <2>2
    DEF LookUp, CallBank, NoAnswer, CrashRun, Succeed, Reject, account, Typed, TypeOK
  <2> QED  BY <2>1, <2>2
<1>7. faults' \in 0 .. MaxFaults
  <2>1. UNCHANGED faults \/ Fault
    BY DEF LookUp, CallBank, NoAnswer, CrashRun, Serve, ServeLate, Succeed, Reject
  <2>2. faults \in 0 .. MaxFaults
    BY DEF Typed, TypeOK
  <2> QED  BY <2>1, <2>2 DEF Fault
<1>8. Unborn'
  BY <1>2, <1>3 DEF Typed, Unborn
<1> QED
  BY <1>1, <1>2, <1>3, <1>4, <1>5, <1>6, <1>7, <1>8 DEF Typed, TypeOK, api

(* The types are kept by the jobs. *)
LEMMA JobsChanged ==
  ASSUME Typed, NEW free \in Nat, NEW queued \in Nat, NEW ends \in BOOLEAN, NEW read,
         jobs' = [free |-> free, queued |-> queued, read |-> read, ends |-> ends],
         now' \in Nat, now <= now',
         \/ read = jobs.read
         \/ read = [jobs.read EXCEPT ![now] = @ + 1]
         \/ \E time \in Time : jobs.read[time] > 0 /\ read = [jobs.read EXCEPT ![time] = @ - 1],
         ends => status' = "ACTIVE"
  PROVE  jobs' \in Jobs /\ Clocked' /\ Held'
<1>1. /\ now \in Time /\ Time \subseteq Nat /\ jobs.read \in [Time -> Nat]
      /\ \A time \in Time : jobs.read[time] > 0 => time <= now
  BY Times DEF Typed, TypeOK, Jobs, Clocked
<1>2. read \in [Time -> Nat] /\ \A time \in Time : read[time] > 0 => time <= now
  <2>1. CASE read = jobs.read
    BY <1>1, <2>1
  <2>2. CASE read = [jobs.read EXCEPT ![now] = @ + 1]
    <3> DEFINE old == jobs.read
    <3>1. /\ old \in [Time -> Nat] /\ read = [old EXCEPT ![now] = @ + 1]
          /\ \A time \in Time : old[time] > 0 => time <= now
      BY <1>1, <2>2
    <3> HIDE DEF old
    <3>2. now \in Time /\ now \in Nat
      BY <1>1
    <3>3. now <= now
      BY <3>2
    <3>4. \A time \in Time : time # now => read[time] = old[time]
      BY ONLY <3>1
    <3>5. read \in [Time -> Nat]
      BY ONLY <3>1, <3>2
    <3> QED  BY ONLY <3>1, <3>3, <3>4, <3>5
  <2>3. ASSUME NEW gone \in Time, jobs.read[gone] > 0,
               read = [jobs.read EXCEPT ![gone] = @ - 1]
        PROVE  read \in [Time -> Nat] /\ \A time \in Time : read[time] > 0 => time <= now
    <3> DEFINE old == jobs.read
    <3>1. /\ old \in [Time -> Nat] /\ read = [old EXCEPT ![gone] = @ - 1] /\ old[gone] > 0
          /\ \A time \in Time : old[time] > 0 => time <= now
      BY <1>1, <2>3
    <3> HIDE DEF old
    <3>2. \A time \in Time : time # gone => read[time] = old[time]
      BY ONLY <3>1, gone \in Time
    <3>3. read[gone] = old[gone] - 1 /\ old[gone] \in Nat
      BY ONLY <3>1, gone \in Time
    <3>4. \A time \in Time : read[time] \in Nat
      BY ONLY <3>1, <3>2, <3>3, gone \in Time
    <3>5. \A time \in Time : read[time] > 0 => time <= now
      BY <3>1, <3>2
    <3> QED  BY <3>1, <3>4, <3>5
  <2> QED  BY <2>1, <2>2, <2>3
<1>3. jobs' \in Jobs /\ jobs'.read = read /\ jobs'.ends = ends
  BY <1>2 DEF Jobs
<1>4. Clocked'
  <2> SUFFICES ASSUME NEW time \in Time, read[time] > 0 PROVE time <= now'
    BY <1>3 DEF Clocked
  <2>1. time <= now /\ time \in Nat /\ now \in Nat
    BY <1>1, <1>2
  <2> QED  BY <2>1
<1>5. Held'
  BY <1>3 DEF Held
<1> QED  BY <1>3, <1>4, <1>5

(* The clock goes on, and a mandate stays. *)
LEMMA Onward ==
  ASSUME Typed, [Next]_vars
  PROVE  /\ now' \in Time /\ now' >= now
         /\ status # "none" => plan' = plan /\ status' # "none"
<1>1. now \in Time /\ now \in Nat /\ Time \subseteq Nat
  BY Times DEF Typed, TypeOK
<1>2. now' \in Time /\ now' >= now
  <2>1. CASE Tick
    BY <1>1, <2>1 DEF Tick
  <2>2. CASE ~Tick
    <3>1. now' = now
      <4>1. ASSUME NEW k \in Call,
                   \/ Order(k) \/ \E op \in Ops \ {"create"} : Ask(k, op)
                   \/ Answered(k) \/ GiveUp(k)
                   \/ Refuse(k) \/ Create(k) \/ Pause(k) \/ Resume(k) \/ Cancel(k)
            PROVE  now' = now
        BY <4>1 DEF Order, Ask, Answered, GiveUp, Refuse, Create, Pause, Resume, Cancel
      <4>2. ASSUME NEW i \in Run,
                   \/ LookUp(i) \/ CallBank(i) \/ NoAnswer(i) \/ CrashRun(i)
                   \/ Serve(i) \/ ServeLate(i) \/ Succeed(i) \/ Reject(i)
            PROVE  now' = now
        BY <4>2
        DEF LookUp, CallBank, NoAnswer, CrashRun, Serve, ServeLate, Succeed, Reject
      <4>3. ASSUME NEW n \in note, Notify(n) \/ NotifyFails(n) PROVE now' = now
        BY <4>3 DEF Notify, NotifyFails
      <4>4. ASSUME NEW time \in Time, FindEnd(time) \/ Claim(time) PROVE now' = now
        BY <4>4 DEF FindEnd, Claim
      <4>5. CASE Refresh \/ RevokeLocally \/ Complete \/ UNCHANGED vars
        BY <4>5 DEF Refresh, RevokeLocally, Complete, vars
      <4>6. CASE Fetch
        BY <4>6, Fetched
      <4> QED  BY <2>2, <4>1, <4>2, <4>3, <4>4, <4>5, <4>6 DEF Next, Fetch
    <3> QED  BY <1>1, <3>1
  <2> QED  BY <2>1, <2>2
<1>3. ASSUME status # "none" PROVE plan' = plan /\ status' # "none"
  <2>1. plan # NoPlan
    BY <1>3 DEF Typed, TypeOK
  <2>2. ASSUME NEW k \in Call,
               \/ Order(k) \/ \E op \in Ops \ {"create"} : Ask(k, op)
               \/ Answered(k) \/ GiveUp(k)
               \/ Refuse(k) \/ Create(k) \/ Pause(k) \/ Resume(k) \/ Cancel(k)
        PROVE  plan' = plan /\ status' # "none"
    BY <1>3, <2>1, <2>2
    DEF Order, Ask, Answered, GiveUp, Refuse, Create, Pause, Resume, Cancel, mandate
  <2>3. ASSUME NEW i \in Run,
               \/ LookUp(i) \/ CallBank(i) \/ NoAnswer(i) \/ CrashRun(i)
               \/ Serve(i) \/ ServeLate(i) \/ Succeed(i) \/ Reject(i)
        PROVE  plan' = plan /\ status' # "none"
    BY <1>3, <2>3
    DEF LookUp, CallBank, NoAnswer, CrashRun, Serve, ServeLate, Succeed, Reject, After, mandate
  <2>4. ASSUME NEW n \in note, Notify(n) \/ NotifyFails(n)
        PROVE  plan' = plan /\ status' # "none"
    BY <1>3, <2>4 DEF Notify, NotifyFails, mandate
  <2>5. ASSUME NEW time \in Time, FindEnd(time) \/ Claim(time)
        PROVE  plan' = plan /\ status' # "none"
    BY <1>3, <2>5 DEF FindEnd, Claim, mandate
  <2>6. CASE Tick \/ Refresh \/ RevokeLocally \/ Complete \/ UNCHANGED vars
    BY <1>3, <2>6 DEF Tick, Refresh, RevokeLocally, Complete, vars, mandate
  <2>7. CASE Fetch
    BY <1>3, <2>7, Fetched
  <2> QED  BY <2>2, <2>3, <2>4, <2>5, <2>6, <2>7 DEF Next, Fetch
<1> QED  BY <1>2, <1>3

LEMMA JobsStep == Typed /\ [Next]_vars => jobs' \in Jobs /\ Clocked' /\ Held'
<1> SUFFICES ASSUME Typed, [Next]_vars PROVE jobs' \in Jobs /\ Clocked' /\ Held'
  OBVIOUS
<1> DEFINE J == jobs' \in Jobs /\ Clocked' /\ Held'
<1>1. /\ now' \in Nat /\ now \in Nat /\ now <= now'
  BY Onward, Times DEF Typed, TypeOK
<1>2. /\ jobs.free \in Nat /\ jobs.queued \in Nat /\ jobs.ends \in BOOLEAN
      /\ jobs.read \in [Time -> Nat]
      /\ jobs = [free |-> jobs.free, queued |-> jobs.queued, read |-> jobs.read,
                 ends |-> jobs.ends]
  BY DEF Typed, TypeOK, Jobs
<1>3. ASSUME UNCHANGED jobs, jobs.ends => status' = status PROVE J
  <2>1. jobs.ends => status' = "ACTIVE"
    BY <1>3 DEF Typed, Held
  <2>2. jobs' = [free |-> jobs.free, queued |-> jobs.queued, read |-> jobs.read,
                 ends |-> jobs.ends]
    BY <1>2, <1>3
  <2> QED  BY <1>1, <1>2, <2>1, <2>2, JobsChanged
<1>4. ASSUME NEW k \in Call,
             \/ Order(k) \/ \E op \in Ops \ {"create"} : Ask(k, op)
             \/ Answered(k) \/ GiveUp(k)
             \/ Refuse(k) \/ Create(k) \/ Pause(k) \/ Resume(k) \/ Cancel(k)
      PROVE  J
  <2>1. UNCHANGED jobs
    BY <1>4 DEF Order, Ask, Answered, GiveUp, Refuse, Create, Pause, Resume, Cancel, task
  <2>2. jobs.ends => status' = status
    <3>1. jobs.ends => ~Pause(k) /\ ~Resume(k) /\ ~Cancel(k)
      BY DEF Pause, Resume, Cancel, Locked
    <3>2. jobs.ends => ~Create(k)
      BY DEF Create, Typed, Held, Started, Ordered
    <3> QED  BY <1>4, <3>1, <3>2 DEF Order, Ask, Answered, GiveUp, Refuse, mandate
  <2> QED  BY <1>3, <2>1, <2>2
<1>5. ASSUME NEW i \in Run,
             \/ LookUp(i) \/ CallBank(i) \/ NoAnswer(i) \/ CrashRun(i)
             \/ Serve(i) \/ ServeLate(i) \/ Succeed(i) \/ Reject(i)
      PROVE  J
  <2>1. UNCHANGED jobs
    BY <1>5 DEF LookUp, CallBank, NoAnswer, CrashRun, Serve, ServeLate, Succeed, Reject, task
  <2>2. jobs.ends => status' = status
    <3>1. jobs.ends => ~Succeed(i) /\ ~Reject(i)
      BY DEF Succeed, Reject, Locked
    <3> QED  BY <1>5, <3>1 DEF LookUp, CallBank, NoAnswer, CrashRun, Serve, ServeLate, mandate
  <2> QED  BY <1>3, <2>1, <2>2
<1>6. ASSUME NEW n \in note, Notify(n) \/ NotifyFails(n) PROVE J
  BY <1>3, <1>6 DEF Notify, NotifyFails, task, mandate
<1>7. CASE Tick \/ Refresh \/ RevokeLocally \/ UNCHANGED vars
  BY <1>3, <1>7 DEF Tick, Refresh, RevokeLocally, vars, task, mandate
<1>8. ASSUME NEW time \in Time, jobs.read[time] > 0, Leaves(time), UNCHANGED status PROVE J
  <2>1. jobs' = [free |-> jobs.free + 1, queued |-> jobs.queued,
                 read |-> [jobs.read EXCEPT ![time] = @ - 1], ends |-> jobs.ends]
    BY <1>2, <1>8 DEF Leaves
  <2>2. jobs.free + 1 \in Nat /\ (jobs.ends => status' = "ACTIVE")
    BY <1>2, <1>8 DEF Typed, Held
  <2> QED  BY <1>1, <1>2, <1>8, <2>1, <2>2, JobsChanged
<1>9. ASSUME NEW time \in Time, Drop(time) \/ Claim(time) PROVE J
  BY <1>8, <1>9 DEF Drop, Claim, Claimable, Locks, mandate
<1>10. ASSUME NEW time \in Time, FindEnd(time) PROVE J
  <2>1. /\ jobs' = [free |-> jobs.free, queued |-> jobs.queued,
                    read |-> [jobs.read EXCEPT ![time] = @ - 1], ends |-> TRUE]
        /\ jobs.read[time] > 0 /\ status' = "ACTIVE"
    BY <1>2, <1>10, Found DEF FindEnd
  <2> QED  BY <1>1, <1>2, <2>1, JobsChanged
<1>11. CASE Complete \/ RollBack
  <2>1. jobs' = [free |-> jobs.free + 1, queued |-> jobs.queued, read |-> jobs.read,
                 ends |-> FALSE]
    BY <1>2, <1>11 DEF Complete, RollBack, Ended
  <2>2. jobs.free + 1 \in Nat
    BY <1>2
  <2> QED  BY <1>1, <1>2, <2>1, <2>2, JobsChanged
<1>12. CASE Dispatch
  <2>1. /\ jobs' = [free |-> jobs.free - 1, queued |-> jobs.queued + 1, read |-> jobs.read,
                    ends |-> jobs.ends]
        /\ jobs.free > 0 /\ ~jobs.ends
    BY <1>2, <1>12 DEF Dispatch, Locked
  <2>2. jobs.free - 1 \in Nat /\ jobs.queued + 1 \in Nat
    BY <1>2, <2>1
  <2> QED  BY <1>1, <1>2, <2>1, <2>2, JobsChanged
<1>13. CASE TakeJob
  <2>1. /\ jobs' = [free |-> jobs.free, queued |-> jobs.queued - 1,
                    read |-> [jobs.read EXCEPT ![now] = @ + 1], ends |-> jobs.ends]
        /\ jobs.queued > 0 /\ UNCHANGED status
    BY <1>2, <1>13 DEF TakeJob, mandate
  <2>2. jobs.queued - 1 \in Nat /\ (jobs.ends => status' = "ACTIVE")
    BY <1>2, <2>1 DEF Typed, Held
  <2> QED  BY <1>1, <1>2, <2>1, <2>2, JobsChanged
<1>14. CASE LoseJob
  <2>1. UNCHANGED status
    BY <1>14 DEF LoseJob, mandate
  <2>2. CASE jobs.queued > 0 /\ jobs' = [jobs EXCEPT !.queued = @ - 1, !.free = @ + 1]
    <3>1. jobs' = [free |-> jobs.free + 1, queued |-> jobs.queued - 1, read |-> jobs.read,
                   ends |-> jobs.ends]
      BY <1>2, <2>2
    <3>2. /\ jobs.queued - 1 \in Nat /\ jobs.free + 1 \in Nat
          /\ jobs.ends => status' = "ACTIVE"
      BY <1>2, <2>1, <2>2 DEF Typed, Held
    <3> QED  BY <1>1, <1>2, <3>1, <3>2, JobsChanged
  <2> QED  BY <1>8, <1>14, <2>1, <2>2 DEF LoseJob
<1> QED
  BY <1>4, <1>5, <1>6, <1>7, <1>9, <1>10, <1>11, <1>12, <1>13, <1>14 DEF Next

(* The types are kept by the claim of a run. *)
LEMMA ClaimType ==
  ASSUME Typed, [Next]_vars, NEW time \in Time, Claim(time)
  PROVE  /\ TypeOK' /\ Unborn' /\ Unclaimed' /\ runs + 1 \in Run
         /\ exec'[runs + 1] = [slot |-> next, result |-> "EXECUTING", stage |-> "look",
                               tries |-> 0, answer |-> "none"]
         /\ \A q \in Run : q # runs + 1 => exec'[q] = exec[q]
<1> DEFINE r   == runs + 1
           row == [slot |-> next, result |-> "EXECUTING", stage |-> "look",
                   tries |-> 0, answer |-> "none"]
<1>1. /\ runs' = r /\ exec' = [exec EXCEPT ![r] = row] /\ next' = NextRunAt(plan, next)
      /\ status = "ACTIVE" /\ next <= time /\ runs < MaxRuns
      /\ UNCHANGED <<now, plan, status, failed, late, note, api, local, revoked, account, faults>>
  BY DEF Claim, Claimable
<1>2. r \in Run /\ r \in 0 .. MaxRuns /\ runs \in Nat
  BY <1>1 DEF Typed, TypeOK, Run
<1>3. row \in Execution
  BY DEF Typed, TypeOK, Execution, Reasons
<1> HIDE DEF r, row
<1>4. /\ exec' \in [Run -> Execution] /\ exec'[r] = row
      /\ \A q \in Run : q # r => exec'[q] = exec[q]
  BY <1>1, <1>2, <1>3 DEF Typed, TypeOK
<1>5. next' \in Nat
  <2>1. next \in Nat /\ status # "none"
    BY <1>1 DEF Typed, TypeOK
  <2> QED  BY <1>1, <2>1, NextRuns
<1>6. jobs' \in Jobs
  BY JobsStep
<1>7. Unborn'
  BY <1>1 DEF Unborn
<1>8. Unclaimed'
  <2> SUFFICES ASSUME NEW q \in Run, q > r PROVE exec'[q].stage = "none"
    BY <1>1 DEF Unclaimed
  <2>1. q # r /\ q > runs
    BY <1>2 DEF r, Run
  <2> QED  BY <1>4, <2>1 DEF Typed, Unclaimed
<1>9. TypeOK'
  BY <1>1, <1>2, <1>4, <1>5, <1>6 DEF Typed, TypeOK, api, account
<1> QED  BY <1>2, <1>4, <1>7, <1>8, <1>9 DEF r, row

LEMMA StepType == Typed /\ [Next]_vars => Typed'
<1> SUFFICES ASSUME Typed, [Next]_vars PROVE Typed'
  OBVIOUS
<1>1. Started'
  BY StartedStep
<1>2. jobs' \in Jobs /\ Clocked' /\ Held' /\ now' \in Time
  BY JobsStep, Onward
<1>3. CASE Tick \/ Refresh \/ RevokeLocally
  <2>1. UNCHANGED <<plan, mandate, runs, exec, late, note, api, account, faults>>
    BY <1>3 DEF Tick, Refresh, RevokeLocally, task
  <2>2. local' \in Statuses /\ revoked' \in BOOLEAN
    BY <1>3 DEF Tick, Refresh, RevokeLocally, Typed, TypeOK
  <2> QED
    BY <1>1, <1>2, <2>1, <2>2 DEF Typed, TypeOK, Unborn, Unclaimed, mandate, api, account
<1>4. CASE Fetch
  <2>1. faults' \in 0 .. MaxFaults
    BY <1>4, Fetched DEF Typed, TypeOK, Fault
  <2> QED
    BY <1>1, <1>2, <1>4, <2>1, Fetched DEF Typed, TypeOK, Unborn, Unclaimed
<1>5. CASE Complete
  <2>1. status' \in Statuses /\ status' # "none" /\ plan' # NoPlan
    <3>1. status = "ACTIVE" /\ status' = "COMPLETED" /\ plan' = plan
      BY <1>5, Completed DEF Typed, Held
    <3> QED  BY <3>1, StatusTypes DEF Typed, TypeOK
  <2> QED
    BY <1>1, <1>2, <1>5, <2>1, Completed DEF Typed, TypeOK, Unborn, Unclaimed
<1>6. ASSUME NEW time \in Time, FindEnd(time) PROVE Typed'
  <2>1. note' \subseteq Note
    <3>1. Announcement("COMPLETED") \in Note
      BY AnnouncementType DEF Final
    <3> QED  BY <1>6, <3>1, Found DEF Typed, TypeOK
  <2> QED
    BY <1>1, <1>2, <1>6, <2>1, Found DEF Typed, TypeOK, Unborn, Unclaimed
<1>7. ASSUME NEW time \in Time, Claim(time) PROVE Typed'
  BY <1>1, <1>2, <1>7, ClaimType DEF Typed
<1>8. ASSUME NEW n \in note, Notify(n) \/ NotifyFails(n) PROVE Typed'
  <2>1. UNCHANGED <<now, plan, mandate, task, late, api, revoked, account>>
    BY <1>8 DEF Notify, NotifyFails
  <2>2. note' \subseteq note \cup Again(n)
    BY <1>8 DEF Notify, NotifyFails
  <2>3. note' \subseteq Note /\ local' \in Statuses
    BY <1>8, <2>2, NoteType DEF Notify, NotifyFails, Typed, TypeOK, Statuses
  <2>4. faults' \in 0 .. MaxFaults
    <3>1. UNCHANGED faults \/ Fault
      BY <1>8 DEF Notify, NotifyFails
    <3> QED  BY <3>1 DEF Typed, TypeOK, Fault
  <2> QED
    BY <1>1, <1>2, <2>1, <2>3, <2>4
    DEF Typed, TypeOK, Unborn, Unclaimed, mandate, task, api, account
<1>9. CASE UNCHANGED vars
  BY <1>1, <1>2, <1>9 DEF vars, mandate, task, api, account, Typed, TypeOK, Unborn, Unclaimed
<1> QED
  BY <1>1, <1>2, <1>3, <1>4, <1>5, <1>6, <1>7, <1>8, <1>9, CallType, TaskType
  DEF Next, Fetch, Typed

LEMMA InitType == Init => Typed
<1> SUFFICES ASSUME Init PROVE Typed
  OBVIOUS
<1>1. NoRun \in Execution
  BY DEF NoRun, Execution, Reasons
<1>2. NoCall \in Calls /\ NoCall.at = "idle" /\ NoCall.reply = "none"
  BY Times DEF NoCall, Calls, Statuses
<1>3. \A i \in Run : exec[i].stage = "none"
  BY DEF Init, NoRun
<1>4. jobs \in Jobs /\ Clocked /\ Held
  BY DEF Init, NoJobs, Jobs, Clocked, Held
<1>5. TypeOK
  <2>1. exec \in [Run -> Execution] /\ call \in [Call -> Calls]
    BY <1>1, <1>2 DEF Init
  <2>2. /\ ran \in [Run -> Answers \cup {"none"}] /\ paid \in [Run -> Nat] /\ funds \in Nat
        /\ runs \in 0 .. MaxRuns /\ faults \in 0 .. MaxFaults
    BY DEF Init
  <2>3. now \in Time /\ status \in Statuses /\ local \in Statuses
    BY Times, StatusTypes DEF Init
  <2> QED  BY <1>4, <2>1, <2>2, <2>3 DEF Init, TypeOK
<1>6. Started
  BY <1>2 DEF Init, Started, Ordered, OneOrder, Asked, Told, AtLock
<1> QED  BY <1>3, <1>4, <1>5, <1>6 DEF Init, Typed, Unborn, Unclaimed

(* Every reachable state is well typed: in particular there always is a     *)
(* next run, and the payer's balance never goes below zero.                *)
THEOREM TypeCorrect == Spec => []TypeOK
<1>1. Spec => []Typed
  BY InitType, StepType, PTL DEF Spec
<1>2. Typed => TypeOK
  BY DEF Typed
<1> QED  BY <1>1, <1>2, PTL

-----------------------------------------------------------------------------
(* The end of a mandate *)

LEMMA NothingRevives ==
  ASSUME Typed, [Next]_vars, status \in Final
  PROVE  status' = status /\ runs' = runs
<1>1. status # "ACTIVE" /\ status # "PAUSED" /\ status # "none"
  BY DEF Final
<1>2. ASSUME NEW k \in Call,
             \/ Order(k) \/ \E op \in Ops \ {"create"} : Ask(k, op)
             \/ Answered(k) \/ GiveUp(k)
             \/ Refuse(k) \/ Create(k) \/ Pause(k) \/ Resume(k) \/ Cancel(k)
      PROVE  status' = status /\ runs' = runs
  <2>1. ~Create(k)
    BY <1>1 DEF Create, Typed, Started, Ordered
  <2>2. ~Pause(k) /\ ~Resume(k) /\ ~Cancel(k)
    BY <1>1 DEF Pause, Resume, Cancel
  <2> QED
    BY <1>2, <2>1, <2>2 DEF Order, Ask, Answered, GiveUp, Refuse, mandate, task
<1>3. CASE Tick \/ Refresh \/ RevokeLocally
  BY <1>3 DEF Tick, Refresh, RevokeLocally, mandate, task
<1>4. CASE Fetch
  BY <1>4, Fetched
<1>5. ~Complete
  BY <1>1, Completed DEF Typed, Held
<1>6. \A time \in Time : ~FindEnd(time) /\ ~Claim(time)
  BY <1>1 DEF FindEnd, Claim, Claimable
<1>7. ASSUME NEW i \in Run, \/ LookUp(i) \/ CallBank(i) \/ NoAnswer(i) \/ CrashRun(i)
                            \/ Serve(i) \/ ServeLate(i) \/ Succeed(i) \/ Reject(i)
      PROVE  status' = status /\ runs' = runs
  <2>1. runs' = runs
    BY <1>7 DEF LookUp, CallBank, NoAnswer, CrashRun, Serve, ServeLate, Succeed, Reject, task
  <2>2. CASE Succeed(i) \/ Reject(i)
    BY <1>1, <2>1, <2>2 DEF Succeed, Reject, After
  <2>3. CASE ~Succeed(i) /\ ~Reject(i)
    BY <1>7, <2>1, <2>3 DEF LookUp, CallBank, NoAnswer, CrashRun, Serve, ServeLate, mandate
  <2> QED  BY <2>2, <2>3
<1>8. ASSUME NEW n \in note, Notify(n) \/ NotifyFails(n)
      PROVE  status' = status /\ runs' = runs
  BY <1>8 DEF Notify, NotifyFails, mandate, task
<1>9. CASE UNCHANGED vars
  BY <1>9 DEF vars, mandate, task
<1> QED  BY <1>2, <1>3, <1>4, <1>5, <1>6, <1>7, <1>8, <1>9 DEF Next, Fetch

(* A mandate that is CANCELLED or COMPLETED stays so and claims no run,     *)
(* whatever was on its way when it ended: executions, retries, requests    *)
(* that waited for the lock, notices (recurring/tasks.py, views.py).       *)
THEOREM EndsAreFinal == Spec => EndIsFinal
<1>1. Typed /\ [Next]_vars => [(status \in Final) => (status' = status /\ runs' = runs)]_vars
  BY NothingRevives
<1>2. Spec => []Typed
  BY InitType, StepType, PTL DEF Spec
<1> QED  BY <1>1, <1>2, PTL DEF Spec, EndIsFinal

(* Whoever shows, tells or announces an end does so truly: only COMPLETED   *)
(* may be said before it is so, and then the end date has passed.           *)
IsTrue(news) ==
  /\ news = "CANCELLED" => status = "CANCELLED"
  /\ news = "COMPLETED" => status # "none" /\ (status = "COMPLETED" \/ PastEnd(now))

ShownEnd     == IsTrue(local)
ToldEnd      == \A k \in Call : IsTrue(call[k].reply)
AnnouncedEnd == \A n \in note : IsTrue(n.news)

Ends == ShownEnd /\ ToldEnd /\ AnnouncedEnd

(* The end date stays in the past. *)
LEMMA EndStaysPast ==
  ASSUME NEW old \in Nat, NEW new \in Nat, old <= new, NEW end \in Nat, DateOf(old) > end
  PROVE  DateOf(new) > end
<1> DEFINE o == DateOf(old)
           n == DateOf(new)
<1>1. o \in Nat /\ n \in Nat /\ 2 * o <= old /\ new <= 2 * n + 1 /\ o > end
  BY Halves
<1> HIDE DEF o, n
<1>2. n > end
  BY <1>1
<1> QED  BY <1>2 DEF n

LEMMA PlanEnds ==
  ASSUME Typed, status # "none"
  PROVE  plan.end \in Nat
<1>1. plan \in Plans
  BY DEF Typed, TypeOK
<1> QED  BY <1>1 DEF Date

LEMMA StaysTrue ==
  ASSUME Typed, [Next]_vars, NEW news, IsTrue(news)
  PROVE  IsTrue(news)'
<1>1. status \in Final => status' = status
  BY NothingRevives
<1>2. status # "none" => plan' = plan /\ status' # "none"
  BY Onward
<1>3. ASSUME status # "none", PastEnd(now) PROVE PastEnd(now)'
  <2>1. now \in Nat /\ now' \in Nat /\ now <= now'
    BY Onward, Times DEF Typed, TypeOK
  <2>2. plan' = plan /\ plan.end \in Nat
    BY <1>2, <1>3, PlanEnds
  <2>3. DateOf(now) > plan.end
    BY <1>3 DEF PastEnd
  <2>4. DateOf(now') > plan.end
    BY <2>1, <2>2, <2>3, EndStaysPast
  <2> QED  BY <2>2, <2>4 DEF PastEnd
<1> QED  BY <1>1, <1>2, <1>3 DEF IsTrue, Final

(* An end that is committed is one, and what is none says nothing. *)
LEMMA TrueNow == IsTrue(status)
BY DEF IsTrue

LEMMA SaysNothing ==
  ASSUME NEW news, news \notin Final
  PROVE  IsTrue(news)
BY DEF IsTrue, Final

LEMMA EndsKept ==
  ASSUME Typed, Ends, [Next]_vars,
         \/ local' \in {local, status}
         \/ \E k \in Call : local' = call[k].reply
         \/ \E n \in note : local' = n.news,
         \A k \in Call : \/ call'[k].reply \in {call[k].reply, "none", "ACTIVE", "PAUSED"}
                         \/ call'[k].reply = status',
         \A m \in note' : IsTrue(m.news)' \/ \E n \in note : m.news = n.news
  PROVE  Ends'
<1>1. "none" \notin Final /\ "ACTIVE" \notin Final /\ "PAUSED" \notin Final
  BY DEF Final
<1>2. /\ \A news : IsTrue(news) => IsTrue(news)'
      /\ \A news : news \notin Final => IsTrue(news)'
  <2>1. \A news : IsTrue(news) => IsTrue(news)'
    BY StaysTrue
  <2>2. \A news : news \notin Final => IsTrue(news)'
    BY <2>1, SaysNothing
  <2> QED  BY <2>1, <2>2
<1>3. ShownEnd'
  <2>1. PICK x : x = local'
    OBVIOUS
  <2>2. IsTrue(x)
    BY <2>1, TrueNow DEF Ends, ShownEnd, ToldEnd, AnnouncedEnd
  <2>3. IsTrue(x)'
    BY <1>2, <2>2
  <2> QED  BY <2>1, <2>3 DEF ShownEnd, IsTrue
<1>4. ASSUME NEW k \in Call PROVE IsTrue(call[k].reply)'
  <2>1. PICK x : x = call'[k].reply
    OBVIOUS
  <2>2. CASE x \in {call[k].reply, "none", "ACTIVE", "PAUSED"}
    <3>1. IsTrue(x)'
      BY <1>1, <1>2, <2>2 DEF Ends, ToldEnd
    <3> QED  BY <2>1, <3>1 DEF IsTrue
  <2>3. CASE x = status'
    BY <2>1, <2>3 DEF IsTrue
  <2> QED  BY <2>1, <2>2, <2>3
<1>5. AnnouncedEnd'
  <2> SUFFICES ASSUME NEW m \in note' PROVE IsTrue(m.news)'
    BY DEF AnnouncedEnd
  <2>1. CASE \E n \in note : m.news = n.news
    <3>1. IsTrue(m.news)
      BY <2>1 DEF Ends, AnnouncedEnd
    <3> QED  BY <1>2, <3>1
  <2> QED  BY <2>1
<1> QED  BY <1>3, <1>4, <1>5 DEF Ends, ToldEnd

LEMMA EndsStep == Typed /\ Ends /\ [Next]_vars => Ends'
<1> SUFFICES ASSUME Typed, Ends, [Next]_vars PROVE Ends'
  OBVIOUS
<1>1. ASSUME NEW news, news = status' PROVE IsTrue(news)'
  BY <1>1 DEF IsTrue
<1>2. ASSUME NEW k \in Call, Order(k) \/ \E op \in Ops \ {"create"} : Ask(k, op) PROVE Ends'
  <2>1. PICK op \in Ops : Receives(k, op)
    BY <1>2 DEF Order, Ask, Ops
  <2>2. UNCHANGED <<local, note>>
    BY <1>2 DEF Order, Ask
  <2>3. \A j \in Call : call'[j].reply \in {call[j].reply, "none"}
    BY <2>1, Received
  <2> QED  BY <2>2, <2>3, EndsKept
<1>3. ASSUME NEW k \in Call, Answered(k) PROVE Ends'
  <2>1. /\ UNCHANGED note /\ (local' = local \/ local' = call[k].reply)
        /\ call' = [call EXCEPT ![k] = [NoCall EXCEPT !.at = "done"]]
    BY <1>3 DEF Answered
  <2>2. \A j \in Call : call'[j].reply \in {call[j].reply, "none"}
    BY <2>1, Dropped
  <2> QED  BY <2>1, <2>2, EndsKept
<1>4. ASSUME NEW k \in Call, GiveUp(k) PROVE Ends'
  <2>1. /\ UNCHANGED <<note, local>>
        /\ UNCHANGED call \/ call' = [call EXCEPT ![k] = [NoCall EXCEPT !.at = "done"]]
    BY <1>4 DEF GiveUp
  <2>2. \A j \in Call : call'[j].reply \in {call[j].reply, "none"}
    BY <2>1, Dropped
  <2> QED  BY <2>1, <2>2, EndsKept
<1>5. ASSUME NEW k \in Call, Refuse(k) \/ Create(k) \/ Pause(k) \/ Resume(k) \/ Cancel(k)
      PROVE  Ends'
  <2>1. /\ UNCHANGED local
        /\ \/ note' = note
           \/ note' = note \cup {Announcement("CANCELLED")} /\ status' = "CANCELLED"
        /\ \/ Replies(k, "refused", "none") \/ Replies(k, "ok", "ACTIVE")
           \/ Replies(k, "ok", "PAUSED")
           \/ Replies(k, "ok", "CANCELLED") /\ status' = "CANCELLED"
    BY <1>5 DEF Refuse, Create, Pause, Resume, Cancel
  <2>2. \A j \in Call : \/ call'[j].reply \in {call[j].reply, "none", "ACTIVE", "PAUSED"}
                       \/ call'[j].reply = status'
    BY <2>1, Replied, StatusTypes
  <2>3. Announcement("CANCELLED").news = "CANCELLED"
    BY AnnouncementType DEF Final
  <2>4. \A m \in note' : IsTrue(m.news)' \/ \E n \in note : m.news = n.news
    BY <1>1, <2>1, <2>3
  <2> QED  BY <2>1, <2>2, <2>4, EndsKept
<1>6. CASE Tick \/ Refresh \/ RevokeLocally \/ UNCHANGED vars
  <2>1. local' \in {local, status} /\ UNCHANGED <<note, call>>
    BY <1>6 DEF Tick, Refresh, RevokeLocally, vars, api
  <2> QED  BY <2>1, EndsKept
<1>7. CASE Fetch \/ Complete \/ \E time \in Time : Claim(time)
  <2>1. UNCHANGED <<local, note, call>>
    BY <1>7, Fetched, Completed DEF Claim, api
  <2> QED  BY <2>1, EndsKept
<1>8. ASSUME NEW time \in Time, FindEnd(time) PROVE Ends'
  <2>1. /\ UNCHANGED <<now, plan, status, local, call>> /\ status = "ACTIVE" /\ next <= time
        /\ PastEnd(next) /\ jobs.read[time] > 0
        /\ note' = note \cup {Announcement("COMPLETED")}
    BY <1>8, Found
  <2>2. PastEnd(now)
    <3>1. next \in Nat /\ now \in Nat /\ next <= now
      BY <2>1, Times DEF Typed, TypeOK, Clocked
    <3>2. plan.end \in Nat /\ DateOf(next) > plan.end
      BY <2>1, PlanEnds DEF PastEnd
    <3> QED  BY <3>1, <3>2, EndStaysPast DEF PastEnd
  <2>3. IsTrue("COMPLETED")
    BY <2>1, <2>2 DEF IsTrue
  <2>4. IsTrue("COMPLETED")'
    BY <2>3, StaysTrue
  <2>5. Announcement("COMPLETED").news = "COMPLETED"
    BY AnnouncementType DEF Final
  <2>6. \A m \in note' : IsTrue(m.news)' \/ \E n \in note : m.news = n.news
    BY <2>1, <2>4, <2>5
  <2> QED  BY <2>1, <2>6, EndsKept
<1>9. ASSUME NEW i \in Run, LookUp(i) \/ CallBank(i) \/ NoAnswer(i) \/ CrashRun(i)
                            \/ Serve(i) \/ ServeLate(i)
      PROVE  Ends'
  <2>1. UNCHANGED <<local, note, call>>
    BY <1>9 DEF LookUp, CallBank, NoAnswer, CrashRun, Serve, ServeLate, api
  <2> QED  BY <2>1, EndsKept
<1>10. ASSUME NEW i \in Run, Succeed(i) \/ Reject(i) PROVE Ends'
  <2>1. UNCHANGED <<local, call>>
    BY <1>10 DEF Succeed, Reject, api
  <2>2. \/ note' = note
        \/ /\ note' = note \cup {Announcement(status')}
           /\ status' \in {"PAUSED"} \cup Final
    BY <1>10 DEF Succeed, Reject, After, Final
  <2>3. \A m \in note' : m.news = status' \/ \E n \in note : m.news = n.news
    BY <2>2, AnnouncementType
  <2>4. \A m \in note' : IsTrue(m.news)' \/ \E n \in note : m.news = n.news
    BY <1>1, <2>3
  <2> QED  BY <2>1, <2>4, EndsKept
<1>11. ASSUME NEW n \in note, Notify(n) \/ NotifyFails(n) PROVE Ends'
  <2>1. /\ UNCHANGED call /\ local' \in {local, n.news} /\ note' \subseteq note \cup Again(n)
    BY <1>11 DEF Notify, NotifyFails, api
  <2>2. \A m \in note' : \E o \in note : m.news = o.news
    BY <2>1, NoteType
  <2> QED  BY <2>1, <2>2, EndsKept
<1> QED
  BY <1>2, <1>3, <1>4, <1>5, <1>6, <1>7, <1>8, <1>9, <1>10, <1>11 DEF Next, Fetch

(* What the bank shows as CANCELLED is CANCELLED at KLIK, and what it shows *)
(* as COMPLETED is COMPLETED or past its end date: answers and webhooks     *)
(* tell an end that was committed, or one that the job of a run found and   *)
(* had not committed yet (recurring/views.py, tasks.py).                    *)
THEOREM ShownEndsAreTrue == Spec => []LocalEndIsTrue
<1>1. Init => Ends
  <2>1. NoCall.reply = "none" /\ "none" \notin Final
    BY DEF NoCall, Final
  <2> QED  BY <2>1 DEF Init, Ends, ShownEnd, ToldEnd, AnnouncedEnd, IsTrue
<1>2. Spec => [](Typed /\ Ends)
  BY <1>1, InitType, StepType, EndsStep, PTL DEF Spec
<1>3. Typed /\ Ends => LocalEndIsTrue
  BY DEF Ends, ShownEnd, IsTrue, LocalEndIsTrue
<1> QED  BY <1>2, <1>3, PTL

-----------------------------------------------------------------------------
(* Failures in a row *)

LEMMA BelowStep == Typed /\ ActiveBelowThreshold /\ [Next]_vars => ActiveBelowThreshold'
<1> SUFFICES ASSUME Typed, ActiveBelowThreshold, [Next]_vars, status' = "ACTIVE"
             PROVE  failed' < Threshold
  BY DEF ActiveBelowThreshold
<1>1. Threshold \in Nat /\ 0 < Threshold /\ failed \in Nat
  BY DEF Typed, TypeOK
<1>2. UNCHANGED mandate => failed' < Threshold
  BY DEF mandate, ActiveBelowThreshold
<1>3. ASSUME NEW k \in Call,
             \/ Order(k) \/ \E op \in Ops \ {"create"} : Ask(k, op)
             \/ Answered(k) \/ GiveUp(k)
             \/ Refuse(k) \/ Create(k) \/ Pause(k) \/ Resume(k) \/ Cancel(k)
      PROVE  failed' < Threshold
  <2>1. CASE Create(k)
    <3>1. status = "none"
      BY <2>1 DEF Create, Typed, Started, Ordered
    <3>2. failed = 0
      BY <3>1 DEF Typed, Unborn
    <3>3. failed' = failed
      BY <2>1 DEF Create, mandate
    <3> QED  BY <1>1, <3>2, <3>3
  <2>2. CASE Resume(k)
    BY <1>1, <2>2 DEF Resume
  <2>3. ~Pause(k) /\ ~Cancel(k)
    BY DEF Pause, Cancel
  <2>4. CASE ~Create(k) /\ ~Resume(k)
    BY <1>2, <1>3, <2>3, <2>4 DEF Order, Ask, Answered, GiveUp, Refuse
  <2> QED  BY <2>1, <2>2, <2>4
<1>4. CASE Tick \/ Refresh \/ RevokeLocally \/ UNCHANGED vars
  BY <1>4 DEF Tick, Refresh, RevokeLocally, vars, mandate, ActiveBelowThreshold
<1>5. CASE Fetch
  BY <1>2, <1>5, Fetched DEF mandate
<1>6. ~Complete
  BY Completed
<1>7. ASSUME NEW time \in Time, FindEnd(time) \/ Claim(time) PROVE failed' < Threshold
  BY <1>7 DEF FindEnd, Claim, mandate, ActiveBelowThreshold
<1>8. ASSUME NEW i \in Run, \/ LookUp(i) \/ CallBank(i) \/ NoAnswer(i) \/ CrashRun(i)
                            \/ Serve(i) \/ ServeLate(i)
      PROVE  failed' < Threshold
  BY <1>2, <1>8 DEF LookUp, CallBank, NoAnswer, CrashRun, Serve, ServeLate
<1>9. ASSUME NEW i \in Run, Succeed(i) PROVE failed' < Threshold
  BY <1>1, <1>9 DEF Succeed
<1>10. ASSUME NEW i \in Run, Reject(i) PROVE failed' < Threshold
  <2>1. failed' = failed + 1 /\ status' = After(exec[i].answer)
    BY <1>10 DEF Reject
  <2>2. ~(failed + 1 >= Threshold)
    BY <2>1 DEF After
  <2> QED  BY <1>1, <2>1, <2>2
<1>11. ASSUME NEW n \in note, Notify(n) \/ NotifyFails(n) PROVE failed' < Threshold
  BY <1>2, <1>11 DEF Notify, NotifyFails
<1> QED
  BY <1>3, <1>4, <1>5, <1>6, <1>7, <1>8, <1>9, <1>10, <1>11 DEF Next, Fetch

(* An active mandate has failed fewer times in a row than pause it, also    *)
(* when failures of several runs are written late, around a pause and a    *)
(* resume (_finalize_failure).                                             *)
THEOREM ActiveHasNotFailed == Spec => []ActiveBelowThreshold
<1>1. Init => ActiveBelowThreshold
  BY DEF Init, ActiveBelowThreshold
<1> QED  BY <1>1, InitType, StepType, BelowStep, PTL DEF Spec

-----------------------------------------------------------------------------
(* Payments *)

(* What the bank has for an execution, and what KLIK has of its answer *)
Paid(i)     == paid[i] = IF ran[i] = "EXECUTED" THEN 1 ELSE 0
Uncalled(i) ==
  \/ exec[i].stage \in {"none", "look"}
  \/ exec[i].stage \in {"write", "end"} /\ exec[i].answer = "RECIPIENT_ALIAS_GONE"
Unheard(i)  == Uncalled(i) => i \notin late /\ ran[i] = "none"
Heard(i)    ==
  exec[i].stage \in {"write", "end"} =>
    exec[i].answer # "none" /\ (exec[i].answer \in Answers => ran[i] = exec[i].answer)
Recorded(i) ==
  /\ exec[i].result = "SUCCESS" => exec[i].stage = "end" /\ exec[i].answer = "EXECUTED"
  /\ exec[i].result = "FAILED" => exec[i].stage = "end" /\ exec[i].answer # "EXECUTED"

Account(i) == Paid(i) /\ Unheard(i) /\ Heard(i) /\ Recorded(i)
Accounts == \A i \in Run : Account(i)

(* What a step of a task leaves in the row *)
LEMMA MovedTo ==
  ASSUME Typed, NEW i \in Run, NEW result, NEW stage, NEW tries, NEW answer,
         Moved(i, result, stage, tries, answer)
  PROVE  /\ exec'[i].result = result /\ exec'[i].stage = stage /\ exec'[i].answer = answer
         /\ exec'[i].slot = exec[i].slot
<1> DEFINE row == [slot |-> exec[i].slot, result |-> result, stage |-> stage,
                   tries |-> tries, answer |-> answer]
<1>1. exec' = [exec EXCEPT ![i] = row] /\ exec \in [Run -> Execution]
  BY Row DEF Moved
<1>2. /\ row.result = result /\ row.stage = stage /\ row.answer = answer
      /\ row.slot = exec[i].slot
  OBVIOUS
<1> HIDE DEF row
<1>3. exec'[i] = row
  BY <1>1
<1> QED  BY <1>2, <1>3

LEMMA AccountKept ==
  ASSUME NEW i, Account(i), exec'[i] = exec[i], ran'[i] = ran[i], paid'[i] = paid[i],
         i \in late' => i \in late
  PROVE  Account(i)'
BY DEF Account, Paid, Unheard, Uncalled, Heard, Recorded

(* The bank answers an execution the same whenever it is asked. *)
LEMMA ServesOnce ==
  ASSUME Typed, Accounts, NEW i \in Run, NEW decision \in Decisions(i), Serves(i, decision)
  PROVE  /\ ran'[i] = decision /\ Paid(i)'
         /\ ran[i] # "none" => ran'[i] = ran[i]
         /\ \A q \in Run : q # i => ran'[q] = ran[q] /\ paid'[q] = paid[q]
<1>1. /\ ran \in [Run -> Answers \cup {"none"}] /\ paid \in [Run -> Nat]
      /\ ran' = [ran EXCEPT ![i] = decision]
  BY DEF Typed, TypeOK, Serves
<1>2. ran[i] # "none" => decision = ran[i]
  BY DEF Decisions, Before
<1>3. ran[i] = "none" <=> Before(i) = {}
  BY DEF Before
<1>4. Paid(i)
  BY DEF Accounts, Account
<1>5. CASE decision = "EXECUTED" /\ Before(i) = {}
  <2>1. paid' = [paid EXCEPT ![i] = @ + 1]
    BY <1>5 DEF Serves
  <2>2. paid[i] = 0
    BY <1>3, <1>4, <1>5 DEF Paid
  <2>3. paid'[i] = 1 /\ ran'[i] = "EXECUTED"
    BY <1>1, <1>5, <2>1, <2>2
  <2> QED  BY <1>1, <1>2, <2>1, <2>3 DEF Paid
<1>6. CASE ~(decision = "EXECUTED" /\ Before(i) = {})
  <2>1. paid' = paid
    BY <1>6 DEF Serves
  <2>2. ran[i] = "EXECUTED" <=> decision = "EXECUTED"
    BY <1>2, <1>3, <1>6
  <2>3. ran'[i] = decision
    BY <1>1
  <2> QED  BY <1>1, <1>2, <1>4, <2>1, <2>2, <2>3 DEF Paid
<1> QED  BY <1>5, <1>6

LEMMA AccountsStep == Typed /\ Accounts /\ [Next]_vars => Accounts'
<1> SUFFICES ASSUME Typed, Accounts, [Next]_vars PROVE Accounts'
  OBVIOUS
<1>1. ASSUME UNCHANGED <<exec, late, account>> PROVE Accounts'
  BY <1>1, AccountKept DEF Accounts, account
<1>2. ASSUME NEW k \in Call,
             \/ Order(k) \/ \E op \in Ops \ {"create"} : Ask(k, op)
             \/ Answered(k) \/ GiveUp(k)
             \/ Refuse(k) \/ Create(k) \/ Pause(k) \/ Resume(k) \/ Cancel(k)
      PROVE  Accounts'
  BY <1>1, <1>2 DEF Order, Ask, Answered, GiveUp, Refuse, Create, Pause, Resume, Cancel, task
<1>3. CASE Tick \/ Refresh \/ RevokeLocally \/ UNCHANGED vars
  BY <1>1, <1>3 DEF Tick, Refresh, RevokeLocally, vars, task
<1>4. CASE Fetch \/ Complete
  BY <1>1, <1>4, Fetched, Completed DEF account
<1>5. ASSUME NEW time \in Time, FindEnd(time) PROVE Accounts'
  BY <1>1, <1>5 DEF FindEnd
<1>6. ASSUME NEW n \in note, Notify(n) \/ NotifyFails(n) PROVE Accounts'
  BY <1>1, <1>6 DEF Notify, NotifyFails, task
<1>7. ASSUME NEW time \in Time, Claim(time) PROVE Accounts'
  <2> SUFFICES ASSUME NEW q \in Run PROVE Account(q)'
    BY DEF Accounts
  <2>1. UNCHANGED <<late, ran, paid>> /\ Account(q)
    BY <1>7 DEF Claim, account, Accounts
  <2>2. CASE q = runs + 1
    <3>1. exec[q].stage = "none"
      BY <2>2 DEF Typed, TypeOK, Unclaimed, Run
    <3>2. q \notin late /\ ran[q] = "none" /\ Paid(q)
      BY <2>1, <3>1 DEF Account, Unheard, Uncalled
    <3>3. /\ exec'[q].stage = "look" /\ exec'[q].result = "EXECUTING"
      BY <1>7, <2>2, ClaimType
    <3> QED  BY <2>1, <3>2, <3>3 DEF Account, Paid, Unheard, Heard, Recorded
  <2>3. CASE q # runs + 1
    <3>1. exec'[q] = exec[q]
      BY <1>7, <2>3, ClaimType
    <3> QED  BY <2>1, <3>1, AccountKept
  <2> QED  BY <2>2, <2>3
<1>8. ASSUME NEW i \in Run, NEW q \in Run, q # i,
             \/ LookUp(i) \/ CallBank(i) \/ NoAnswer(i) \/ CrashRun(i)
             \/ Serve(i) \/ ServeLate(i) \/ Succeed(i) \/ Reject(i)
      PROVE  Account(q)'
  <2>1. Account(q)
    BY DEF Accounts
  <2>2. q \in late' => q \in late
    BY <1>8 DEF LookUp, CallBank, NoAnswer, CrashRun, Serve, ServeLate, Succeed, Reject
  <2>3. exec'[q] = exec[q]
    <3>1. exec \in [Run -> Execution]
      BY Row
    <3> QED
      BY <1>8, <3>1
      DEF LookUp, CallBank, NoAnswer, CrashRun, Serve, ServeLate, Succeed, Reject, Reaches,
          Abandoned, Writes, task
  <2>4. ran'[q] = ran[q] /\ paid'[q] = paid[q]
    <3>1. CASE Serve(i) \/ ServeLate(i)
      BY <1>8, <3>1, ServesOnce DEF Serve, ServeLate
    <3>2. CASE ~(Serve(i) \/ ServeLate(i))
      BY <1>8, <3>2 DEF LookUp, CallBank, NoAnswer, CrashRun, Succeed, Reject, account
    <3> QED  BY <3>1, <3>2
  <2> QED  BY <2>1, <2>2, <2>3, <2>4, AccountKept
<1>9. ASSUME NEW i \in Run,
             \/ LookUp(i) \/ CallBank(i) \/ NoAnswer(i) \/ CrashRun(i)
             \/ Serve(i) \/ ServeLate(i) \/ Succeed(i) \/ Reject(i)
      PROVE  Account(i)'
  <2> DEFINE row == exec[i]
  <2>1. /\ Account(i)
        /\ "RECIPIENT_ALIAS_GONE" \notin Answers /\ "NETWORK_TIMEOUT" \notin Answers
        /\ "none" \notin Answers
    BY DEF Accounts, Answers, Cancelling
  <2>2. CASE LookUp(i)
    <3>1. /\ row.stage = "look" /\ UNCHANGED <<late, ran, paid>>
      BY <2>2 DEF LookUp, account
    <3>2. /\ exec'[i].result = row.result
          /\ \/ exec'[i].stage = "call"
             \/ exec'[i].stage = "write" /\ exec'[i].answer = "RECIPIENT_ALIAS_GONE"
      BY <2>2, Moves, MovedTo
    <3> QED
      BY <2>1, <3>1, <3>2 DEF Account, Paid, Unheard, Uncalled, Heard, Recorded
  <2>3. CASE CallBank(i)
    <3>1. /\ row.stage = "call" /\ UNCHANGED <<late, ran, paid>>
      BY <2>3 DEF CallBank, account
    <3>2. /\ exec'[i].result = row.result
          /\ \/ exec'[i].stage = "sent"
             \/ exec'[i].stage = "write" /\ exec'[i].answer = "NETWORK_TIMEOUT"
      <4>1. CASE Moved(i, row.result, "sent", row.tries, row.answer)
        BY ONLY <4>1, MovedTo, Typed, i \in Run
      <4>2. CASE Moved(i, row.result, "write", row.tries, "NETWORK_TIMEOUT")
        BY ONLY <4>2, MovedTo, Typed, i \in Run
      <4> QED
        BY ONLY <2>3, <4>1, <4>2, Moves, Typed, i \in Run
    <3> QED
      BY <2>1, <3>1, <3>2 DEF Account, Paid, Unheard, Uncalled, Heard, Recorded
  <2>4. CASE NoAnswer(i)
    <3>1. /\ row.stage = "sent" /\ UNCHANGED <<ran, paid>>
      BY <2>4 DEF NoAnswer, account
    <3>2. /\ exec'[i].result = row.result
          /\ \/ exec'[i].stage \in {"call", "dead"}
             \/ exec'[i].stage = "write" /\ exec'[i].answer = "NETWORK_TIMEOUT"
      <4>1. CASE Moved(i, row.result, "call", row.tries + 1, row.answer)
        BY ONLY <4>1, MovedTo, Typed, i \in Run
      <4>2. CASE Moved(i, row.result, "dead", 0, "none")
        BY ONLY <4>2, MovedTo, Typed, i \in Run
      <4>3. CASE Moved(i, row.result, "write", row.tries, "NETWORK_TIMEOUT")
        BY ONLY <4>3, MovedTo, Typed, i \in Run
      <4> QED
        BY ONLY <2>4, <4>1, <4>2, <4>3, Moves, Typed, i \in Run
    <3> QED
      BY <2>1, <3>1, <3>2 DEF Account, Paid, Unheard, Uncalled, Heard, Recorded
  <2>5. CASE CrashRun(i)
    <3>1. row.stage \in {"look", "call", "sent", "write"} /\ UNCHANGED <<ran, paid>>
      BY <2>5 DEF CrashRun, account
    <3>2. exec'[i].result = row.result /\ exec'[i].stage = "dead"
      BY <2>5, Moves, MovedTo
    <3> QED
      BY <2>1, <3>1, <3>2 DEF Account, Paid, Unheard, Uncalled, Heard, Recorded
  <2>6. CASE Serve(i)
    <3>1. row.stage = "sent" /\ UNCHANGED late
      BY <2>6 DEF Serve
    <3>2. PICK decision \in Decisions(i) :
            Serves(i, decision) /\ Moved(i, row.result, "write", row.tries, decision)
      BY <2>6, Moves
    <3>3. decision \in Answers
      BY Decided
    <3>4. /\ exec'[i].result = row.result /\ exec'[i].stage = "write"
          /\ exec'[i].answer = decision
      BY <3>2, MovedTo
    <3>5. ran'[i] = decision /\ Paid(i)'
      BY <3>2, ServesOnce
    <3> QED
      BY <2>1, <3>1, <3>3, <3>4, <3>5 DEF Account, Unheard, Uncalled, Heard, Recorded
  <2>7. CASE ServeLate(i)
    <3>1. PICK decision \in Decisions(i) : Serves(i, decision)
      BY <2>7 DEF ServeLate
    <3>2. Paid(i)' /\ (ran[i] # "none" => ran'[i] = ran[i])
      BY <3>1, ServesOnce
    <3>3. i \in late /\ UNCHANGED exec
      BY <2>7 DEF ServeLate, task
    <3> QED
      BY <2>1, <3>2, <3>3 DEF Account, Unheard, Uncalled, Heard, Recorded
  <2>8. CASE Succeed(i)
    <3>1. row.stage = "write" /\ row.answer = "EXECUTED" /\ UNCHANGED <<late, ran, paid>>
      BY <2>8 DEF Succeed, account
    <3>2. /\ exec'[i].result = "SUCCESS" /\ exec'[i].stage = "end"
          /\ exec'[i].answer = row.answer
      BY <2>8, Moves, MovedTo
    <3> QED
      BY <2>1, <3>1, <3>2 DEF Account, Paid, Unheard, Uncalled, Heard, Recorded
  <2>9. CASE Reject(i)
    <3>1. row.stage = "write" /\ row.answer # "EXECUTED" /\ UNCHANGED <<late, ran, paid>>
      BY <2>9 DEF Reject, account
    <3>2. /\ exec'[i].result = "FAILED" /\ exec'[i].stage = "end"
          /\ exec'[i].answer = row.answer
      BY <2>9, Moves, MovedTo
    <3> QED
      BY <2>1, <3>1, <3>2 DEF Account, Paid, Unheard, Uncalled, Heard, Recorded
  <2> QED  BY <1>9, <2>2, <2>3, <2>4, <2>5, <2>6, <2>7, <2>8, <2>9
<1>10. ASSUME NEW i \in Run,
             \/ LookUp(i) \/ CallBank(i) \/ NoAnswer(i) \/ CrashRun(i)
             \/ Serve(i) \/ ServeLate(i) \/ Succeed(i) \/ Reject(i)
      PROVE  Accounts'
  BY <1>8, <1>9, <1>10 DEF Accounts
<1> QED  BY <1>2, <1>3, <1>4, <1>5, <1>6, <1>7, <1>10 DEF Next, Fetch

(* No execution is paid twice; a SUCCESS was paid, and a FAILED was not and *)
(* will not be unless the bank was not heard: retries, late calls and dead *)
(* workers included (execute_recurring_run, webhook_recurring_execute).    *)
THEOREM RecordsArePaid == Spec => []PaidAsRecorded
<1>1. Init => Accounts
  <2>1. NoRun.stage = "none" /\ NoRun.result = "none"
    BY DEF NoRun
  <2> QED
    BY <2>1 DEF Init, Accounts, Account, Paid, Unheard, Heard, Recorded
<1>2. Spec => [](Typed /\ Accounts)
  BY <1>1, InitType, StepType, AccountsStep, PTL DEF Spec
<1>3. Typed /\ Accounts => PaidAsRecorded
  <2> SUFFICES ASSUME Typed, Accounts, NEW i \in Run
               PROVE  /\ paid[i] <= 1
                      /\ exec[i].result = "SUCCESS" => paid[i] = 1
                      /\ exec[i].result = "FAILED" /\ exec[i].answer # "NETWORK_TIMEOUT" =>
                           paid[i] = 0
    BY DEF PaidAsRecorded
  <2>1. Account(i) /\ exec[i].answer \in Reasons
    BY Row DEF Accounts
  <2>2. exec[i].stage = "end" /\ exec[i].answer = "RECIPIENT_ALIAS_GONE" => ran[i] = "none"
    BY <2>1 DEF Account, Unheard, Uncalled
  <2>3. exec[i].stage = "end" /\ exec[i].answer \in Answers => ran[i] = exec[i].answer
    BY <2>1 DEF Account, Heard
  <2>4. exec[i].stage = "end" => exec[i].answer # "none"
    BY <2>1 DEF Account, Heard
  <2>5. "EXECUTED" \in Answers /\ "none" # "EXECUTED"
    BY DEF Answers
  <2> QED
    BY <2>1, <2>2, <2>3, <2>4, <2>5 DEF Account, Paid, Recorded, Reasons
<1> QED  BY <1>2, <1>3, PTL

-----------------------------------------------------------------------------
(* Slots *)

Idle    == status = "none" => runs = 0
OnSlot(p, time) == time % 2 = 1 /\ RunsOn(p, DateOf(time))
Within(p, time) == OnSlot(p, time) /\ ~(DateOf(time) > p.end)
NextOn  == status # "none" => OnSlot(plan, next)
SlotsOn ==
  \A i \in 1 .. runs : exec[i].slot <= now /\ Within(plan, exec[i].slot)
Rising  ==
  ~stale => \A i \in 1 .. runs :
              /\ exec[i].slot < next
              /\ \A j \in 1 .. i - 1 : exec[j].slot < exec[i].slot

Slots == Idle /\ NextOn /\ SlotsOn /\ Rising

(* The slots of claimed runs stay. *)
LEMMA SlotsKept ==
  ASSUME Typed, Slots, runs' = runs, \A i \in 1 .. runs : exec'[i].slot = exec[i].slot,
         UNCHANGED <<plan, next, stale>>, now' \in Time, now' >= now,
         (status' = "none") <=> (status = "none")
  PROVE  Slots'
<1>1. runs \in Nat /\ \A i \in 1 .. runs : 1 .. i - 1 \subseteq 1 .. runs
  BY DEF Typed, TypeOK
<1>2. Idle' /\ NextOn'
  BY DEF Slots, Idle, NextOn
<1>3. SlotsOn'
  <2> SUFFICES ASSUME NEW i \in 1 .. runs
               PROVE  exec[i].slot <= now' /\ Within(plan, exec[i].slot)
    BY DEF SlotsOn
  <2>1. exec[i].slot <= now /\ Within(plan, exec[i].slot)
    BY DEF Slots, SlotsOn
  <2>2. exec[i].slot \in Nat /\ now \in Nat /\ now' \in Nat
    <3>1. i \in Run
      BY <1>1 DEF Typed, TypeOK, Run
    <3> QED  BY <3>1, Row, Times DEF Typed, TypeOK
  <2> QED  BY <2>1, <2>2
<1>4. Rising'
  <2> SUFFICES ASSUME ~stale, NEW i \in 1 .. runs
               PROVE  /\ exec'[i].slot < next
                      /\ \A j \in 1 .. i - 1 : exec'[j].slot < exec'[i].slot
    BY DEF Rising
  <2> QED  BY <1>1 DEF Slots, Rising
<1> QED  BY <1>2, <1>3, <1>4 DEF Slots

LEMMA SlotsClaimed ==
  ASSUME Typed, Slots, [Next]_vars, NEW time \in Time, Claim(time)
  PROVE  Slots'
<1> DEFINE r == runs + 1
<1>1. jobs.read[time] > 0 /\ next <= time /\ next \in Nat /\ now \in Nat
  BY Times DEF Claim, Claimable, Locks, Typed, TypeOK
<1>2. /\ status = "ACTIVE" /\ next <= now /\ ~PastEnd(next) /\ runs' = r
      /\ next' = NextRunAt(plan, next) /\ UNCHANGED <<now, plan, status, stale>>
  <2>1. next <= now
    BY <1>1, Times DEF Typed, Clocked
  <2> QED  BY <2>1 DEF Claim, Claimable, api
<1>3. runs \in Nat /\ r \in Run /\ next \in Nat /\ now \in Time
  BY ClaimType DEF Typed, TypeOK
<1>4. exec'[r].slot = next /\ \A q \in Run : q # r => exec'[q] = exec[q]
  BY ClaimType
<1>5. next' \in Nat /\ next' > next /\ OnSlot(plan, next')
  BY <1>2, <1>3, NextRuns DEF OnSlot
<1>6. Within(plan, next)
  BY <1>2 DEF Slots, NextOn, Within, PastEnd
<1>7. \A i \in 1 .. runs : i \in Run /\ i # r /\ exec'[i].slot = exec[i].slot
                         /\ exec[i].slot \in Nat
  <2>1. \A i \in 1 .. runs : i \in Run /\ i # r
    BY <1>3 DEF Run
  <2> QED  BY <1>4, <2>1, Row
<1>8. Idle' /\ NextOn'
  BY <1>2, <1>3, <1>5 DEF Idle, NextOn, r
<1>9. 1 .. runs' = 1 .. runs \cup {r}
  <2>1. runs \in Nat /\ runs' = runs + 1
    BY <1>2, <1>3
  <2>2. 1 .. runs' = 1 .. runs \cup {runs + 1}
    BY ONLY <2>1
  <2> QED  BY <2>2
<1> HIDE DEF r
<1>10. SlotsOn'
  <2> SUFFICES ASSUME NEW i \in 1 .. runs'
               PROVE  exec'[i].slot <= now /\ Within(plan, exec'[i].slot)
    BY <1>2 DEF SlotsOn
  <2>1. CASE i = r
    BY <1>2, <1>4, <1>6, <2>1
  <2>2. CASE i \in 1 .. runs
    BY <1>7, <2>2 DEF Slots, SlotsOn
  <2> QED  BY <1>9, <2>1, <2>2
<1>11. Rising'
  <2> SUFFICES ASSUME ~stale, NEW i \in 1 .. runs'
               PROVE  /\ exec'[i].slot < next'
                      /\ \A j \in 1 .. i - 1 : exec'[j].slot < exec'[i].slot
    BY <1>2 DEF Rising
  <2>1. \A q \in 1 .. runs : exec'[q].slot < next
    BY <1>7 DEF Slots, Rising
  <2>2. CASE i = r
    <3>1. 1 .. i - 1 = 1 .. runs
      BY <1>3, <2>2 DEF r
    <3> QED  BY <1>3, <1>4, <1>5, <2>1, <2>2, <3>1
  <2>3. CASE i \in 1 .. runs
    <3>1. exec'[i].slot \in Nat /\ exec'[i].slot < next
      BY <1>7, <2>1, <2>3
    <3>2. \A j \in 1 .. i - 1 : j \in 1 .. runs
      BY <1>3, <2>3
    <3>3. \A j \in 1 .. i - 1 : exec'[j].slot < exec'[i].slot
      BY <1>7, <2>3, <3>2 DEF Slots, Rising
    <3>4. exec'[i].slot < next'
      <4> DEFINE mine == exec'[i].slot
      <4>1. /\ mine \in Nat /\ next \in Nat /\ next' \in Nat
            /\ mine < next /\ next' > next
        BY <1>3, <1>5, <3>1
      <4> HIDE DEF mine
      <4>2. mine < next'
        BY ONLY <4>1
      <4> QED  BY <4>2 DEF mine
    <3> QED  BY <3>3, <3>4
  <2> QED  BY <1>9, <2>2, <2>3
<1> QED  BY <1>8, <1>10, <1>11 DEF Slots

(* Unless it had read the clock too early, a resume goes on after the last. *)
LEMMA SlotsResumed ==
  ASSUME Typed, Slots, NEW k \in Call, Resume(k)
  PROVE  Slots'
<1> DEFINE read == call[k].read
<1>1. /\ status = "PAUSED" /\ status' = "ACTIVE" /\ next' = NextRunAt(plan, read)
      /\ stale' = (stale \/ (runs > 0 /\ read < exec[runs].slot))
      /\ UNCHANGED <<now, plan, runs, exec>>
  BY DEF Resume, task
<1>2. read \in Time /\ read \in Nat /\ runs \in Nat
  <2>1. call[k].read \in Time
    BY DEF Typed, TypeOK, Calls
  <2>2. runs \in Nat
    BY DEF Typed, TypeOK
  <2> QED  BY <2>1, <2>2, Times
<1> HIDE DEF read
<1>3. next' \in Nat /\ next' > read /\ OnSlot(plan, next')
  <2>1. status # "none" /\ read <= read
    BY <1>1, <1>2
  <2> QED  BY <1>1, <1>2, <2>1, NextRuns DEF OnSlot
<1>5. \A i \in 1 .. runs : exec[i].slot \in Nat
  <2>1. \A i \in 1 .. runs : i \in Run
    BY DEF Typed, TypeOK, Run
  <2> QED  BY <2>1, Row
<1>6. Idle' /\ NextOn'
  BY <1>1, <1>3 DEF Idle, NextOn
<1>7. SlotsOn'
  BY <1>1 DEF Slots, SlotsOn
<1>8. Rising'
  <2> SUFFICES ASSUME ~stale', NEW i \in 1 .. runs
               PROVE  /\ exec[i].slot < next'
                      /\ \A j \in 1 .. i - 1 : exec[j].slot < exec[i].slot
    BY <1>1 DEF Rising
  <2>1. ~stale /\ runs > 0 /\ runs \in 1 .. runs /\ ~(read < exec[runs].slot)
    <3>1. runs > 0 /\ runs \in 1 .. runs
      BY <1>2
    <3> QED  BY <1>1, <3>1
  <2>2. \A j \in 1 .. i - 1 : exec[j].slot < exec[i].slot
    BY <2>1 DEF Slots, Rising
  <2>3. exec[i].slot <= exec[runs].slot
    <3>1. CASE i = runs
      BY <1>5, <3>1
    <3>2. CASE i # runs
      <4>1. i \in 1 .. runs - 1
        BY <1>2, <3>2
      <4>2. exec[i].slot < exec[runs].slot
        BY <2>1, <4>1 DEF Slots, Rising
      <4> QED  BY <1>5, <2>1, <4>2
    <3> QED  BY <3>1, <3>2
  <2>4. exec[i].slot \in Nat /\ exec[runs].slot \in Nat
    BY <1>5, <2>1
  <2>5. exec[i].slot < next'
    <3> DEFINE mine == exec[i].slot  last == exec[runs].slot
    <3>1. /\ mine \in Nat /\ last \in Nat /\ read \in Nat /\ next' \in Nat
          /\ mine <= last /\ ~(read < last) /\ next' > read
      BY <1>2, <1>3, <2>1, <2>3, <2>4
    <3> HIDE DEF mine, last
    <3>2. mine < next'
      BY ONLY <3>1
    <3> QED  BY <3>2 DEF mine
  <2> QED  BY <2>2, <2>5
<1> QED  BY <1>6, <1>7, <1>8 DEF Slots

(* Before there is a mandate there are no runs. *)
LEMMA SlotsStarted ==
  ASSUME Typed, Slots, status = "none", runs' = runs,
         status' # "none" => OnSlot(plan', next')
  PROVE  Slots'
<1>1. runs = 0
  BY DEF Slots, Idle
<1>2. 1 .. runs' = {}
  BY <1>1
<1>3. Idle' /\ NextOn'
  BY <1>1 DEF Idle, NextOn
<1>4. SlotsOn' /\ Rising'
  BY <1>2 DEF SlotsOn, Rising
<1> QED  BY <1>3, <1>4 DEF Slots

LEMMA SlotsStep == Typed /\ Slots /\ [Next]_vars => Slots'
<1> SUFFICES ASSUME Typed, Slots, [Next]_vars PROVE Slots'
  OBVIOUS
<1>1. now \in Time /\ now \in Nat /\ now >= now
  BY Times DEF Typed, TypeOK
<1>2. ASSUME NEW k \in Call, Order(k) PROVE Slots'
  <2>1. status = "none" /\ status' = status /\ runs' = runs
    BY <1>2 DEF Order, mandate, task, Typed, TypeOK
  <2> QED  BY <2>1, SlotsStarted
<1>3. ASSUME NEW k \in Call, Create(k) PROVE Slots'
  <2>1. status = "none" /\ plan \in Plans /\ runs' = runs /\ UNCHANGED plan
    BY <1>3 DEF Create, task, Typed, TypeOK, Started, Ordered
  <2>2. status' # "none" => next' = FirstRunAt(plan)
    BY <1>3, <2>1 DEF Create, mandate
  <2>3. status' # "none" => OnSlot(plan', next')
    BY <2>1, <2>2, FirstRuns DEF OnSlot
  <2> QED  BY <2>1, <2>3, SlotsStarted
<1>4. ASSUME NEW k \in Call,
             \/ \E op \in Ops \ {"create"} : Ask(k, op)
             \/ Answered(k) \/ GiveUp(k) \/ Refuse(k) \/ Pause(k) \/ Cancel(k)
      PROVE  Slots'
  <2>1. UNCHANGED <<now, plan, next, stale, runs, exec>>
    BY <1>4 DEF Ask, Answered, GiveUp, Refuse, Pause, Cancel, mandate, task
  <2>2. (status' = "none") <=> (status = "none")
    <3>1. UNCHANGED status \/ Pause(k) \/ Cancel(k)
      BY <1>4 DEF Ask, Answered, GiveUp, Refuse, mandate
    <3>2. Cancel(k) => status # "none" /\ status' = "CANCELLED"
      BY DEF Cancel, AtLock, Typed, Started, Asked
    <3>3. Pause(k) => status # "none" /\ status' = "PAUSED"
      BY DEF Pause
    <3> QED  BY <3>1, <3>2, <3>3
  <2> QED  BY <1>1, <2>1, <2>2, SlotsKept
<1>5. CASE Tick \/ Refresh \/ RevokeLocally \/ UNCHANGED vars
  <2>1. UNCHANGED <<plan, status, next, stale, runs, exec>>
    BY <1>5 DEF Tick, Refresh, RevokeLocally, vars, mandate, task, api
  <2>2. now' \in Time /\ now' >= now
    BY Onward
  <2> QED  BY <2>1, <2>2, SlotsKept
<1>6. CASE Fetch
  BY <1>1, <1>6, Fetched, SlotsKept
<1>7. CASE Complete
  <2>1. status = "ACTIVE"
    BY <1>7, Completed DEF Typed, Held
  <2> QED  BY <1>1, <1>7, <2>1, Completed, SlotsKept
<1>8. ASSUME NEW time \in Time, FindEnd(time) PROVE Slots'
  BY <1>1, <1>8, Found, SlotsKept
<1>9. ASSUME NEW i \in Run,
             \/ LookUp(i) \/ CallBank(i) \/ NoAnswer(i) \/ CrashRun(i)
             \/ Serve(i) \/ ServeLate(i) \/ Succeed(i) \/ Reject(i)
      PROVE  Slots'
  <2>1. UNCHANGED <<now, plan, next, stale, runs>>
    BY <1>9
    DEF LookUp, CallBank, NoAnswer, CrashRun, Serve, ServeLate, Succeed, Reject, mandate, task,
        api
  <2>2. \A q \in Run : exec'[q].slot = exec[q].slot
    <3>1. exec'[i].slot = exec[i].slot
      <4>1. CASE ServeLate(i)
        BY <4>1 DEF ServeLate, task
      <4>2. ASSUME NEW result, NEW stage, NEW tries, NEW answer,
                   Moved(i, result, stage, tries, answer)
            PROVE  exec'[i].slot = exec[i].slot
        BY <4>2, MovedTo
      <4>3. CASE ~ServeLate(i)
        BY ONLY <1>9, <4>2, <4>3, Moves, Typed, i \in Run
      <4> QED  BY <4>1, <4>3
    <3>2. \A q \in Run : q # i => exec'[q] = exec[q]
      <4>1. exec \in [Run -> Execution]
        BY Row
      <4> QED
        BY <1>9, <4>1
        DEF LookUp, CallBank, NoAnswer, CrashRun, Serve, ServeLate, Succeed, Reject, Reaches,
            Abandoned, Writes, task
    <3> QED  BY <3>1, <3>2
  <2>3. \A q \in 1 .. runs : q \in Run
    BY DEF Typed, TypeOK, Run
  <2>4. (status' = "none") <=> (status = "none")
    <3>1. CASE Succeed(i) \/ Reject(i)
      <4>1. exec[i].stage = "write"
        BY <3>1 DEF Succeed, Reject
      <4>2. status # "none"
        BY <4>1 DEF Typed, Unborn
      <4> QED  BY <3>1, <4>2 DEF Succeed, Reject, After
    <3>2. CASE ~Succeed(i) /\ ~Reject(i)
      BY <1>9, <3>2 DEF LookUp, CallBank, NoAnswer, CrashRun, Serve, ServeLate, mandate
    <3> QED  BY <3>1, <3>2
  <2> QED  BY <1>1, <2>1, <2>2, <2>3, <2>4, SlotsKept
<1>10. ASSUME NEW n \in note, Notify(n) \/ NotifyFails(n) PROVE Slots'
  <2>1. UNCHANGED <<now, plan, status, next, stale, runs, exec>>
    BY <1>10 DEF Notify, NotifyFails, mandate, task, api
  <2> QED  BY <1>1, <2>1, SlotsKept
<1> QED
  BY <1>2, <1>3, <1>4, <1>5, <1>6, <1>7, <1>8, <1>9, <1>10, SlotsClaimed, SlotsResumed
  DEF Next, Fetch

(* A run is of a slot of the mandate's calendar, not before its time and    *)
(* not after the end, and no slot is run twice, for any calendar: the claim *)
(* moves next_run_at in the transaction that takes it (_claim_execution),   *)
(* and a resume computes it from now.                                      *)
THEOREM SlotsRunOnce == Spec => []OncePerSlot
<1>1. Init => Slots
  <2> SUFFICES ASSUME Init PROVE Slots
    OBVIOUS
  <2>1. runs = 0 /\ 1 .. runs = {} /\ status = "none"
    BY DEF Init
  <2> QED  BY <2>1 DEF Slots, Idle, NextOn, SlotsOn, Rising
<1>2. Spec => [](Typed /\ Slots)
  BY <1>1, InitType, StepType, SlotsStep, PTL DEF Spec
<1>3. Typed /\ Slots => OncePerSlot
  BY DEF Slots, SlotsOn, Rising, OnSlot, Within, PastEnd, OncePerSlot
<1> QED  BY <1>2, <1>3, PTL
=============================================================================
