------------------------------ MODULE Schedule ------------------------------
(***************************************************************************)
(* The calendar of standing orders: backend/recurring/schedule.py.         *)
(*                                                                         *)
(* A date is a number of days.  A time is twice its date, plus one from    *)
(* RECURRING_EXECUTION_HOUR_UTC on: a slot is at an odd time.              *)
(***************************************************************************)
EXTENDS Integers, FiniteSets

CONSTANTS
  Months,    \* the months of the calendar are 0 .. Months - 1
  FirstDay,  \* the date each begins; FirstDay[Months] is the end of the calendar
  Week       \* days of a week

ASSUME CalendarAssumption ==
  /\ {Months, Week} \subseteq Nat \ {0}
  /\ FirstDay \in [0 .. Months -> Nat]
  /\ FirstDay[0] = 0
  /\ \A m, k \in 0 .. Months : m < k => FirstDay[m] < FirstDay[k]
  /\ \A d \in 0 .. FirstDay[Months] - 1 :
       \E m \in 0 .. Months - 1 : FirstDay[m] <= d /\ d < FirstDay[m + 1]

Month == 0 .. Months - 1
Date  == 0 .. FirstDay[Months] - 1

DateOf(time) == time \div 2

MonthOf(date) == CHOOSE m \in Month : FirstDay[m] <= date /\ date < FirstDay[m + 1]

(* The day of the month, from 0 *)
DayOf(date) == date - FirstDay[MonthOf(date)]

LastDay(m) == FirstDay[m + 1] - FirstDay[m] - 1

(* relativedelta(months=n): the last day of a month that is too short *)
PlusMonths(date, n) ==
  LET m == MonthOf(date) + n
  IN  FirstDay[m] + (IF DayOf(date) <= LastDay(m) THEN DayOf(date) ELSE LastDay(m))

(* slot_at: always counted from the start *)
SlotDate(plan, n) ==
  CASE plan.cycle = "DAILY"   -> plan.start + n
    [] plan.cycle = "WEEKLY"  -> plan.start + Week * n
    [] plan.cycle = "MONTHLY" -> PlusMonths(plan.start, n)

SlotAt(plan, n) == 2 * SlotDate(plan, n) + 1

(* first_run_at *)
FirstRunAt(plan) == 2 * plan.start + 1

(* The full months of relativedelta(date, start) *)
FullMonths(start, date) ==
  LET between == {n \in 0 .. MonthOf(date) - MonthOf(start) : PlusMonths(start, n) <= date}
  IN  CHOOSE n \in between : \A m \in between : m <= n

(* The lower estimate of compute_next_run_at *)
SlotBefore(plan, date) ==
  CASE date < plan.start -> 0
    [] date >= plan.start /\ plan.cycle = "DAILY"   -> date - plan.start
    [] date >= plan.start /\ plan.cycle = "WEEKLY"  -> (date - plan.start) \div Week
    [] date >= plan.start /\ plan.cycle = "MONTHLY" -> FullMonths(plan.start, date)

(* compute_next_run_at: the loop makes one step, when the slot of the day of *)
(* the estimate is not after `after`                                         *)
NextRunAt(plan, after) ==
  LET n == SlotBefore(plan, DateOf(after))
  IN  IF SlotAt(plan, n) > after THEN SlotAt(plan, n) ELSE SlotAt(plan, n + 1)

(* estimate_total_runs, of a plan that has an end *)
TotalRuns(plan) ==
  CASE plan.end < plan.start   -> 0
    [] plan.end >= plan.start /\ plan.cycle = "DAILY"   -> plan.end - plan.start + 1
    [] plan.end >= plan.start /\ plan.cycle = "WEEKLY"  -> (plan.end - plan.start) \div Week + 1
    [] plan.end >= plan.start /\ plan.cycle = "MONTHLY" -> FullMonths(plan.start, plan.end) + 1

-----------------------------------------------------------------------------
(* The reference: the calendar read day by day *)

RunsOn(plan, date) ==
  /\ date >= plan.start
  /\ CASE plan.cycle = "DAILY"   -> TRUE
       [] plan.cycle = "WEEKLY"  -> (date - plan.start) % Week = 0
       [] plan.cycle = "MONTHLY" ->
            \/ DayOf(date) = DayOf(plan.start)
            \/ /\ DayOf(date) = LastDay(MonthOf(date))
               /\ DayOf(date) < DayOf(plan.start)

(* The first slot after a time, within the calendar *)
IsFirstSlotAfter(plan, after, time) ==
  /\ time % 2 = 1 /\ time > after /\ RunsOn(plan, DateOf(time))
  /\ \A d \in Date : 2 * d + 1 > after /\ 2 * d + 1 < time => ~RunsOn(plan, d)
=============================================================================
