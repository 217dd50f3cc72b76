----------------------------- MODULE MCRecurring -----------------------------
(* Recurring on a small instance, with a calendar of months of 2, 1, 2 and  *)
(* 1 days, and the schedule on the first months of a common and a leap year *)
EXTENDS Recurring

(* A month without a second day lies between two months that have one *)
SmallCalendar == [m \in 0 .. 4 |-> <<0, 2, 3, 5, 6>>[m + 1]]

(* Second of the month, in two months: the second run is on the first *)
Monthly  == [start |-> 1, cycle |-> "MONTHLY", end |-> 2]
ThePlans == {Monthly}

Common == INSTANCE Schedule WITH
            Months <- 4, FirstDay <- [m \in 0 .. 4 |-> <<0, 31, 59, 90, 120>>[m + 1]], Week <- 7
Leap   == INSTANCE Schedule WITH
            Months <- 4, FirstDay <- [m \in 0 .. 4 |-> <<0, 31, 60, 91, 121>>[m + 1]], Week <- 7

Cycles == {"DAILY", "WEEKLY", "MONTHLY"}
Starts == 0 .. 59
Last   == 80

(* The next slot is the first of the calendar, whatever the start *)
ASSUME NextIsFirst ==
  \A p \in [start : Starts, cycle : Cycles], after \in 0 .. 2 * Last :
    /\ Common!IsFirstSlotAfter(p, after, Common!NextRunAt(p, after))
    /\ Leap!IsFirstSlotAfter(p, after, Leap!NextRunAt(p, after))

(* The number of runs that a mandate is said to have is that of its slots *)
ASSUME TotalIsCounted ==
  \A p \in [start : Starts, cycle : Cycles, end : {28, 31, 58, 59, Last}] :
    Common!TotalRuns(p) = Cardinality({d \in p.start .. p.end : Common!RunsOn(p, d)})
=============================================================================
