----------------------------- MODULE MCPayroll ------------------------------
(***************************************************************************)
(* The instance of Payroll: three workers over Saturday 13 to Tuesday 16   *)
(* of a January that begins on a Monday: the days straddle a week's end    *)
(* and, in the week after it, the boundary of two semimonthly periods.     *)
(***************************************************************************)
EXTENDS Payroll, TLC

CONSTANTS w1, w2, w3

Months ==
    { [first |-> -31, last |-> -1],     \* December
      [first |-> 0, last |-> 30],       \* January
      [first |-> 31, last |-> 59] }     \* February of a leap year

Dates == 0..31

People ==
    w1 :> [type |-> "W2", rate |-> 1237, exempt |-> FALSE] @@
    w2 :> [type |-> "W2", rate |-> 0, exempt |-> TRUE] @@
    w3 :> [type |-> "contractor_1099", rate |-> 1999, exempt |-> FALSE]

\* Shifts on record and under way.
Shifts == Cardinality({<<w, d>> \in Worker \X WorkDay : hours[w][d] > 0})
          + Cardinality({w \in Worker : onClock[w] # None})

\* Rows of pay_periods and archived workers.
Beside == Cardinality(DOMAIN periods) + Cardinality(Worker \ active)

\* The bounds of the sums, with no cap enforced: two shifts; or one of a
\* worker who is paid by the hour, with one period saved or a worker archived.
Sums ==
    /\ enforcement = "off"
    /\ \A s \in DOMAIN periods : s <= 15 /\ periods[s].end >= 12
    /\ Shifts <= 2
    /\ Beside > 0 =>
          /\ Beside = 1 /\ Shifts <= 1
          /\ onClock[w2] = None /\ \A d \in WorkDay : hours[w2][d] = 0

\* The sums do not look at when a punch-in came: it comes on its date.
SentAtOnce ==
    \A w \in Worker : onClock[w] = None => onClock'[w] \in {None, today}

\* The bounds of the caps, which look at no period: the W-2 worker alone, one
\* schedule and no row of pay_periods, but punches that bear any date.
Caps ==
    /\ enforcement # "off"
    /\ schedule.type = "weekly" /\ DOMAIN periods = {}
    /\ active = Worker
    /\ \A w \in Worker \ {w1} :
          onClock[w] = None /\ \A d \in WorkDay : hours[w][d] = 0

InBounds ==
    /\ today \in WorkDay
    /\ \A w \in Worker, d \in WorkDay : hours[w][d] <= 42
    /\ Sums \/ Caps

MCInit == PayrollInit /\ InBounds

\* The bounds cut the steps, so that no property is evaluated beyond them.
MCSpec ==
    /\ MCInit
    /\ [][ /\ PayrollNext /\ InBounds'
           /\ enforcement = "off" <=> enforcement' = "off"
           /\ enforcement = "off" => SentAtOnce ]_payrollVars
=============================================================================
