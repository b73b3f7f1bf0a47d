----------------------------- MODULE TimeClock ------------------------------
(***************************************************************************)
(* What the live time clock promises, without tables, events, breaks or    *)
(* retries: a worker is on at most one shift, a shift begins once, ends    *)
(* once, after it began, and once it is in the ledger it stays as it is.   *)
(* Several shifts may end in one step, as the sweep ends them.             *)
(* TimeTracking implements this specification.                             *)
(***************************************************************************)
EXTENDS Integers

CONSTANTS User, Shift, Time

VARIABLES running,  \* the shifts somebody is on
          ledger    \* the shifts that have ended

clockVars == <<running, ledger>>

Used == {r.shift : r \in running} \cup {r.shift : r \in ledger}

Init == running = {} /\ ledger = {}

ClockIn(u, s, t) ==
    /\ \A r \in running : r.user # u
    /\ s \notin Used
    /\ running' = running \cup {[shift |-> s, user |-> u, from |-> t]}
    /\ UNCHANGED ledger

Settled(r, t) == [shift |-> r.shift, user |-> r.user, from |-> r.from, to |-> t]

ClockOut(ended, at) ==
    /\ \A r \in ended : at[r] > r.from
    /\ running' = running \ ended
    /\ ledger' = ledger \cup {Settled(r, at[r]) : r \in ended}

Next ==
    \/ \E u \in User, s \in Shift, t \in Time : ClockIn(u, s, t)
    \/ \E ended \in (SUBSET running) \ {{}} : \E at \in [ended -> Time] : ClockOut(ended, at)

Spec == Init /\ [][Next]_clockVars
=============================================================================
