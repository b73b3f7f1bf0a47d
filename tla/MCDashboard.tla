---------------------------- MODULE MCDashboard ----------------------------
(* What people do on the dashboard: corrections with their pages, accounts *)
(* and settings.  The three share no table, so in each behaviour one part  *)
(* moves and the others rest in their initial states.  Corrections: a      *)
(* worker with an entry and two managers, one browser session each.        *)
EXTENDS CorrectionDesk, Accounts, Settings, TLC

CONSTANTS w, m1, m2, e1, r1, r2, c1, c2, p1, p2, x, y, l1, l2, o1, o2

VARIABLE part

UserOfSession == [s \in Session |-> s]
OwnerOfEntry == [e \in Entry |-> w]

Symmetry ==
    Permutations({m1, m2}) \cup Permutations(RequestId)
        \cup Permutations(Client) \cup Permutations(Owner)

Mutations == {s \in Session : tx[s] # Idle}

Fetches(states) == {q \in Session \X Key : list[q[1]][q[2]].fetch \in states}

Saves == {q \in Owner \X Section : page[q[1]].saving[q[2]] # Nothing}

\* At most two mutations and fetches are on their way at a time, and at most
\* one list shows an error.
Small ==
    /\ Cardinality(Mutations) + Cardinality(Fetches({"sent", "answered"})) <= 2
    /\ Cardinality(Fetches({"failed"})) <= 1
    /\ Cardinality(Saves)
         + Cardinality({o \in Owner : page[o].fetch \in {"sent", "answered"}}) <= 2

DashboardInit ==
    /\ DeskInit /\ AccountsInit /\ SettingsInit
    /\ part \in {"corrections", "accounts", "settings"}

DashboardNext ==
    /\ \/ part = "corrections" /\ DeskNext /\ UNCHANGED <<accountsVars, settingsVars>>
       \/ part = "accounts" /\ AccountsNext /\ UNCHANGED <<deskVars, settingsVars>>
       \/ part = "settings" /\ SettingsNext /\ UNCHANGED <<deskVars, accountsVars>>
    /\ UNCHANGED part
    /\ Small'

DashboardSpec ==
    DashboardInit /\ [][DashboardNext]_<<deskVars, accountsVars, settingsVars, part>>
=============================================================================
