--------------------------- MODULE AtomicRequests ---------------------------
(***************************************************************************)
(* What overlapping requests amount to, for one worker: each one that      *)
(* commits does so as if it had run alone at the moment of its COMMIT, on  *)
(* the tables as they were then, and each one that does not leaves no      *)
(* trace.  PunchTransactions implements this specification.                *)
(*                                                                         *)
(* A guard stands here only if index, row lock or guarded UPDATE makes it  *)
(* true at the COMMIT.  Two checks of the handlers are missing, because    *)
(* what they read may be over by then: the lookup of the client id (a      *)
(* retry may add an entry, or close one, without an event of its own), and *)
(* punch-out's search for an open entry (it writes the row it found by id, *)
(* also one that has been closed or removed since).                        *)
(***************************************************************************)
CONSTANTS EntryId, PunchInId, PunchOutId, None

VARIABLES entry,  \* the rows of time_entries
          events  \* the rows of time_entry_events

tables == <<entry, events>>

Init == entry = [e \in {} |-> None] /\ events = {}

IsOpen(e) == entry[e].status = "in_progress"

Put(e, row) ==
    entry' = [f \in DOMAIN entry \cup {e} |-> IF f = e THEN row ELSE entry[f]]

\* A client id has one event; without one, each request has its own.
Publish(type, e, c) ==
    events' = IF c # None /\ \E ev \in events : ev.client = c THEN events
              ELSE events \cup {[type |-> type, entry |-> e, client |-> c]}

\* Under the index: no other entry is open.
PunchIn(e, c) ==
    /\ e \notin DOMAIN entry
    /\ \A f \in DOMAIN entry : ~IsOpen(f)
    /\ Put(e, [status |-> "in_progress", by |-> None, autoClosed |-> FALSE])
    /\ Publish("punch_in", e, c)

PunchOut(e, c) ==
    /\ Put(e, [entry[e] EXCEPT !.status = "completed", !.by = c])
    /\ Publish("punch_out", e, c)

\* Under the guard of its UPDATE: the entry is open.
Sweep(e) ==
    /\ IsOpen(e)
    /\ Put(e, [entry[e] EXCEPT !.status = "completed", !.by = "sweep", !.autoClosed = TRUE])
    /\ Publish("punch_out", e, None)

Remove(e) ==
    /\ entry[e].status # "deleted"
    /\ Put(e, [entry[e] EXCEPT !.status = "deleted"])
    /\ Publish("entry_deleted", e, None)

\* Under the row's lock: the entry has not been removed.
Edit(e) ==
    /\ entry[e].status # "deleted"
    /\ \/ Put(e, [entry[e] EXCEPT !.status = "completed", !.by = "manager"])
       \/ IsOpen(e) /\ UNCHANGED entry
    /\ Publish("entry_edited", e, None)

Next ==
    \/ \E e \in EntryId, c \in PunchInId : PunchIn(e, c)
    \/ \E e \in DOMAIN entry :
          \/ \E c \in PunchOutId : PunchOut(e, c)
          \/ Sweep(e) \/ Remove(e) \/ Edit(e)

Spec == Init /\ [][Next]_tables
=============================================================================
