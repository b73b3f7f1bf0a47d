---------------------------- MODULE TimeTracking ----------------------------
(***************************************************************************)
(* The live time clock of the API: punch-in, punch-out, breaks and the     *)
(* auto clock-out sweep, over the three tables they write.                 *)
(*                                                                         *)
(*   entry   time_entries, the projection that payroll sums;               *)
(*   breaks  breaks;                                                       *)
(*   events  time_entry_events, the append-only log;                       *)
(*   now     the server's clock, which only the sweep reads.               *)
(*                                                                         *)
(* A handler runs in one database transaction that commits only when it    *)
(* answers without an error (middleware/tenant.ts), so here it is one      *)
(* action: a refusal or a failed CHECK changes nothing and is no step.     *)
(* Handlers that overlap in time are the subject of PunchTransactions.     *)
(*                                                                         *)
(* Instants count minutes.  Times in requests come from the client, which  *)
(* may be late (an offline punch) or ahead of the server.  The gates of    *)
(* punchIn (geofence, PIN and network checks, hour caps) read other state, *)
(* write nothing and can only refuse; a refused punch is no step.          *)
(***************************************************************************)
EXTENDS Integers, FiniteSets

CONSTANTS
    User,                  \* workers
    EntryId,               \* ids a time_entries row may get
    BreakId,               \* ids a breaks row may get
    ClientId,              \* clientGeneratedId values of requests
    BreakType,             \* break types in use
    Stamp,                 \* instants a client may send
    MaxTime,               \* the last instant of the model
    AutoClockOutMinutes,   \* organizations.auto_clock_out_minutes
    SweepLimit,            \* findStaleOpenEntries' LIMIT
    None                   \* SQL NULL

ASSUME TimeTrackingAssumption ==
    /\ MaxTime \in Nat
    /\ Stamp \subseteq 0..MaxTime
    /\ AutoClockOutMinutes \in Nat \ {0}
    /\ SweepLimit \in Nat \ {0}
    /\ BreakType \subseteq {"lunch", "standard", "unpaid"}
    /\ None \notin Int
    /\ None \notin ClientId

VARIABLES entry, breaks, events, now

ttVars == <<entry, breaks, events, now>>

Instant == 0..MaxTime

(***************************************************************************)
(* Rows.  A row's id is in the DOMAIN of its table once it is inserted;    *)
(* nothing is ever removed.  The two minute columns a close writes         *)
(* together, unpaid_break_minutes and duration_minutes, are kept as the    *)
(* gross minutes and the set of breaks whose minutes were deducted.        *)
(***************************************************************************)
UnpaidBreakTypes == {"lunch", "unpaid"}

EntryRow ==
    [ user       : User,
      punchIn    : Instant,
      punchOut   : Instant \cup {None},
      status     : {"in_progress", "completed", "deleted"},
      gross      : Nat \cup {None},
      deducted   : SUBSET BreakId,
      autoClosed : BOOLEAN ]

BreakRow ==
    [ entry  : EntryId,
      user   : User,
      type   : BreakType,
      start  : Instant,
      end    : Instant \cup {None},
      status : {"in_progress", "completed"} ]

EventRow ==
    [ type   : {"punch_in", "punch_out", "break_start", "break_end",
                "entry_edited", "entry_deleted"},
      user   : User,
      entry  : EntryId,
      client : ClientId \cup {None},
      at     : Instant \cup {None} ]

TypeOK ==
    /\ DOMAIN entry \subseteq EntryId
    /\ entry \in [DOMAIN entry -> EntryRow]
    /\ DOMAIN breaks \subseteq BreakId
    /\ breaks \in [DOMAIN breaks -> BreakRow]
    /\ events \subseteq EventRow
    /\ now \in Instant

IsOpen(e) == entry[e].punchOut = None /\ entry[e].status = "in_progress"

OpenEntries(u) == {e \in DOMAIN entry : entry[e].user = u /\ IsOpen(e)}

\* GREATEST(0, EXTRACT(EPOCH FROM b - a)::int / 60)
Minutes(a, b) == IF b > a THEN b - a ELSE 0

\* loadUnpaidBreakMinutes: the completed unpaid breaks of an entry in table bs.
Deductible(bs, e) ==
    {b \in DOMAIN bs : /\ bs[b].entry = e
                       /\ bs[b].status = "completed"
                       /\ bs[b].type \in UnpaidBreakTypes}

\* The breaks table once closeOpenBreaks has run for every entry x of
\* closing, at the instant closing[x].
BreaksClosedAt(closing) ==
    [b \in DOMAIN breaks |->
        LET brk == breaks[b] IN
        IF /\ brk.status = "in_progress"
           /\ brk.entry \in DOMAIN closing
           /\ closing[brk.entry] > brk.start
        THEN [brk EXCEPT !.end = closing[brk.entry], !.status = "completed"]
        ELSE brk]

\* The columns every close writes.
ClosedRow(row, outAt, unpaid) ==
    [row EXCEPT !.punchOut = outAt,
                !.gross    = Minutes(row.punchIn, outAt),
                !.deducted = unpaid,
                !.status   = "completed"]

-----------------------------------------------------------------------------
(***************************************************************************)
(* The log.  publishTimeEvent appends unless the worker's client id has    *)
(* been logged already; without a client id it always appends.             *)
(***************************************************************************)
Processed(u, c) == \E ev \in events : ev.user = u /\ ev.client = c

Publish(new) ==
    events' = events \cup
        {ev \in new : ev.client = None \/ ~Processed(ev.user, ev.client)}

Event(type, u, e, c, t) ==
    [type |-> type, user |-> u, entry |-> e, client |-> c, at |-> t]

-----------------------------------------------------------------------------
Init ==
    /\ entry = [e \in {} |-> None]
    /\ breaks = [b \in {} |-> None]
    /\ events = {}
    /\ now = 0

Tick ==
    /\ now < MaxTime
    /\ now' = now + 1
    /\ UNCHANGED <<entry, breaks, events>>

NewEntry(u, t) ==
    [user |-> u, punchIn |-> t, punchOut |-> None, status |-> "in_progress",
     gross |-> None, deducted |-> {}, autoClosed |-> FALSE]

InsertEntry(u, c, t) ==
    /\ \E e \in EntryId \ DOMAIN entry :
        /\ entry' = [x \in DOMAIN entry \cup {e} |->
                        IF x = e THEN NewEntry(u, t) ELSE entry[x]]
        /\ Publish({Event("punch_in", u, e, c, t)})
    /\ UNCHANGED <<breaks, now>>

\* Mutant of PunchIn: without the idempotency lookup.
PunchInNoReplayCheck(u, c, t) == OpenEntries(u) = {} /\ InsertEntry(u, c, t)

(***************************************************************************)
(* punchIn: a replayed client id returns the entry it made, a worker with  *)
(* an open entry is refused, otherwise a row and its event are written.    *)
(***************************************************************************)
PunchIn(u, c, t) ==
    /\ ~Processed(u, c)
    /\ OpenEntries(u) = {}
    /\ InsertEntry(u, c, t)

\* getCurrentOpenEntry: the open entry with the latest punch-in.
CurrentOpenEntry(u, e) ==
    /\ e \in OpenEntries(u)
    /\ \A f \in OpenEntries(u) : entry[f].punchIn <= entry[e].punchIn

\* Mutant of PunchOut: the deduction is read before the breaks are closed.
PunchOutDeductsFirst(u, c, t) ==
    /\ ~Processed(u, c)
    /\ \E e \in DOMAIN entry :
        /\ CurrentOpenEntry(u, e)
        /\ t > entry[e].punchIn
        /\ breaks' = BreaksClosedAt([x \in {e} |-> t])
        /\ entry' = [entry EXCEPT ![e] = ClosedRow(@, t, Deductible(breaks, e))]
        /\ Publish({Event("punch_out", u, e, c, t)})
    /\ UNCHANGED now

\* Mutant of PunchOut: the table's CHECK of the two instants is dropped.
PunchOutUnchecked(u, c, t) ==
    /\ ~Processed(u, c)
    /\ \E e \in DOMAIN entry :
        /\ CurrentOpenEntry(u, e)
        /\ breaks' = BreaksClosedAt([x \in {e} |-> t])
        /\ entry' = [entry EXCEPT ![e] = ClosedRow(@, t, Deductible(breaks', e))]
        /\ Publish({Event("punch_out", u, e, c, t)})
    /\ UNCHANGED now

(***************************************************************************)
(* punchOut: a replay changes nothing; open breaks are closed before the   *)
(* unpaid minutes are read; CHECK time_entries_out_after_in refuses an end *)
(* that is not after the start.                                            *)
(***************************************************************************)
PunchOut(u, c, t) ==
    /\ ~Processed(u, c)
    /\ \E e \in DOMAIN entry :
        /\ CurrentOpenEntry(u, e)
        /\ t > entry[e].punchIn
        /\ breaks' = BreaksClosedAt([x \in {e} |-> t])
        /\ entry' = [entry EXCEPT ![e] = ClosedRow(@, t, Deductible(breaks', e))]
        /\ Publish({Event("punch_out", u, e, c, t)})
    /\ UNCHANGED now

(***************************************************************************)
(* startBreak: on the caller's own entry while it has no punch-out (a      *)
(* removed entry included), one running break at a time.  There is no      *)
(* idempotency lookup: a replay is refused only while the break it started *)
(* is still running, and afterwards inserts a second row, unlogged.        *)
(***************************************************************************)
StartBreak(u, c, e, type, t) ==
    /\ entry[e].user = u
    /\ entry[e].punchOut = None
    /\ \A b \in DOMAIN breaks :
          breaks[b].entry = e => breaks[b].status # "in_progress"
    /\ \E b \in BreakId \ DOMAIN breaks :
        breaks' = [x \in DOMAIN breaks \cup {b} |->
                     IF x = b
                     THEN [entry |-> e, user |-> u, type |-> type, start |-> t,
                           end |-> None, status |-> "in_progress"]
                     ELSE breaks[x]]
    /\ Publish({Event("break_start", u, e, c, t)})
    /\ UNCHANGED <<entry, now>>

(***************************************************************************)
(* endBreak: any running break of the caller.  It looks at neither the     *)
(* entry's state nor its minutes.  CHECK breaks_end_after_start refuses an *)
(* end that is not after the start.                                        *)
(***************************************************************************)
EndBreak(u, c, b, t) ==
    /\ breaks[b].user = u
    /\ breaks[b].status = "in_progress"
    /\ t > breaks[b].start
    /\ breaks' = [breaks EXCEPT ![b].end = t, ![b].status = "completed"]
    /\ Publish({Event("break_end", u, breaks[b].entry, c, t)})
    /\ UNCHANGED <<entry, now>>

-----------------------------------------------------------------------------
(***************************************************************************)
(* The auto clock-out job: one transaction closes a batch of stale         *)
(* entries, the oldest first.                                              *)
(***************************************************************************)

\* Mutant of AutoClockOutAt: the clock stops when the sweep runs.
ClockOutNow(e) == now

\* autoClockOutAt: the clock stops at the cap, whenever the sweep runs.
AutoClockOutAt(e) == entry[e].punchIn + AutoClockOutMinutes

\* Mutant of StaleEntries: workers on a break are passed over.
StaleOffBreak ==
    {e \in DOMAIN entry : /\ IsOpen(e) /\ AutoClockOutAt(e) <= now
                          /\ \A b \in DOMAIN breaks : breaks[b].entry = e => breaks[b].end # None}

StaleEntries == {e \in DOMAIN entry : IsOpen(e) /\ AutoClockOutAt(e) <= now}

\* findStaleOpenEntries: at most SweepLimit rows in order of punch-in.
SweepBatches ==
    {batch \in SUBSET StaleEntries :
        /\ batch # {}
        /\ Cardinality(batch) <= SweepLimit
        /\ Cardinality(batch) < SweepLimit => batch = StaleEntries
        /\ \A e \in batch, f \in StaleEntries \ batch :
              entry[e].punchIn <= entry[f].punchIn}

\* runAutoClockOut, closeStaleEntry for each row of the batch.
AutoClockOut ==
    \E batch \in SweepBatches :
        /\ breaks' = BreaksClosedAt([e \in batch |-> AutoClockOutAt(e)])
        /\ entry' = [e \in DOMAIN entry |->
              IF e \in batch
              THEN [ClosedRow(entry[e], AutoClockOutAt(e), Deductible(breaks', e))
                      EXCEPT !.autoClosed = TRUE]
              ELSE entry[e]]
        /\ Publish({Event("punch_out", entry[e].user, e, None, AutoClockOutAt(e)) :
                      e \in batch})
        /\ UNCHANGED now

-----------------------------------------------------------------------------
Request ==
    \E u \in User, c \in ClientId, t \in Stamp :
        \/ PunchIn(u, c, t)
        \/ PunchOut(u, c, t)
        \/ \E e \in DOMAIN entry, type \in BreakType : StartBreak(u, c, e, type, t)
        \/ \E b \in DOMAIN breaks : EndBreak(u, c, b, t)

Next == Tick \/ Request \/ AutoClockOut

(***************************************************************************)
(* The scheduler reruns the sweep for as long as the process lives, and    *)
(* time passes.  Nothing obliges a worker to do anything.                  *)
(***************************************************************************)
Fairness == WF_ttVars(Tick) /\ WF_ttVars(AutoClockOut)

Spec == Init /\ [][Next]_ttVars /\ Fairness

-----------------------------------------------------------------------------
(* A worker is never on the clock twice: the promise of the open-entry     *)
(* check in punchIn and of the index uniq_time_entries_open_per_user.      *)
OneOpenEntryPerUser ==
    \A e, f \in DOMAIN entry :
        IsOpen(e) /\ IsOpen(f) /\ entry[e].user = entry[f].user => e = f

EventsOf(type, e) == {ev \in events : ev.type = type /\ ev.entry = e}

(* The projection is what the log says.  Every entry has one punch_in      *)
(* event, at its start; it is completed exactly when it has a punch_out    *)
(* event, which is single and at its end; and no client id is logged twice *)
(* for a worker.  So replaying a punch neither adds an entry nor moves one *)
(* (punchIn, punchOut, closeStaleEntry, publishTimeEvent).                 *)
ProjectionMatchesLog ==
    /\ \A e \in DOMAIN entry :
        /\ \E ev \in events :
            /\ EventsOf("punch_in", e) = {ev}
            /\ ev.user = entry[e].user
            /\ ev.at = entry[e].punchIn
        /\ entry[e].status = "in_progress" => EventsOf("punch_out", e) = {}
        /\ entry[e].status = "completed" =>
            \E ev \in events :
                /\ EventsOf("punch_out", e) = {ev}
                /\ ev.user = entry[e].user
                /\ ev.at = entry[e].punchOut
    /\ \A v, w \in events :
        v.user = w.user /\ v.client = w.client /\ v.client # None => v = w

(* Payable time is wall-clock time less the unpaid breaks: whoever closes  *)
(* an entry, its end is after its start, gross is the time between them,   *)
(* only unpaid breaks of this entry that have ended are deducted, and      *)
(* every unpaid break begun before the end is, a forgotten one included    *)
(* (closeOpenBreaks, loadUnpaidBreakMinutes, punchOut, closeStaleEntry).   *)
MinutesMatchBreaks ==
    \A e \in DOMAIN entry : entry[e].status = "completed" =>
        /\ entry[e].punchOut > entry[e].punchIn
        /\ entry[e].gross = entry[e].punchOut - entry[e].punchIn
        /\ entry[e].deducted \subseteq Deductible(breaks, e)
        /\ \A b \in DOMAIN breaks :
            (/\ breaks[b].entry = e
             /\ breaks[b].type \in UnpaidBreakTypes
             /\ breaks[b].start < entry[e].punchOut) => b \in entry[e].deducted

(* A settled row is settled: no live punch, break or sweep ever changes an *)
(* entry that has been completed; only a correction may (punchOut's and    *)
(* closeStaleEntry's choice of row).                                       *)
CompletedEntryIsFinal ==
    [][\A e \in DOMAIN entry :
          entry[e].status = "completed" => entry'[e] = entry[e]]_ttVars

(* Where the clock stops: an auto-closed entry ends at punch-in plus the   *)
(* cap, an instant that has passed, never at the time the sweep ran        *)
(* (autoClockOutAt, findStaleOpenEntries).                                 *)
AutoClosedAtCap ==
    \A e \in DOMAIN entry : entry[e].autoClosed =>
        /\ entry[e].status = "completed"
        /\ entry[e].punchOut = entry[e].punchIn + AutoClockOutMinutes
        /\ entry[e].punchOut <= now

(* A forgotten punch does not keep its worker off the clock forever: every *)
(* open entry is closed eventually, even when there are more of them than  *)
(* one sweep takes.                                                        *)
ForgottenPunchIsClosed ==
    \A e \in EntryId :
        (e \in DOMAIN entry /\ IsOpen(e)) ~> (e \in DOMAIN entry /\ ~IsOpen(e))

-----------------------------------------------------------------------------
(***************************************************************************)
(* The promise behind all of this, with the tables read as shifts: the     *)
(* open rows are the running shifts, the completed rows the ledger.        *)
(***************************************************************************)
Running ==
    {[shift |-> e, user |-> entry[e].user, from |-> entry[e].punchIn] :
        e \in {x \in DOMAIN entry : IsOpen(x)}}

Ledger ==
    {[shift |-> e, user |-> entry[e].user,
      from |-> entry[e].punchIn, to |-> entry[e].punchOut] :
        e \in {x \in DOMAIN entry : entry[x].status = "completed"}}

Clock == INSTANCE TimeClock
            WITH Shift <- EntryId, Time <- Instant, running <- Running, ledger <- Ledger

(* Every step of the punch, break and sweep code is a shift that begins,   *)
(* shifts that end, or nothing a reader of the time clock can see, however *)
(* requests are replayed and whatever races the sweep.                     *)
ImplementsTimeClock == Clock!Spec
=============================================================================
