----------------------------- MODULE Scheduling -----------------------------
(***************************************************************************)
(* The schedule: shifts, and the two requests workers make about them,     *)
(* shift trades and time off (routes/scheduling.ts, me.ts and admin.ts,    *)
(* time-off.service.ts).                                                   *)
(*                                                                         *)
(*   shifts     shifts, those that stand in for time off included;         *)
(*   trades     shift_trades;                                              *)
(*   leaves     time_off_requests;                                         *)
(*   overrides  the audit rows of changes forced inside the notice window; *)
(*   gone       the ids of deleted rows, which are not used again;         *)
(*   job        for each session of the pool, the request it serves.       *)
(*                                                                         *)
(* Every handler first reads and decides, then writes and commits, and no  *)
(* handler locks what it read: the two halves are two actions, with those  *)
(* of other sessions between them.  A refusal, and a transaction that is   *)
(* rolled back, leaves nothing.                                            *)
(*                                                                         *)
(* Days are numbered from a Monday and have DayLength units of time; a     *)
(* shift whose end is not after its start runs into the next day.  No      *)
(* handler gives a shift another status than "scheduled" or takes back a   *)
(* trade or a time-off request, so those statuses are left out.            *)
(***************************************************************************)
EXTENDS Integers, FiniteSets, FiniteSetsExt

CONSTANTS
    Session,         \* connections of the pool
    User,            \* workers
    ShiftId,         \* ids a shifts row may get
    TradeId,         \* ids a shift_trades row may get
    LeaveId,         \* ids a time_off_requests row may get
    MaxDate,         \* the last date of the model
    Today,           \* the server's date
    DayLength,       \* 24 hours
    WeekLength,      \* 7 days
    Slot,            \* <<start, end>> times managers schedule
    MaxWeekly,       \* organizations.max_weekly_minutes
    RestWindow,      \* 10 hours
    NoticeWindow,    \* 14 days; 0 when predictive scheduling is off
    None             \* SQL NULL

ASSUME SchedulingAssumption ==
    /\ {MaxDate, Today, MaxWeekly, RestWindow, NoticeWindow} \subseteq Nat
    /\ {DayLength, WeekLength} \subseteq Nat \ {0}
    /\ Slot \subseteq (0 .. DayLength - 1) \X (0 .. DayLength - 1)
    /\ None \notin User
    /\ ShiftId \cap TradeId = {}

VARIABLES shifts, trades, leaves, overrides, gone, job

tables == <<shifts, trades, leaves, overrides, gone>>
schedVars == <<tables, job>>

Date == 0 .. MaxDate
TimeOfDay == 0 .. DayLength - 1

ShiftRow == [ user : User, date : Date, start : TimeOfDay, end : TimeOfDay,
              type : {"standard", "time_off"} ]

TradeRow == [ shift : ShiftId, from : User, to : User \cup {None},
              status : {"open", "accepted", "approved", "rejected"} ]

LeaveRow == [ user : User, first : Date, last : Date,
              status : {"pending", "approved", "rejected"} ]

Override == [ action : {"shift_created", "shift_deleted"}, date : Date ]

\* What a handler has decided when it starts to write.
Job == [op : {"none"}]
  \cup [op : {"create"}, row : ShiftRow]
  \cup [op : {"delete"}, shift : ShiftId, date : Date]
  \cup [op : {"copy"}, rows : SUBSET ShiftRow]
  \cup [op : {"post"}, shift : ShiftId, user : User]
  \cup [op : {"accept"}, trade : TradeId, user : User]
  \cup [op : {"decide"}, trade : TradeId, shift : ShiftId, to : User,
        status : {"approved", "rejected"}]
  \cup [op : {"settle"}, leave : LeaveId, rows : SUBSET ShiftRow,
        status : {"approved", "rejected"}]

NoJob == [op |-> "none"]

SchedulingTypeOK ==
    /\ DOMAIN shifts \subseteq ShiftId
    /\ shifts \in [DOMAIN shifts -> ShiftRow]
    /\ DOMAIN trades \subseteq TradeId
    /\ trades \in [DOMAIN trades -> TradeRow]
    /\ DOMAIN leaves \subseteq LeaveId
    /\ leaves \in [DOMAIN leaves -> LeaveRow]
    /\ overrides \subseteq Override
    /\ gone \subseteq (ShiftId \cup TradeId) \ (DOMAIN shifts \cup DOMAIN trades)
    /\ job \in [Session -> Job]

Init ==
    /\ shifts = [x \in {} |-> None]
    /\ trades = [t \in {} |-> None]
    /\ leaves = [l \in {} |-> None]
    /\ overrides = {}
    /\ gone = {}
    /\ job = [s \in Session |-> NoJob]

\* The handler of a free session has read and decided.
Decided(s, decision) ==
    /\ job[s] = NoJob
    /\ job' = [job EXCEPT ![s] = decision]
    /\ UNCHANGED tables

\* The handler has written and its transaction commits.
Done(s) == job' = [job EXCEPT ![s] = NoJob]

\* A table with the rows of new inserted.
Inserted(table, new) ==
    [x \in DOMAIN table \cup DOMAIN new |->
        IF x \in DOMAIN new THEN new[x] ELSE table[x]]

\* A table without some of its rows.
Without(table, ids) == [x \in DOMAIN table \ ids |-> table[x]]

\* rows under ids that were never in use.
WithIds(rows) ==
    UNION {{f \in [ids -> rows] : rows \subseteq {f[i] : i \in ids}} :
              ids \in kSubset(Cardinality(rows), (ShiftId \ DOMAIN shifts) \ gone)}

-----------------------------------------------------------------------------
(***************************************************************************)
(* evaluateScheduleConflict and the queries that feed it.  Times of day    *)
(* are compared as they are stored; only the end of a shift that wraps     *)
(* past midnight is moved to the next day, and not for the rest period.    *)
(***************************************************************************)
Work(u) == {x \in DOMAIN shifts : shifts[x].user = u /\ shifts[x].type # "time_off"}

\* minutesBetween
Length(start, end) == IF end > start THEN end - start ELSE end - start + DayLength

\* Mutant of Overlaps: ends compared without the wrap past midnight.
OverlapsUnwrapped(row) ==
    \E x \in Work(row.user) :
        /\ shifts[x].date = row.date
        /\ row.start < shifts[x].end
        /\ shifts[x].start < row.end

Overlaps(row) ==
    \E x \in Work(row.user) :
        /\ shifts[x].date = row.date
        /\ row.start < shifts[x].start + Length(shifts[x].start, shifts[x].end)
        /\ shifts[x].start < row.start + Length(row.start, row.end)

Week(d) == d \div WeekLength

WeekMinutes(u, d) ==
    MapThenSumSet(LAMBDA x : Length(shifts[x].start, shifts[x].end),
                  {x \in Work(u) : Week(shifts[x].date) = Week(d)})

\* The end, as the query computes it, of the latest shift it finds before row.
PreviousEnd(row) ==
    LET endOf(x) == shifts[x].date * DayLength + shifts[x].end
        ends == {endOf(x) : x \in {y \in Work(row.user) :
                    \/ shifts[y].date < row.date
                    \/ shifts[y].date = row.date /\ shifts[y].end <= row.start}}
    IN {end \in ends : \A other \in ends : other <= end}

Fits(row) ==
    /\ ~Overlaps(row)
    /\ WeekMinutes(row.user, row.date) + Length(row.start, row.end) <= MaxWeekly
    /\ \A end \in PreviousEnd(row) : row.date * DayLength + row.start - end >= RestWindow

\* evaluatePredictiveLock: inside the window, and not in the past.
InNoticeWindow(d) == d - Today \in 0 .. NoticeWindow - 1

\* What applyPredictiveLockGate writes of a change it lets through.
Forced(action, d) ==
    IF InNoticeWindow(d) THEN {[action |-> action, date |-> d]} ELSE {}

-----------------------------------------------------------------------------
(***************************************************************************)
(* POST /shifts, with or without ?force=true.                              *)
(***************************************************************************)
ProposeShift(s, row, force) ==
    /\ InNoticeWindow(row.date) => force
    /\ force \/ Fits(row)
    /\ Decided(s, [op |-> "create", row |-> row])

InsertShift(s) ==
    /\ job[s].op = "create"
    /\ \E new \in WithIds({job[s].row}) : shifts' = Inserted(shifts, new)
    /\ overrides' = overrides \cup Forced("shift_created", job[s].row.date)
    /\ UNCHANGED <<trades, leaves, gone>>
    /\ Done(s)

(***************************************************************************)
(* DELETE /shifts/:id.  The trades of the shift go with it.                *)
(***************************************************************************)
ReadShift(s, x, force) ==
    /\ InNoticeWindow(shifts[x].date) => force
    /\ Decided(s, [op |-> "delete", shift |-> x, date |-> shifts[x].date])

TradesOf(x) == {t \in DOMAIN trades : trades[t].shift = x}

DeleteShift(s) ==
    /\ job[s].op = "delete"
    /\ shifts' = Without(shifts, {job[s].shift})
    /\ trades' = Without(trades, TradesOf(job[s].shift))
    /\ overrides' = overrides \cup Forced("shift_deleted", job[s].date)
    /\ gone' = gone \cup {job[s].shift} \cup TradesOf(job[s].shift)
    /\ UNCHANGED leaves
    /\ Done(s)

(***************************************************************************)
(* POST /shifts/copy-week, from any date to any date: no notice and no     *)
(* conflict check, but a slot in which the worker has a row is left alone. *)
(***************************************************************************)
SameSlot(r, q) == r.user = q.user /\ r.date = q.date /\ r.start = q.start
SlotTaken(r) == \E x \in DOMAIN shifts : SameSlot(shifts[x], r)

\* What the loop picks of the rows it goes through in some order.
Picks(rows) ==
    LET free == {r \in rows : ~SlotTaken(r)}
    IN {pick \in SUBSET free : \A r \in free :
                                Cardinality({q \in pick : SameSlot(r, q)}) = 1}

\* Mutant of Source: time off is copied like work.
SourceOfAll(from) == {x \in DOMAIN shifts : shifts[x].date - from \in 0 .. WeekLength - 1}

Source(from) ==
    {x \in DOMAIN shifts : /\ shifts[x].type # "time_off"
                           /\ shifts[x].date - from \in 0 .. WeekLength - 1}

ReadWeek(s, from, to) ==
    LET copies == {[shifts[x] EXCEPT !.date = @ - from + to] : x \in Source(from)}
    IN /\ \A r \in copies : r.date \in Date
       /\ \E pick \in Picks(copies) \ {{}} : Decided(s, [op |-> "copy", rows |-> pick])

CopyWeek(s) ==
    /\ job[s].op = "copy"
    /\ \E new \in WithIds(job[s].rows) : shifts' = Inserted(shifts, new)
    /\ UNCHANGED <<trades, leaves, overrides, gone>>
    /\ Done(s)

-----------------------------------------------------------------------------
(***************************************************************************)
(* POST /shift-trade: an own shift without a live trade.                   *)
(***************************************************************************)
Live(t) == trades[t].status \in {"open", "accepted"}

OfferShift(s, u, x) ==
    /\ shifts[x].user = u
    /\ \A t \in TradesOf(x) : ~Live(t)
    /\ Decided(s, [op |-> "post", shift |-> x, user |-> u])

\* The foreign key refuses a shift that has been deleted.
PostTrade(s) ==
    /\ job[s].op = "post"
    /\ job[s].shift \in DOMAIN shifts
    /\ \E t \in (TradeId \ DOMAIN trades) \ gone :
         trades' = Inserted(trades, [r \in {t} |->
            [shift |-> job[s].shift, from |-> job[s].user, to |-> None, status |-> "open"]])
    /\ UNCHANGED <<shifts, leaves, overrides, gone>>
    /\ Done(s)

(***************************************************************************)
(* POST /shift-trade/:id/accept.  The UPDATE asks for an open trade again. *)
(***************************************************************************)
TakeTrade(s, u, t) ==
    /\ trades[t].status = "open"
    /\ trades[t].from # u
    /\ Decided(s, [op |-> "accept", trade |-> t, user |-> u])

\* Mutant of AcceptTrade: the UPDATE goes by the id alone.
AcceptTradeById(s) ==
    /\ job[s].op = "accept"
    /\ job[s].trade \in DOMAIN trades
    /\ trades' = [trades EXCEPT ![job[s].trade].to = job[s].user,
                                ![job[s].trade].status = "accepted"]
    /\ UNCHANGED <<shifts, leaves, overrides, gone>>
    /\ Done(s)

AcceptTrade(s) ==
    /\ job[s].op = "accept"
    /\ job[s].trade \in DOMAIN trades
    /\ trades[job[s].trade].status = "open"
    /\ trades' = [trades EXCEPT ![job[s].trade].to = job[s].user,
                                ![job[s].trade].status = "accepted"]
    /\ UNCHANGED <<shifts, leaves, overrides, gone>>
    /\ Done(s)

(***************************************************************************)
(* POST /admin/shift-trade/:id/decision.  Both UPDATEs go by the id alone, *)
(* and do nothing when the row is gone.                                    *)
(***************************************************************************)
JudgeTrade(s, t, status) ==
    /\ trades[t].status = "accepted"
    /\ Decided(s, [op |-> "decide", trade |-> t, shift |-> trades[t].shift,
                   to |-> trades[t].to, status |-> status])

\* Mutant of DecideTrade: the shift changes hands whatever the decision.
DecideTradeAnyhow(s) ==
    /\ job[s].op = "decide"
    /\ trades' = [t \in DOMAIN trades |->
                    IF t = job[s].trade THEN [trades[t] EXCEPT !.status = job[s].status]
                    ELSE trades[t]]
    /\ shifts' = [x \in DOMAIN shifts |->
                    IF x = job[s].shift THEN [shifts[x] EXCEPT !.user = job[s].to]
                    ELSE shifts[x]]
    /\ UNCHANGED <<leaves, overrides, gone>>
    /\ Done(s)

DecideTrade(s) ==
    /\ job[s].op = "decide"
    /\ trades' = [t \in DOMAIN trades |->
                    IF t = job[s].trade THEN [trades[t] EXCEPT !.status = job[s].status]
                    ELSE trades[t]]
    /\ shifts' = [x \in DOMAIN shifts |->
                    IF x = job[s].shift /\ job[s].status = "approved"
                    THEN [shifts[x] EXCEPT !.user = job[s].to]
                    ELSE shifts[x]]
    /\ UNCHANGED <<leaves, overrides, gone>>
    /\ Done(s)

-----------------------------------------------------------------------------
(***************************************************************************)
(* POST /time-off: one INSERT.                                             *)
(***************************************************************************)
RequestLeave(u, first, last) ==
    /\ first <= last
    /\ \E l \in LeaveId \ DOMAIN leaves :
         leaves' = Inserted(leaves, [r \in {l} |->
                      [user |-> u, first |-> first, last |-> last, status |-> "pending"]])
    /\ UNCHANGED <<shifts, trades, overrides, gone, job>>

\* enumerateDates, and the dates materializeTimeOffShifts does not skip.
FreeDates(l) ==
    {d \in leaves[l].first .. leaves[l].last :
        \A x \in DOMAIN shifts : ~(shifts[x].user = leaves[l].user /\ shifts[x].date = d)}

\* 00:00 to 23:59 of each free date.
Placeholders(l) ==
    {[user |-> leaves[l].user, date |-> d, start |-> 0, end |-> DayLength - 1,
      type |-> "time_off"] : d \in FreeDates(l)}

(***************************************************************************)
(* POST /admin/time-off/:id/decision.  The UPDATE goes by the id alone.    *)
(***************************************************************************)
JudgeLeave(s, l, status) ==
    /\ leaves[l].status = "pending"
    /\ Decided(s, [op |-> "settle", leave |-> l, status |-> status,
                   rows |-> IF status = "approved" THEN Placeholders(l) ELSE {}])

SettleLeave(s) ==
    /\ job[s].op = "settle"
    /\ leaves' = [leaves EXCEPT ![job[s].leave].status = job[s].status]
    /\ \E new \in WithIds(job[s].rows) : shifts' = Inserted(shifts, new)
    /\ UNCHANGED <<trades, overrides, gone>>
    /\ Done(s)

-----------------------------------------------------------------------------
\* The connection is lost, or a statement fails, before the commit.
Rollback(s) ==
    /\ job[s] # NoJob
    /\ UNCHANGED tables
    /\ Done(s)

Proposal == {[user |-> u, date |-> d, start |-> slot[1], end |-> slot[2],
              type |-> "standard"] : u \in User, d \in Date, slot \in Slot}

Schedule(s) ==
    \/ \E row \in Proposal, force \in BOOLEAN : ProposeShift(s, row, force)
    \/ InsertShift(s)
    \/ \E x \in DOMAIN shifts, force \in BOOLEAN : ReadShift(s, x, force)
    \/ DeleteShift(s)
    \/ \E from, to \in Date : ReadWeek(s, from, to)
    \/ CopyWeek(s)

Trade(s) ==
    \/ \E u \in User, x \in DOMAIN shifts : OfferShift(s, u, x)
    \/ PostTrade(s)
    \/ \E u \in User, t \in DOMAIN trades : TakeTrade(s, u, t)
    \/ AcceptTrade(s)
    \/ \E t \in DOMAIN trades, status \in {"approved", "rejected"} : JudgeTrade(s, t, status)
    \/ DecideTrade(s)

Leave(s) ==
    \/ \E l \in DOMAIN leaves, status \in {"approved", "rejected"} : JudgeLeave(s, l, status)
    \/ SettleLeave(s)

Next ==
    \/ \E u \in User, first, last \in Date : RequestLeave(u, first, last)
    \/ \E s \in Session : Schedule(s) \/ Trade(s) \/ Leave(s) \/ Rollback(s)

Spec == Init /\ [][Next]_schedVars

-----------------------------------------------------------------------------
\* The units of time a row takes up, counted from the first midnight.
Occupied(row) ==
    LET from == row.date * DayLength + row.start
    IN from .. from + Length(row.start, row.end) - 1

(***************************************************************************)
(* A proposal that POST /shifts takes without force meets no other shift   *)
(* of that worker and date at any unit of time, and leaves the worker's    *)
(* week within the cap, night shifts included                              *)
(* (evaluateScheduleConflict).                                             *)
(***************************************************************************)
UnforcedShiftFits ==
    [][\A s \in Session, row \in Proposal :
          ProposeShift(s, row, FALSE) =>
              LET sameDate == {x \in Work(row.user) : shifts[x].date = row.date}
                  sameWeek == {x \in Work(row.user) : Week(shifts[x].date) = Week(row.date)}
              IN /\ \A x \in sameDate : Occupied(shifts[x]) \cap Occupied(row) = {}
                 /\ MapThenSumSet(LAMBDA x : Cardinality(Occupied(shifts[x])), sameWeek)
                      + Cardinality(Occupied(row))
                      <= MaxWeekly
      ]_schedVars

(***************************************************************************)
(* A trade is accepted once: of two workers who take it at the same time   *)
(* one is told so and stays its acceptor, and no decision is undone by a   *)
(* late acceptance (the guarded UPDATE of accept).                         *)
(***************************************************************************)
AcceptedOnce ==
    [][\A t \in DOMAIN trades \cap DOMAIN trades' :
          trades[t].status # "open" =>
              /\ trades'[t].to = trades[t].to
              /\ trades'[t].status = "accepted" => trades[t].status = "accepted"]_schedVars

(***************************************************************************)
(* A shift changes hands only as a trade of it is approved, and goes to    *)
(* the worker who accepted that trade, also when posts, decisions and      *)
(* deletions of it overlap.                                                *)
(***************************************************************************)
ShiftsMoveByTrade ==
    [][\A x \in DOMAIN shifts \cap DOMAIN shifts' :
          shifts'[x].user # shifts[x].user =>
              \E t \in DOMAIN trades' : /\ trades'[t].shift = x
                                        /\ trades'[t].status = "approved"
                                        /\ trades'[t].to = shifts'[x].user]_schedVars

(***************************************************************************)
(* A row that stands in for time off appears only as a request of that     *)
(* worker is approved, on a date of the request: no copy of a week and no  *)
(* other handler makes one (copy-week, materializeTimeOffShifts).          *)
(***************************************************************************)
TimeOffIsApproved ==
    [][\A x \in DOMAIN shifts' \ DOMAIN shifts :
          shifts'[x].type = "time_off" =>
              \E l \in DOMAIN leaves' : /\ leaves'[l].status = "approved"
                                        /\ leaves'[l].user = shifts'[x].user
                                        /\ shifts'[x].date \in leaves'[l].first .. leaves'[l].last
      ]_schedVars
=============================================================================
