-------------------------- MODULE Scheduling_proofs --------------------------
(***************************************************************************)
(* What overlapping handlers may do to shifts, trades and time off.  Every *)
(* handler writes what it decided earlier, so the invariant says what      *)
(* still holds of the rows a decision was made from when it is written.    *)
(***************************************************************************)
EXTENDS Scheduling, FiniteSetTheorems, TLAPS

-----------------------------------------------------------------------------
(***************************************************************************)
(* The invariant.                                                          *)
(***************************************************************************)
\* A trade that was accepted names the worker who took it.
TakersKnown(T) ==
    \A t \in DOMAIN T : T[t].status = "accepted" => T[t].to \in User

\* The trade a decision is about is still the one that was read, unless it
\* went with its shift.
DecisionStands(j, T, G) ==
    j.op = "decide" =>
        \/ j.shift \in G
        \/ /\ j.trade \in DOMAIN T
           /\ T[j.trade].shift = j.shift
           /\ T[j.trade].to = j.to
           /\ T[j.trade].status # "open"

\* A placeholder to be written is one of an approved request.
PlaceholdersStand(j, L) ==
    j.op = "settle" =>
        /\ j.leave \in DOMAIN L
        /\ \A r \in j.rows : /\ j.status = "approved"
                             /\ r.user = L[j.leave].user
                             /\ r.date \in L[j.leave].first .. L[j.leave].last

\* No other handler is about to write one.
OnlyWork(j) ==
    /\ j.op = "create" => j.row.type # "time_off"
    /\ j.op = "copy" => \A r \in j.rows : r.type # "time_off"

JobStands(j, T, L, G) ==
    /\ DecisionStands(j, T, G)
    /\ PlaceholdersStand(j, L)
    /\ OnlyWork(j)

SchedulingInv ==
    /\ SchedulingTypeOK
    /\ TakersKnown(trades)
    /\ \A s \in Session : JobStands(job[s], trades, leaves, gone)

\* The part of the invariant that is about the tables.
ShiftsOK == DOMAIN shifts \subseteq ShiftId /\ shifts \in [DOMAIN shifts -> ShiftRow]
TradesOK ==
    /\ DOMAIN trades \subseteq TradeId /\ trades \in [DOMAIN trades -> TradeRow]
    /\ TakersKnown(trades)
LeavesOK == DOMAIN leaves \subseteq LeaveId /\ leaves \in [DOMAIN leaves -> LeaveRow]
GoneOK == gone \subseteq (ShiftId \cup TradeId) \ (DOMAIN shifts \cup DOMAIN trades)
TablesOK == ShiftsOK /\ TradesOK /\ LeavesOK /\ GoneOK /\ overrides \subseteq Override

JobsOK ==
    /\ job \in [Session -> Job]
    /\ \A s \in Session : JobStands(job[s], trades, leaves, gone)

\* The invariant is both parts, before a step and after it.
LEMMA InvParts ==
    /\ SchedulingInv <=> TablesOK /\ JobsOK
    /\ SchedulingInv' <=> TablesOK' /\ JobsOK'
BY DEF SchedulingInv, SchedulingTypeOK, TablesOK, ShiftsOK, TradesOK, LeavesOK, GoneOK, JobsOK

-----------------------------------------------------------------------------
(***************************************************************************)
(* The two halves of a handler.                                            *)
(***************************************************************************)
\* What a commit leaves of the rows that other handlers have read: a trade
\* goes only with its shift and an answered one keeps its taker, and a request
\* for time off keeps its worker and dates.
Carried ==
    /\ gone \subseteq gone'
    /\ \A t \in DOMAIN trades :
          \/ trades[t].shift \in gone'
          \/ /\ t \in DOMAIN trades'
             /\ trades'[t].shift = trades[t].shift
             /\ trades[t].status # "open" => /\ trades'[t].to = trades[t].to
                                             /\ trades'[t].status # "open"
    /\ \A l \in DOMAIN leaves :
          /\ l \in DOMAIN leaves'
          /\ leaves'[l].user = leaves[l].user
          /\ leaves'[l].first = leaves[l].first
          /\ leaves'[l].last = leaves[l].last

\* A commit that carries those rows over leaves every decision standing.
LEMMA JobsCarried ==
    ASSUME JobsOK, TablesOK, Carried,
           job' \in [Session -> Job],
           \A s \in Session : job'[s] = job[s] \/ job'[s] = NoJob
    PROVE  JobsOK'
<1> SUFFICES ASSUME NEW s \in Session
             PROVE  JobStands(job'[s], trades', leaves', gone')
  BY DEF JobsOK
<1>1. CASE job'[s] = NoJob
  BY <1>1 DEF NoJob, JobStands, DecisionStands, PlaceholdersStand, OnlyWork
<1>2. CASE job'[s] = job[s]
  <2> DEFINE j == job[s]
  <2> HIDE DEF j
  <2>1. JobStands(j, trades, leaves, gone)
    BY DEF JobsOK, j
  <2>2. DecisionStands(j, trades', gone')
    BY <2>1 DEF JobStands, DecisionStands, Carried
  <2>3. PlaceholdersStand(j, leaves')
    BY <2>1 DEF JobStands, PlaceholdersStand, Carried
  <2> QED
    BY <1>2, <2>1, <2>2, <2>3 DEF JobStands, j
<1> QED
  BY <1>1, <1>2

\* A handler that has decided leaves the tables as they are.
LEMMA DecidedKeeps ==
    ASSUME SchedulingInv, NEW s \in Session, NEW j \in Job,
           JobStands(j, trades, leaves, gone), Decided(s, j)
    PROVE  SchedulingInv'
<1>1. TablesOK /\ JobsOK
  BY InvParts
<1>2. UNCHANGED tables /\ job' = [job EXCEPT ![s] = j]
  BY DEF Decided
<1>3. TablesOK'
  BY <1>1, <1>2 DEF tables, TablesOK, ShiftsOK, TradesOK, LeavesOK, GoneOK
<1>4. job' \in [Session -> Job]
  BY <1>1, <1>2 DEF JobsOK
<1>5. ASSUME NEW r \in Session
      PROVE  JobStands(job'[r], trades', leaves', gone')
  <2>1. trades' = trades /\ leaves' = leaves /\ gone' = gone
    BY <1>2 DEF tables
  <2>2. job'[r] = j \/ job'[r] = job[r]
    BY <1>1, <1>2 DEF JobsOK
  <2> QED
    BY <1>1, <2>1, <2>2 DEF JobsOK
<1> QED
  BY <1>3, <1>4, <1>5, InvParts DEF JobsOK

\* A handler that commits has only to keep the tables well formed and the
\* rows that others have read.
LEMMA DoneKeeps ==
    ASSUME SchedulingInv, NEW s \in Session, Done(s), TablesOK', Carried
    PROVE  SchedulingInv'
<1>1. TablesOK /\ JobsOK
  BY InvParts
<1>2. NoJob \in Job
  BY DEF NoJob, Job
<1>3. job' \in [Session -> Job] /\ \A r \in Session : job'[r] = job[r] \/ job'[r] = NoJob
  BY <1>1, <1>2 DEF Done, JobsOK
<1>4. JobsOK'
  BY <1>1, <1>3, JobsCarried
<1> QED
  BY <1>4, InvParts

-----------------------------------------------------------------------------
(***************************************************************************)
(* Rows that are inserted.                                                 *)
(***************************************************************************)
\* The ids of new rows were never in use.
LEMMA NewIds ==
    ASSUME NEW rows, NEW new \in WithIds(rows)
    PROVE  /\ DOMAIN new \subseteq (ShiftId \ DOMAIN shifts) \ gone
           /\ \A x \in DOMAIN new : new[x] \in rows
BY DEF WithIds, kSubset

\* Inserting shifts adds rows and changes none.
LEMMA ShiftsInserted ==
    ASSUME ShiftsOK, NEW rows \in SUBSET ShiftRow, NEW new \in WithIds(rows),
           shifts' = Inserted(shifts, new)
    PROVE  /\ ShiftsOK'
           /\ DOMAIN shifts' \subseteq DOMAIN shifts \cup (ShiftId \ gone)
           /\ \A x \in DOMAIN shifts : x \in DOMAIN shifts' /\ shifts'[x] = shifts[x]
           /\ \A x \in DOMAIN shifts' \ DOMAIN shifts : shifts'[x] \in rows
<1>1. /\ DOMAIN new \subseteq (ShiftId \ DOMAIN shifts) \ gone
      /\ \A x \in DOMAIN new : new[x] \in rows
  BY NewIds
<1>2. /\ DOMAIN shifts' = DOMAIN shifts \cup DOMAIN new
      /\ \A x \in DOMAIN shifts' : shifts'[x] = IF x \in DOMAIN new THEN new[x] ELSE shifts[x]
      /\ shifts' = [x \in DOMAIN shifts' |-> shifts'[x]]
  BY DEF Inserted
<1>3. \A x \in DOMAIN shifts' : shifts'[x] \in ShiftRow
  BY <1>1, <1>2 DEF ShiftsOK
<1> QED
  BY <1>1, <1>2, <1>3 DEF ShiftsOK

\* A commit that only inserts shifts keeps the invariant.
LEMMA InsertKeeps ==
    ASSUME SchedulingInv, NEW s \in Session, Done(s),
           NEW rows \in SUBSET ShiftRow, NEW new \in WithIds(rows),
           shifts' = Inserted(shifts, new),
           UNCHANGED <<trades, leaves, gone>>, overrides' \subseteq Override
    PROVE  SchedulingInv'
<1>1. TablesOK
  BY InvParts
<1>2. /\ ShiftsOK'
      /\ DOMAIN shifts' \subseteq DOMAIN shifts \cup (ShiftId \ gone)
  BY <1>1, ShiftsInserted DEF TablesOK
<1>3. TablesOK'
  BY <1>1, <1>2 DEF TablesOK, TradesOK, LeavesOK, GoneOK
<1>4. Carried
  BY <1>1 DEF Carried, TablesOK, TradesOK, LeavesOK
<1> QED
  BY <1>3, <1>4, DoneKeeps

-----------------------------------------------------------------------------
(***************************************************************************)
(* Shifts.                                                                 *)
(***************************************************************************)
\* POST /shifts decides on a row of work.
LEMMA ProposeKeeps ==
    ASSUME SchedulingInv, NEW s \in Session, NEW row \in Proposal, NEW force \in BOOLEAN,
           ProposeShift(s, row, force)
    PROVE  SchedulingInv'
<1>1. row \in ShiftRow /\ row.type # "time_off"
  BY SchedulingAssumption DEF Proposal, ShiftRow, TimeOfDay
<1> DEFINE j == [op |-> "create", row |-> row]
<1>2. j \in Job
  BY <1>1 DEF Job
<1>3. JobStands(j, trades, leaves, gone)
  BY <1>1 DEF JobStands, DecisionStands, PlaceholdersStand, OnlyWork
<1> QED
  BY <1>2, <1>3, DecidedKeeps DEF ProposeShift

\* What a handler of each kind has decided.
LEMMA JobFields ==
    ASSUME SchedulingInv, NEW s \in Session
    PROVE  /\ job[s].op = "create" => job[s].row \in ShiftRow /\ job[s].row.type # "time_off"
           /\ job[s].op = "delete" => job[s].shift \in ShiftId /\ job[s].date \in Date
           /\ job[s].op = "copy" => /\ job[s].rows \in SUBSET ShiftRow
                                    /\ \A r \in job[s].rows : r.type # "time_off"
           /\ job[s].op = "post" => job[s].shift \in ShiftId /\ job[s].user \in User
           /\ job[s].op = "accept" => job[s].trade \in TradeId /\ job[s].user \in User
           /\ job[s].op = "decide" => /\ job[s].shift \in ShiftId
                                      /\ job[s].to \in User
                                      /\ job[s].status \in {"approved", "rejected"}
           /\ job[s].op = "settle" => /\ job[s].leave \in DOMAIN leaves
                                      /\ job[s].rows \in SUBSET ShiftRow
                                      /\ job[s].status \in {"approved", "rejected"}
<1> DEFINE j == job[s]
<1>1. j \in Job /\ JobStands(j, trades, leaves, gone)
  BY InvParts DEF JobsOK
<1> HIDE DEF j
<1>2. /\ j.op = "create" => j.row \in ShiftRow
      /\ j.op = "delete" => j.shift \in ShiftId /\ j.date \in Date
      /\ j.op = "copy" => j.rows \in SUBSET ShiftRow
      /\ j.op = "post" => j.shift \in ShiftId /\ j.user \in User
      /\ j.op = "accept" => j.trade \in TradeId /\ j.user \in User
      /\ j.op = "decide" => /\ j.shift \in ShiftId /\ j.to \in User
                            /\ j.status \in {"approved", "rejected"}
      /\ j.op = "settle" => /\ j.rows \in SUBSET ShiftRow
                            /\ j.status \in {"approved", "rejected"}
  BY <1>1 DEF Job
<1>3. /\ j.op = "create" => j.row.type # "time_off"
      /\ j.op = "copy" => \A r \in j.rows : r.type # "time_off"
      /\ j.op = "settle" => j.leave \in DOMAIN leaves
  BY <1>1 DEF JobStands, OnlyWork, PlaceholdersStand
<1> QED
  BY <1>2, <1>3 DEF j

\* The audit rows of forced changes are rows of the audit log.
LEMMA ForcedRows ==
    ASSUME NEW action \in {"shift_created", "shift_deleted"}, NEW d \in Date
    PROVE  Forced(action, d) \subseteq Override
BY DEF Forced, Override

\* POST /shifts writes it.
LEMMA InsertShiftKeeps ==
    ASSUME SchedulingInv, NEW s \in Session, InsertShift(s)
    PROVE  SchedulingInv'
<1>1. job[s].row \in ShiftRow
  BY JobFields DEF InsertShift
<1>2. PICK new \in WithIds({job[s].row}) : shifts' = Inserted(shifts, new)
  BY DEF InsertShift
<1>3. overrides' \subseteq Override
  <2>1. job[s].row.date \in Date
    BY <1>1 DEF ShiftRow
  <2>2. overrides \subseteq Override
    BY InvParts DEF TablesOK
  <2> QED
    BY <2>1, <2>2, ForcedRows DEF InsertShift
<1> QED
  BY <1>1, <1>2, <1>3, InsertKeeps DEF InsertShift

\* DELETE /shifts/:id reads the shift.
LEMMA ReadShiftKeeps ==
    ASSUME SchedulingInv, NEW s \in Session, NEW x \in DOMAIN shifts, NEW force \in BOOLEAN,
           ReadShift(s, x, force)
    PROVE  SchedulingInv'
<1> DEFINE j == [op |-> "delete", shift |-> x, date |-> shifts[x].date]
<1>1. x \in ShiftId /\ shifts[x].date \in Date
  BY InvParts DEF TablesOK, ShiftsOK, ShiftRow
<1>2. j \in Job
  BY <1>1 DEF Job
<1>3. JobStands(j, trades, leaves, gone)
  BY DEF JobStands, DecisionStands, PlaceholdersStand, OnlyWork
<1> QED
  BY <1>2, <1>3, DecidedKeeps DEF ReadShift

\* DELETE /shifts/:id removes it with its trades.
LEMMA DeleteShiftKeeps ==
    ASSUME SchedulingInv, NEW s \in Session, DeleteShift(s)
    PROVE  SchedulingInv'
<1>1. TablesOK /\ job[s].shift \in ShiftId /\ job[s].date \in Date
  BY JobFields, InvParts DEF DeleteShift
<1> DEFINE x == job[s].shift
<1> HIDE DEF x
<1>2. /\ shifts' = [y \in DOMAIN shifts \ {x} |-> shifts[y]]
      /\ trades' = [t \in DOMAIN trades \ TradesOf(x) |-> trades[t]]
      /\ gone' = gone \cup {x} \cup TradesOf(x)
      /\ UNCHANGED leaves
  BY DEF DeleteShift, Without, x
<1>3. TradesOf(x) = {t \in DOMAIN trades : trades[t].shift = x}
  BY DEF TradesOf
<1>4. x \in ShiftId
  BY <1>1 DEF x
<1>5. ShiftsOK'
  BY <1>1, <1>2 DEF TablesOK, ShiftsOK
<1>6. TradesOK'
  BY <1>1, <1>2 DEF TablesOK, TradesOK, TakersKnown
<1>7. GoneOK'
  BY <1>1, <1>2, <1>3, <1>4, SchedulingAssumption
     DEF TablesOK, GoneOK, ShiftsOK, TradesOK
<1>8. overrides' \subseteq Override
  BY <1>1, ForcedRows DEF DeleteShift, TablesOK
<1>9. LeavesOK'
  BY <1>1, <1>2 DEF TablesOK, LeavesOK
<1>10. Carried
  <2>1. \A t \in DOMAIN trades : \/ trades[t].shift \in gone'
                                 \/ t \in DOMAIN trades' /\ trades'[t] = trades[t]
    BY <1>2, <1>3
  <2> QED
    BY <1>2, <2>1 DEF Carried
<1> QED
  BY <1>5, <1>6, <1>7, <1>8, <1>9, <1>10, DoneKeeps DEF TablesOK, DeleteShift

\* POST /shifts/copy-week picks rows of work.
LEMMA ReadWeekKeeps ==
    ASSUME SchedulingInv, NEW s \in Session, NEW from \in Date, NEW to \in Date,
           ReadWeek(s, from, to)
    PROVE  SchedulingInv'
<1> DEFINE copies == {[shifts[x] EXCEPT !.date = @ - from + to] : x \in Source(from)}
<1>1. ASSUME NEW r \in copies
      PROVE  r \in ShiftRow /\ r.type # "time_off"
  <2>1. PICK x \in Source(from) : r = [shifts[x] EXCEPT !.date = @ - from + to]
    OBVIOUS
  <2>2. shifts[x] \in ShiftRow /\ shifts[x].type # "time_off"
    BY InvParts DEF Source, TablesOK, ShiftsOK
  <2>3. r.date \in Date
    BY DEF ReadWeek
  <2> QED
    BY <2>1, <2>2, <2>3 DEF ShiftRow
<1>2. PICK pick \in Picks(copies) : Decided(s, [op |-> "copy", rows |-> pick])
  BY DEF ReadWeek
<1>3. pick \subseteq copies
  BY DEF Picks
<1> HIDE DEF copies
<1> DEFINE j == [op |-> "copy", rows |-> pick]
<1>4. j \in Job
  BY <1>1, <1>3 DEF Job
<1>5. JobStands(j, trades, leaves, gone)
  BY <1>1, <1>3 DEF JobStands, DecisionStands, PlaceholdersStand, OnlyWork
<1> QED
  BY <1>2, <1>4, <1>5, DecidedKeeps

\* POST /shifts/copy-week writes them.
LEMMA CopyWeekKeeps ==
    ASSUME SchedulingInv, NEW s \in Session, CopyWeek(s)
    PROVE  SchedulingInv'
<1>1. job[s].rows \in SUBSET ShiftRow /\ overrides \subseteq Override
  BY JobFields, InvParts DEF CopyWeek, TablesOK
<1>2. PICK new \in WithIds(job[s].rows) : shifts' = Inserted(shifts, new)
  BY DEF CopyWeek
<1> QED
  BY <1>1, <1>2, InsertKeeps DEF CopyWeek

-----------------------------------------------------------------------------
(***************************************************************************)
(* Trades.                                                                 *)
(***************************************************************************)
\* POST /shift-trade reads the shift.
LEMMA OfferKeeps ==
    ASSUME SchedulingInv, NEW s \in Session, NEW u \in User, NEW x \in DOMAIN shifts,
           OfferShift(s, u, x)
    PROVE  SchedulingInv'
<1> DEFINE j == [op |-> "post", shift |-> x, user |-> u]
<1>1. x \in ShiftId
  BY InvParts DEF TablesOK, ShiftsOK
<1>2. j \in Job
  BY <1>1 DEF Job
<1>3. JobStands(j, trades, leaves, gone)
  BY DEF JobStands, DecisionStands, PlaceholdersStand, OnlyWork
<1> QED
  BY <1>2, <1>3, DecidedKeeps DEF OfferShift

\* POST /shift-trade inserts the trade, under an id of its own.
LEMMA PostKeeps ==
    ASSUME SchedulingInv, NEW s \in Session, PostTrade(s)
    PROVE  SchedulingInv'
<1>1. TablesOK /\ job[s].shift \in ShiftId /\ job[s].user \in User
  BY JobFields, InvParts DEF PostTrade
<1> DEFINE row == [shift |-> job[s].shift, from |-> job[s].user, to |-> None, status |-> "open"]
<1>2. row \in TradeRow
  BY <1>1 DEF TradeRow
<1>3. PICK t \in (TradeId \ DOMAIN trades) \ gone : trades' = Inserted(trades, [r \in {t} |-> row])
  BY DEF PostTrade
<1>4. row.status = "open"
  OBVIOUS
<1> HIDE DEF row
<1>5. trades' = [x \in DOMAIN trades \cup {t} |-> IF x = t THEN row ELSE trades[x]]
  BY <1>3 DEF Inserted
<1>6. TradesOK'
  BY <1>1, <1>2, <1>3, <1>4, <1>5 DEF TablesOK, TradesOK, TakersKnown
<1>7. DOMAIN trades' = DOMAIN trades \cup {t} /\ UNCHANGED <<shifts, gone, leaves, overrides>>
  BY <1>5 DEF PostTrade
<1>8. GoneOK' /\ ShiftsOK' /\ LeavesOK' /\ overrides' \subseteq Override
  BY <1>1, <1>3, <1>7 DEF TablesOK, GoneOK, ShiftsOK, LeavesOK
<1>9. Carried
  <2>1. \A x \in DOMAIN trades : x \in DOMAIN trades' /\ trades'[x] = trades[x]
    BY <1>3, <1>5
  <2> QED
    BY <1>7, <2>1 DEF Carried
<1> QED
  BY <1>6, <1>8, <1>9, DoneKeeps DEF TablesOK, PostTrade

\* POST /shift-trade/:id/accept reads the trade.
LEMMA TakeKeeps ==
    ASSUME SchedulingInv, NEW s \in Session, NEW u \in User, NEW t \in DOMAIN trades,
           TakeTrade(s, u, t)
    PROVE  SchedulingInv'
<1> DEFINE j == [op |-> "accept", trade |-> t, user |-> u]
<1>1. t \in TradeId
  BY InvParts DEF TablesOK, TradesOK
<1>2. j \in Job
  BY <1>1 DEF Job
<1>3. JobStands(j, trades, leaves, gone)
  BY DEF JobStands, DecisionStands, PlaceholdersStand, OnlyWork
<1> QED
  BY <1>2, <1>3, DecidedKeeps DEF TakeTrade

\* What an acceptance writes: the trade was open, and is the only one changed.
LEMMA AcceptWrites ==
    ASSUME SchedulingInv, NEW s \in Session, AcceptTrade(s)
    PROVE  /\ trades[job[s].trade].status = "open"
           /\ job[s].trade \in DOMAIN trades
           /\ DOMAIN trades' = DOMAIN trades
           /\ trades' \in [DOMAIN trades -> TradeRow]
           /\ trades'[job[s].trade].shift = trades[job[s].trade].shift
           /\ trades'[job[s].trade].to \in User
           /\ \A t \in DOMAIN trades \ {job[s].trade} : trades'[t] = trades[t]
<1> DEFINE k == job[s].trade
           u == job[s].user
<1>1. TradesOK /\ u \in User
  BY JobFields, InvParts DEF AcceptTrade, TablesOK
<1>2. k \in DOMAIN trades /\ trades[k].status = "open"
  BY DEF AcceptTrade
<1>3. trades' = [trades EXCEPT ![k] = [trades[k] EXCEPT !.to = u, !.status = "accepted"]]
  BY DEF AcceptTrade
<1> HIDE DEF k, u
<1>4. PICK q : q = [trades[k] EXCEPT !.to = u, !.status = "accepted"]
  OBVIOUS
<1>5. trades[k] \in TradeRow
  BY <1>1, <1>2 DEF TradesOK
<1>6. q \in TradeRow /\ q.to = u /\ q.status = "accepted" /\ q.shift = trades[k].shift
  BY <1>1, <1>4, <1>5 DEF TradeRow
<1>7. trades' = [trades EXCEPT ![k] = q]
  BY <1>3, <1>4
<1>8. DOMAIN trades' = DOMAIN trades /\ trades' \in [DOMAIN trades -> TradeRow]
  BY <1>1, <1>2, <1>6, <1>7 DEF TradesOK
<1>9. trades'[k] = q /\ \A t \in DOMAIN trades \ {k} : trades'[t] = trades[t]
  BY <1>1, <1>2, <1>7 DEF TradesOK
<1> QED
  BY <1>1, <1>2, <1>6, <1>8, <1>9 DEF k

\* POST /shift-trade/:id/accept answers an open trade.
LEMMA AcceptKeeps ==
    ASSUME SchedulingInv, NEW s \in Session, AcceptTrade(s)
    PROVE  SchedulingInv'
<1>1. TablesOK /\ UNCHANGED <<shifts, leaves, overrides, gone>>
  BY InvParts DEF AcceptTrade
<1>2. TradesOK'
  BY <1>1, AcceptWrites DEF TablesOK, TradesOK, TakersKnown
<1>3. GoneOK' /\ ShiftsOK' /\ LeavesOK' /\ overrides' \subseteq Override
  BY <1>1, AcceptWrites DEF TablesOK, GoneOK, ShiftsOK, LeavesOK
<1>4. Carried
  <2>1. ASSUME NEW t \in DOMAIN trades
        PROVE  /\ t \in DOMAIN trades' /\ trades'[t].shift = trades[t].shift
               /\ trades[t].status # "open" => trades'[t] = trades[t]
    BY AcceptWrites
  <2> QED
    BY <1>1, <2>1 DEF Carried
<1> QED
  BY <1>2, <1>3, <1>4, DoneKeeps DEF TablesOK, AcceptTrade

\* The decision route reads an accepted trade.
LEMMA JudgeTradeKeeps ==
    ASSUME SchedulingInv, NEW s \in Session, NEW t \in DOMAIN trades,
           NEW status \in {"approved", "rejected"}, JudgeTrade(s, t, status)
    PROVE  SchedulingInv'
<1> DEFINE j == [op |-> "decide", trade |-> t, shift |-> trades[t].shift,
                 to |-> trades[t].to, status |-> status]
<1>1. t \in TradeId /\ trades[t] \in TradeRow /\ trades[t].to \in User
  BY InvParts DEF TablesOK, TradesOK, TakersKnown, JudgeTrade
<1>2. j \in Job
  BY <1>1 DEF Job, TradeRow
<1>3. trades[t].status = "accepted"
  BY DEF JudgeTrade
<1>4. JobStands(j, trades, leaves, gone)
  BY <1>3 DEF JobStands, DecisionStands, PlaceholdersStand, OnlyWork
<1> QED
  BY <1>2, <1>4, DecidedKeeps DEF JudgeTrade

\* What a decision writes: the status of one trade and the worker of one shift.
LEMMA DecideWrites ==
    ASSUME SchedulingInv, NEW s \in Session, DecideTrade(s)
    PROVE  /\ DOMAIN trades' = DOMAIN trades /\ trades' \in [DOMAIN trades -> TradeRow]
           /\ \A t \in DOMAIN trades :
                 /\ trades'[t].shift = trades[t].shift
                 /\ trades'[t].to = trades[t].to
                 /\ trades'[t].status = IF t = job[s].trade THEN job[s].status
                                        ELSE trades[t].status
           /\ DOMAIN shifts' = DOMAIN shifts /\ shifts' \in [DOMAIN shifts -> ShiftRow]
           /\ \A x \in DOMAIN shifts :
                 shifts'[x].user = IF x = job[s].shift /\ job[s].status = "approved"
                                   THEN job[s].to ELSE shifts[x].user
           /\ job[s].status \in {"approved", "rejected"}
<1> DEFINE k == job[s].trade
           i == job[s].shift
           u == job[s].to
           c == job[s].status
<1>1. TradesOK /\ ShiftsOK /\ u \in User /\ c \in {"approved", "rejected"}
  BY JobFields, InvParts DEF DecideTrade, TablesOK
<1>2. /\ trades' = [t \in DOMAIN trades |-> IF t = k THEN [trades[t] EXCEPT !.status = c]
                                            ELSE trades[t]]
      /\ shifts' = [x \in DOMAIN shifts |-> IF x = i /\ c = "approved"
                                            THEN [shifts[x] EXCEPT !.user = u]
                                            ELSE shifts[x]]
  BY DEF DecideTrade
<1> HIDE DEF k, i, u, c
<1>3. ASSUME NEW t \in DOMAIN trades
      PROVE  /\ trades'[t] \in TradeRow
             /\ trades'[t].shift = trades[t].shift /\ trades'[t].to = trades[t].to
             /\ trades'[t].status = IF t = k THEN c ELSE trades[t].status
  <2>1. trades[t] \in TradeRow
    BY <1>1 DEF TradesOK
  <2>2. trades'[t] = IF t = k THEN [trades[t] EXCEPT !.status = c] ELSE trades[t]
    BY <1>2
  <2> QED
    BY <1>1, <2>1, <2>2 DEF TradeRow
<1>4. ASSUME NEW x \in DOMAIN shifts
      PROVE  /\ shifts'[x] \in ShiftRow
             /\ shifts'[x].user = IF x = i /\ c = "approved" THEN u ELSE shifts[x].user
  <2>1. shifts[x] \in ShiftRow
    BY <1>1 DEF ShiftsOK
  <2>2. shifts'[x] = IF x = i /\ c = "approved" THEN [shifts[x] EXCEPT !.user = u]
                     ELSE shifts[x]
    BY <1>2
  <2> QED
    BY <1>1, <2>1, <2>2 DEF ShiftRow
<1>5. DOMAIN trades' = DOMAIN trades /\ DOMAIN shifts' = DOMAIN shifts
  BY <1>2
<1>6. trades' \in [DOMAIN trades -> TradeRow]
  BY <1>2, <1>3
<1>7. shifts' \in [DOMAIN shifts -> ShiftRow]
  BY <1>2, <1>4
<1> QED
  BY <1>1, <1>3, <1>4, <1>5, <1>6, <1>7 DEF k, i, u, c

\* The decision route writes it, whatever has become of the trade.
LEMMA DecideKeeps ==
    ASSUME SchedulingInv, NEW s \in Session, DecideTrade(s)
    PROVE  SchedulingInv'
<1>1. TablesOK /\ UNCHANGED <<leaves, overrides, gone>>
  BY InvParts DEF DecideTrade
<1>2. TradesOK' /\ ShiftsOK'
  BY <1>1, DecideWrites DEF TablesOK, TradesOK, ShiftsOK, TakersKnown
<1>3. GoneOK' /\ LeavesOK' /\ overrides' \subseteq Override
  BY <1>1, DecideWrites DEF TablesOK, GoneOK, LeavesOK
<1>4. Carried
  BY <1>1, DecideWrites DEF Carried
<1> QED
  BY <1>2, <1>3, <1>4, DoneKeeps DEF TablesOK, DecideTrade

-----------------------------------------------------------------------------
(***************************************************************************)
(* Time off.                                                               *)
(***************************************************************************)
\* POST /time-off adds a request under an id of its own.
LEMMA RequestKeeps ==
    ASSUME SchedulingInv, NEW u \in User, NEW first \in Date, NEW last \in Date,
           RequestLeave(u, first, last)
    PROVE  SchedulingInv'
<1>1. TablesOK /\ JobsOK /\ UNCHANGED <<shifts, trades, overrides, gone, job>>
  BY InvParts DEF RequestLeave
<1> DEFINE row == [user |-> u, first |-> first, last |-> last, status |-> "pending"]
<1>2. row \in LeaveRow
  BY DEF LeaveRow
<1>3. PICK l \in LeaveId \ DOMAIN leaves : leaves' = Inserted(leaves, [r \in {l} |-> row])
  BY DEF RequestLeave
<1> HIDE DEF row
<1>4. leaves' = [x \in DOMAIN leaves \cup {l} |-> IF x = l THEN row ELSE leaves[x]]
  BY <1>3 DEF Inserted
<1>5. LeavesOK'
  BY <1>1, <1>2, <1>3, <1>4 DEF TablesOK, LeavesOK
<1>6. TablesOK'
  BY <1>1, <1>5 DEF TablesOK, ShiftsOK, TradesOK, GoneOK, TakersKnown
<1>7. \A x \in DOMAIN leaves : x \in DOMAIN leaves' /\ leaves'[x] = leaves[x]
  BY <1>3, <1>4
<1>8. Carried
  BY <1>1, <1>7 DEF Carried
<1>9. JobsOK'
  <2>1. job' \in [Session -> Job] /\ \A s \in Session : job'[s] = job[s]
    BY <1>1 DEF JobsOK
  <2> QED
    BY <1>1, <1>8, <2>1, JobsCarried
<1> QED
  BY <1>6, <1>9, InvParts

\* The decision route reads a pending request and the worker's free dates.
LEMMA JudgeLeaveKeeps ==
    ASSUME SchedulingInv, NEW s \in Session, NEW l \in DOMAIN leaves,
           NEW status \in {"approved", "rejected"}, JudgeLeave(s, l, status)
    PROVE  SchedulingInv'
<1> DEFINE rows == IF status = "approved" THEN Placeholders(l) ELSE {}
<1>1. l \in LeaveId /\ leaves[l] \in LeaveRow
  BY InvParts DEF TablesOK, LeavesOK
<1>2. ASSUME NEW r \in rows
      PROVE  /\ r \in ShiftRow /\ status = "approved" /\ r.user = leaves[l].user
             /\ r.date \in leaves[l].first .. leaves[l].last
  <2>1. status = "approved" /\ r \in Placeholders(l)
    OBVIOUS
  <2>2. PICK d \in FreeDates(l) :
          r = [user |-> leaves[l].user, date |-> d, start |-> 0, end |-> DayLength - 1,
               type |-> "time_off"]
    BY <2>1 DEF Placeholders
  <2>3. d \in leaves[l].first .. leaves[l].last
    BY DEF FreeDates
  <2>4. leaves[l].user \in User /\ leaves[l].first \in Date /\ leaves[l].last \in Date
    BY <1>1 DEF LeaveRow
  <2>5. d \in Date
    BY <2>3, <2>4, SchedulingAssumption DEF Date
  <2>6. 0 \in TimeOfDay /\ DayLength - 1 \in TimeOfDay
    BY SchedulingAssumption DEF TimeOfDay
  <2> QED
    BY <2>1, <2>2, <2>3, <2>4, <2>5, <2>6 DEF ShiftRow
<1> HIDE DEF rows
<1> DEFINE j == [op |-> "settle", leave |-> l, status |-> status, rows |-> rows]
<1>3. j \in Job
  BY <1>1, <1>2 DEF Job
<1>4. JobStands(j, trades, leaves, gone)
  BY <1>2 DEF JobStands, DecisionStands, PlaceholdersStand, OnlyWork
<1>5. Decided(s, j)
  BY DEF JudgeLeave, rows
<1> QED
  BY <1>3, <1>4, <1>5, DecidedKeeps

\* What the decision writes: the request's status, and placeholders for it.
LEMMA SettleWrites ==
    ASSUME SchedulingInv, NEW s \in Session, SettleLeave(s)
    PROVE  /\ LeavesOK'
           /\ DOMAIN leaves' = DOMAIN leaves /\ job[s].leave \in DOMAIN leaves
           /\ \A l \in DOMAIN leaves : /\ leaves'[l].user = leaves[l].user
                                       /\ leaves'[l].first = leaves[l].first
                                       /\ leaves'[l].last = leaves[l].last
           /\ leaves'[job[s].leave].status = job[s].status
<1> DEFINE k == job[s].leave
           c == job[s].status
<1>1. LeavesOK /\ k \in DOMAIN leaves /\ c \in {"approved", "rejected"}
  BY JobFields, InvParts DEF SettleLeave, TablesOK
<1>2. leaves' = [leaves EXCEPT ![k] = [leaves[k] EXCEPT !.status = c]]
  BY DEF SettleLeave
<1> HIDE DEF k, c
<1>3. leaves[k] \in LeaveRow
  BY <1>1 DEF LeavesOK
<1>4. PICK q : q = [leaves[k] EXCEPT !.status = c]
  OBVIOUS
<1>5. /\ q \in LeaveRow /\ q.status = c
      /\ q.user = leaves[k].user /\ q.first = leaves[k].first /\ q.last = leaves[k].last
  BY <1>1, <1>3, <1>4 DEF LeaveRow
<1>6. leaves' = [leaves EXCEPT ![k] = q]
  BY <1>2, <1>4
<1>7. /\ DOMAIN leaves' = DOMAIN leaves /\ leaves' \in [DOMAIN leaves -> LeaveRow]
      /\ leaves'[k] = q /\ \A l \in DOMAIN leaves \ {k} : leaves'[l] = leaves[l]
  BY <1>1, <1>5, <1>6 DEF LeavesOK
<1> QED
  BY <1>1, <1>5, <1>7 DEF LeavesOK, k, c

\* The decision route writes it.
LEMMA SettleKeeps ==
    ASSUME SchedulingInv, NEW s \in Session, SettleLeave(s)
    PROVE  SchedulingInv'
<1>1. TablesOK /\ UNCHANGED <<trades, overrides, gone>> /\ job[s].rows \in SUBSET ShiftRow
  BY InvParts, JobFields DEF SettleLeave
<1>2. PICK new \in WithIds(job[s].rows) : shifts' = Inserted(shifts, new)
  BY DEF SettleLeave
<1>3. /\ ShiftsOK'
      /\ DOMAIN shifts' \subseteq DOMAIN shifts \cup (ShiftId \ gone)
  BY <1>1, <1>2, ShiftsInserted DEF TablesOK
<1>4. TradesOK' /\ GoneOK' /\ overrides' \subseteq Override
  BY <1>1, <1>3 DEF TablesOK, TradesOK, TakersKnown, GoneOK
<1>5. Carried
  BY <1>1, SettleWrites DEF Carried
<1> QED
  BY <1>3, <1>4, <1>5, SettleWrites, DoneKeeps DEF TablesOK, SettleLeave

-----------------------------------------------------------------------------
(***************************************************************************)
(* The invariant holds.                                                    *)
(***************************************************************************)
\* A transaction that is rolled back leaves nothing.
LEMMA RollbackKeeps ==
    ASSUME SchedulingInv, NEW s \in Session, Rollback(s)
    PROVE  SchedulingInv'
<1>1. TablesOK /\ UNCHANGED tables
  BY InvParts DEF Rollback
<1>2. TablesOK'
  BY <1>1 DEF TablesOK, ShiftsOK, TradesOK, LeavesOK, GoneOK, TakersKnown, tables
<1>3. Carried
  BY <1>1 DEF Carried, tables
<1> QED
  BY <1>2, <1>3, DoneKeeps DEF Rollback

\* The database starts empty and no handler runs.
LEMMA InvInit == Init => SchedulingInv
<1> SUFFICES ASSUME Init
             PROVE  SchedulingInv
  OBVIOUS
<1>1. TablesOK
  BY DEF Init, TablesOK, ShiftsOK, TradesOK, LeavesOK, GoneOK, TakersKnown
<1>2. JobsOK
  BY DEF Init, JobsOK, NoJob, Job, JobStands, DecisionStands, PlaceholdersStand, OnlyWork
<1> QED
  BY <1>1, <1>2, InvParts

\* Every step of every handler keeps the invariant.
LEMMA InvStep == SchedulingInv /\ [Next]_schedVars => SchedulingInv'
<1> SUFFICES ASSUME SchedulingInv, [Next]_schedVars
             PROVE  SchedulingInv'
  OBVIOUS
<1>1. CASE UNCHANGED schedVars
  BY <1>1, InvParts
     DEF schedVars, tables, TablesOK, ShiftsOK, TradesOK, LeavesOK, GoneOK, TakersKnown, JobsOK
<1>2. ASSUME NEW u \in User, NEW first \in Date, NEW last \in Date, RequestLeave(u, first, last)
      PROVE  SchedulingInv'
  BY <1>2, RequestKeeps
<1>3. ASSUME NEW s \in Session, Schedule(s)
      PROVE  SchedulingInv'
  BY <1>3, ProposeKeeps, InsertShiftKeeps, ReadShiftKeeps, DeleteShiftKeeps, ReadWeekKeeps,
     CopyWeekKeeps DEF Schedule
<1>4. ASSUME NEW s \in Session, Trade(s)
      PROVE  SchedulingInv'
  BY <1>4, OfferKeeps, PostKeeps, TakeKeeps, AcceptKeeps, JudgeTradeKeeps, DecideKeeps DEF Trade
<1>5. ASSUME NEW s \in Session, Leave(s)
      PROVE  SchedulingInv'
  BY <1>5, JudgeLeaveKeeps, SettleKeeps DEF Leave
<1> QED
  BY <1>1, <1>2, <1>3, <1>4, <1>5, RollbackKeeps DEF Next

\* In every behaviour a decision is written over the rows it was made from, or
\* over nothing.
LEMMA InvAlways == Spec => []SchedulingInv
BY InvInit, InvStep, PTL DEF Spec

\* Rows, requests and decisions keep their types for any number of workers and
\* overlapping handlers, and no id of a deleted row is used again.
THEOREM SchedulingTypeCorrect == Spec => []SchedulingTypeOK
<1>1. SchedulingInv => SchedulingTypeOK
  BY DEF SchedulingInv
<1> QED
  BY <1>1, InvAlways, PTL

-----------------------------------------------------------------------------
(***************************************************************************)
(* What a step may do to a trade, to the worker of a shift, and to time    *)
(* off.                                                                    *)
(***************************************************************************)
\* Handlers that touch trades only by removing or adding rows.
LEMMA OtherTradesStay ==
    ASSUME SchedulingInv, NEW s \in Session,
           NEW t \in DOMAIN trades, t \in DOMAIN trades',
           DeleteShift(s) \/ PostTrade(s)
    PROVE  trades'[t] = trades[t]
BY DEF DeleteShift, PostTrade, Without, Inserted

\* The steps that change the table of trades.
LEMMA TradeSteps ==
    ASSUME Next, trades' # trades
    PROVE  \E s \in Session : DeleteShift(s) \/ PostTrade(s) \/ AcceptTrade(s) \/ DecideTrade(s)
BY DEF Next, Schedule, Trade, Leave, RequestLeave, ProposeShift, InsertShift, ReadShift,
       ReadWeek, CopyWeek, OfferShift, TakeTrade, JudgeTrade, JudgeLeave, SettleLeave,
       Rollback, Decided, tables

\* Of any number of workers who take a trade one is its acceptor and stays it,
\* and no late acceptance undoes a decision.
THEOREM TradesAreAcceptedOnce == Spec => AcceptedOnce
<1>1. SchedulingInv /\ [Next]_schedVars =>
        [\A t \in DOMAIN trades \cap DOMAIN trades' :
            trades[t].status # "open" =>
                /\ trades'[t].to = trades[t].to
                /\ trades'[t].status = "accepted" => trades[t].status = "accepted"]_schedVars
  <2> SUFFICES ASSUME SchedulingInv, Next,
                      NEW t \in DOMAIN trades \cap DOMAIN trades',
                      trades[t].status # "open"
               PROVE  /\ trades'[t].to = trades[t].to
                      /\ trades'[t].status = "accepted" => trades[t].status = "accepted"
    OBVIOUS
  <2>1. CASE trades' = trades
    BY <2>1
  <2>2. ASSUME NEW s \in Session, DeleteShift(s) \/ PostTrade(s)
        PROVE  trades'[t] = trades[t]
    BY <2>2, OtherTradesStay
  <2>3. ASSUME NEW s \in Session, AcceptTrade(s)
        PROVE  trades'[t] = trades[t]
    BY <2>3, AcceptWrites
  <2>4. ASSUME NEW s \in Session, DecideTrade(s)
        PROVE  /\ trades'[t].to = trades[t].to
               /\ trades'[t].status = "accepted" => trades[t].status = "accepted"
    BY <2>4, DecideWrites
  <2> QED
    BY <2>1, <2>2, <2>3, <2>4, TradeSteps
<1> QED
  BY <1>1, InvAlways, PTL DEF Spec, AcceptedOnce

\* The steps that change the table of shifts.
LEMMA ShiftSteps ==
    ASSUME Next, shifts' # shifts
    PROVE  \E s \in Session : InsertShift(s) \/ DeleteShift(s) \/ CopyWeek(s)
                              \/ DecideTrade(s) \/ SettleLeave(s)
BY DEF Next, Schedule, Trade, Leave, RequestLeave, ProposeShift, ReadShift, PostTrade,
       AcceptTrade, ReadWeek, OfferShift, TakeTrade, JudgeTrade, JudgeLeave,
       Rollback, Decided, tables

\* A shift changes hands only to the worker who accepted a trade of it, as that
\* trade is approved, whatever was posted, decided and deleted meanwhile.
THEOREM ShiftsMoveOnlyByTrade == Spec => ShiftsMoveByTrade
<1>1. SchedulingInv /\ [Next]_schedVars =>
        [\A x \in DOMAIN shifts \cap DOMAIN shifts' :
            shifts'[x].user # shifts[x].user =>
                \E t \in DOMAIN trades' : /\ trades'[t].shift = x
                                          /\ trades'[t].status = "approved"
                                          /\ trades'[t].to = shifts'[x].user]_schedVars
  <2> SUFFICES ASSUME SchedulingInv, Next,
                      NEW x \in DOMAIN shifts \cap DOMAIN shifts',
                      shifts'[x].user # shifts[x].user
               PROVE  \E t \in DOMAIN trades' : /\ trades'[t].shift = x
                                                /\ trades'[t].status = "approved"
                                                /\ trades'[t].to = shifts'[x].user
    OBVIOUS
  <2>1. TablesOK /\ JobsOK
    BY InvParts
  <2>2. ASSUME NEW s \in Session, InsertShift(s) \/ CopyWeek(s) \/ SettleLeave(s)
        PROVE  shifts'[x] = shifts[x]
    <3>1. PICK rows \in SUBSET ShiftRow : \E new \in WithIds(rows) :
                                              shifts' = Inserted(shifts, new)
      BY <2>2, JobFields DEF InsertShift, CopyWeek, SettleLeave
    <3> QED
      BY <2>1, <3>1, ShiftsInserted DEF TablesOK
  <2>3. ASSUME NEW s \in Session, DeleteShift(s)
        PROVE  shifts'[x] = shifts[x]
    BY <2>3 DEF DeleteShift, Without
  <2>4. ASSUME NEW s \in Session, DecideTrade(s)
        PROVE  \E t \in DOMAIN trades' : /\ trades'[t].shift = x
                                         /\ trades'[t].status = "approved"
                                         /\ trades'[t].to = shifts'[x].user
    <3>1. /\ x = job[s].shift /\ job[s].status = "approved"
          /\ shifts'[x].user = job[s].to
      BY <2>4, DecideWrites
    <3>2. DecisionStands(job[s], trades, gone) /\ job[s].op = "decide"
      BY <2>1, <2>4 DEF JobsOK, JobStands, DecideTrade
    <3>3. x \notin gone
      BY <2>1 DEF TablesOK, GoneOK
    <3>4. /\ job[s].trade \in DOMAIN trades
          /\ trades[job[s].trade].shift = x
          /\ trades[job[s].trade].to = job[s].to
      BY <3>1, <3>2, <3>3 DEF DecisionStands
    <3> QED
      BY <2>4, <3>1, <3>4, DecideWrites
  <2> QED
    BY <2>2, <2>3, <2>4, ShiftSteps
<1> QED
  BY <1>1, InvAlways, PTL DEF Spec, ShiftsMoveByTrade

\* A row of time off appears only for the worker, on the dates and at the
\* approval of a request, also when a week is copied meanwhile.
THEOREM TimeOffNeedsApproval == Spec => TimeOffIsApproved
<1> DEFINE Granted(x) ==
      \E l \in DOMAIN leaves' : /\ leaves'[l].status = "approved"
                                /\ leaves'[l].user = shifts'[x].user
                                /\ shifts'[x].date \in leaves'[l].first .. leaves'[l].last
<1>1. SchedulingInv /\ [Next]_schedVars =>
        [\A x \in DOMAIN shifts' \ DOMAIN shifts :
            shifts'[x].type = "time_off" => Granted(x)]_schedVars
  <2> SUFFICES ASSUME SchedulingInv, Next,
                      NEW x \in DOMAIN shifts' \ DOMAIN shifts,
                      shifts'[x].type = "time_off"
               PROVE  Granted(x)
    OBVIOUS
  <2>1. TablesOK /\ JobsOK
    BY InvParts
  <2>2. ASSUME NEW s \in Session, DeleteShift(s) \/ DecideTrade(s)
        PROVE  FALSE
    BY <2>2 DEF DeleteShift, DecideTrade, Without
  <2>3. ASSUME NEW s \in Session, InsertShift(s)
        PROVE  FALSE
    <3>1. job[s].row \in ShiftRow /\ job[s].row.type # "time_off"
      BY <2>3, JobFields DEF InsertShift
    <3>2. PICK new \in WithIds({job[s].row}) : shifts' = Inserted(shifts, new)
      BY <2>3 DEF InsertShift
    <3>3. shifts'[x] \in {job[s].row}
      BY <2>1, <3>1, <3>2, ShiftsInserted DEF TablesOK
    <3> QED
      BY <3>1, <3>3
  <2>4. ASSUME NEW s \in Session, CopyWeek(s)
        PROVE  FALSE
    <3>1. job[s].rows \in SUBSET ShiftRow /\ \A r \in job[s].rows : r.type # "time_off"
      BY <2>4, JobFields DEF CopyWeek
    <3>2. PICK new \in WithIds(job[s].rows) : shifts' = Inserted(shifts, new)
      BY <2>4 DEF CopyWeek
    <3>3. shifts'[x] \in job[s].rows
      BY <2>1, <3>1, <3>2, ShiftsInserted DEF TablesOK
    <3> QED
      BY <3>1, <3>3
  <2>5. ASSUME NEW s \in Session, SettleLeave(s)
        PROVE  Granted(x)
    <3>1. job[s].op = "settle" /\ job[s].rows \in SUBSET ShiftRow
      BY <2>5, JobFields DEF SettleLeave
    <3>2. PICK new \in WithIds(job[s].rows) : shifts' = Inserted(shifts, new)
      BY <2>5 DEF SettleLeave
    <3>3. shifts'[x] \in job[s].rows
      BY <2>1, <3>1, <3>2, ShiftsInserted DEF TablesOK
    <3>4. /\ job[s].status = "approved"
          /\ shifts'[x].user = leaves[job[s].leave].user
          /\ shifts'[x].date \in leaves[job[s].leave].first .. leaves[job[s].leave].last
      BY <2>1, <3>1, <3>3 DEF JobsOK, JobStands, PlaceholdersStand
    <3> QED
      BY <2>5, <3>4, SettleWrites
  <2>6. shifts' # shifts
    OBVIOUS
  <2> QED
    BY <2>2, <2>3, <2>4, <2>5, <2>6, ShiftSteps
<1> QED
  BY <1>1, InvAlways, PTL DEF Spec, TimeOffIsApproved

-----------------------------------------------------------------------------
(***************************************************************************)
(* What evaluateScheduleConflict lets through.                             *)
(***************************************************************************)
\* A row takes up as many units of time as the handler counts, at night too.
LEMMA SlotLength ==
    ASSUME NEW r \in ShiftRow
    PROVE  Cardinality(Occupied(r)) = Length(r.start, r.end)
<1> DEFINE from == r.date * DayLength + r.start
           n == Length(r.start, r.end)
<1>1. /\ r.start \in Int /\ r.end \in Int /\ r.start \in 0 .. DayLength - 1
      /\ r.end \in 0 .. DayLength - 1 /\ r.date \in Int /\ DayLength \in Int
  BY SchedulingAssumption DEF ShiftRow, TimeOfDay, Date
<1>2. n \in Int /\ n > 0
  BY <1>1 DEF Length
<1>3. from \in Int
  <2>1. r.date * DayLength \in Int
    BY <1>1
  <2> QED
    BY <1>1, <2>1
<1>4. Occupied(r) = from .. from + n - 1
  BY DEF Occupied
<1> HIDE DEF from, n
<1>5. from + n - 1 \in Int
  BY <1>2, <1>3
<1>6. Cardinality(from .. from + n - 1) = n
  BY <1>2, <1>3, <1>5, FS_Interval
<1> QED
  BY <1>4, <1>6 DEF n

\* So the minutes that the query adds up are the time taken up: the sums run
\* over the same rows and agree on each.
LEMMA SumIsOccupied ==
    ASSUME ShiftsOK, NEW S \in SUBSET DOMAIN shifts
    PROVE  MapThenSumSet(LAMBDA x : Cardinality(Occupied(shifts[x])), S)
             = MapThenSumSet(LAMBDA x : Length(shifts[x].start, shifts[x].end), S)
<1> DEFINE C(s) == CHOOSE x \in s : TRUE
           P(g) == g = [s \in SUBSET S |-> IF s = {} THEN 0
                         ELSE Cardinality(Occupied(shifts[C(s)])) + g[s \ {C(s)}]]
           Q(g) == g = [s \in SUBSET S |-> IF s = {} THEN 0
                         ELSE Length(shifts[C(s)].start, shifts[C(s)].end) + g[s \ {C(s)}]]
<1>1. MapThenSumSet(LAMBDA x : Cardinality(Occupied(shifts[x])), S) = (CHOOSE g : P(g))[S]
  BY Zenon DEF MapThenSumSet, MapThenFoldSet
<1>2. MapThenSumSet(LAMBDA x : Length(shifts[x].start, shifts[x].end), S) = (CHOOSE g : Q(g))[S]
  BY Zenon DEF MapThenSumSet, MapThenFoldSet
<1>3. \A g : P(g) <=> Q(g)
  <2>1. ASSUME NEW s \in SUBSET S, s # {}
        PROVE  Cardinality(Occupied(shifts[C(s)])) = Length(shifts[C(s)].start, shifts[C(s)].end)
    BY <2>1, SlotLength DEF ShiftsOK
  <2> HIDE DEF C
  <2> QED
    BY <2>1
<1> HIDE DEF P, Q
<1>4. (CHOOSE g : P(g)) = (CHOOSE g : Q(g))
  BY <1>3, Zenon
<1> QED
  BY <1>1, <1>2, <1>4

\* Two rows of one date that the query finds apart share no unit of time.
LEMMA ApartShareNothing ==
    ASSUME NEW r \in ShiftRow, NEW q \in ShiftRow, r.date = q.date,
           ~( /\ r.start < q.start + Length(q.start, q.end)
              /\ q.start < r.start + Length(r.start, r.end) )
    PROVE  Occupied(q) \cap Occupied(r) = {}
<1> DEFINE k == r.date * DayLength
           m == Length(r.start, r.end)
           n == Length(q.start, q.end)
<1>1. /\ r.start \in Int /\ r.end \in Int /\ q.start \in Int /\ q.end \in Int
      /\ r.date \in Int /\ DayLength \in Int
  BY SchedulingAssumption DEF ShiftRow, TimeOfDay, Date
<1>2. k \in Int /\ m \in Int /\ n \in Int
  BY <1>1 DEF Length
<1>3. /\ Occupied(r) = k + r.start .. k + r.start + m - 1
      /\ Occupied(q) = k + q.start .. k + q.start + n - 1
  BY DEF Occupied
<1>4. r.start >= q.start + n \/ q.start >= r.start + m
  BY <1>1, <1>2
<1> HIDE DEF k, m, n
<1>5. ASSUME NEW x \in Occupied(q), x \in Occupied(r) PROVE FALSE
  <2>1. /\ x \in Int
        /\ k + r.start <= x /\ x <= k + r.start + m - 1
        /\ k + q.start <= x /\ x <= k + q.start + n - 1
    BY <1>1, <1>2, <1>3, <1>5
  <2> QED
    BY <1>1, <1>2, <1>4, <2>1
<1> QED
  BY <1>5

\* For any slots, night shifts included, and any cap: a shift that is scheduled
\* without force meets no other shift of that worker and date, and the worker's
\* week stays within the cap.
THEOREM UnforcedShiftsFit == Spec => UnforcedShiftFits
<1>1. SchedulingInv =>
        \A s \in Session, row \in Proposal :
          ProposeShift(s, row, FALSE) =>
              LET sameDate == {x \in Work(row.user) : shifts[x].date = row.date}
                  sameWeek == {x \in Work(row.user) : Week(shifts[x].date) = Week(row.date)}
              IN /\ \A x \in sameDate : Occupied(shifts[x]) \cap Occupied(row) = {}
                 /\ MapThenSumSet(LAMBDA x : Cardinality(Occupied(shifts[x])), sameWeek)
                      + Cardinality(Occupied(row))
                      <= MaxWeekly
  <2> SUFFICES ASSUME SchedulingInv, NEW s \in Session, NEW row \in Proposal,
                      ProposeShift(s, row, FALSE)
               PROVE  LET sameDate == {x \in Work(row.user) : shifts[x].date = row.date}
                          sameWeek == {x \in Work(row.user) :
                                          Week(shifts[x].date) = Week(row.date)}
                      IN /\ \A x \in sameDate : Occupied(shifts[x]) \cap Occupied(row) = {}
                         /\ MapThenSumSet(LAMBDA x : Cardinality(Occupied(shifts[x])),
                                          sameWeek)
                              + Cardinality(Occupied(row))
                              <= MaxWeekly
    OBVIOUS
  <2> DEFINE sameWeek == {x \in Work(row.user) : Week(shifts[x].date) = Week(row.date)}
             worked == MapThenSumSet(LAMBDA x : Cardinality(Occupied(shifts[x])), sameWeek)
  <2>1. ShiftsOK /\ row \in ShiftRow
    BY InvParts, SchedulingAssumption DEF TablesOK, Proposal, ShiftRow, TimeOfDay
  <2>2. Fits(row)
    BY DEF ProposeShift
  <2>3. ASSUME NEW x \in Work(row.user), shifts[x].date = row.date
        PROVE  Occupied(shifts[x]) \cap Occupied(row) = {}
    <3>1. shifts[x] \in ShiftRow
      BY <2>1 DEF Work, ShiftsOK
    <3>2. ~( /\ row.start < shifts[x].start + Length(shifts[x].start, shifts[x].end)
             /\ shifts[x].start < row.start + Length(row.start, row.end) )
      BY <2>2, <2>3 DEF Fits, Overlaps
    <3> QED
      BY <2>1, <2>3, <3>1, <3>2, ApartShareNothing
  <2>4. sameWeek \in SUBSET DOMAIN shifts
    BY DEF Work
  <2>5. worked = WeekMinutes(row.user, row.date)
    BY <2>1, <2>4, SumIsOccupied DEF WeekMinutes
  <2>6. Cardinality(Occupied(row)) = Length(row.start, row.end)
    BY <2>1, SlotLength
  <2>7. WeekMinutes(row.user, row.date) + Length(row.start, row.end) <= MaxWeekly
    BY <2>2 DEF Fits
  <2>8. worked + Cardinality(Occupied(row)) <= MaxWeekly
    BY <2>5, <2>6, <2>7
  <2> QED
    BY <2>3, <2>8
<1> QED
  BY <1>1, InvAlways, PTL DEF Spec, UnforcedShiftFits
=============================================================================
