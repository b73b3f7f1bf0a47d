----------------------- MODULE TimeCorrections_proofs -----------------------
(***************************************************************************)
(* What TLAPS proves of retroactive changes beside the live time clock,    *)
(* for every set of workers, managers, rows, requests and pay periods.     *)
(*                                                                         *)
(* The steps of the live clock are treated by the lemmas of                *)
(* TimeTracking_proofs; a retroactive change is reduced to TouchedEntry,   *)
(* which says what the three appliers have in common.                      *)
(***************************************************************************)
EXTENDS TimeCorrections, TimeTracking_proofs

-----------------------------------------------------------------------------
(* The inductive invariant.                                                *)

\* A request names an entry unless it is about a shift never clocked, and
\* then it has the times.
RequestShape ==
    \A r \in DOMAIN request :
        IF request[r].type = "add_entry"
        THEN request[r].wantIn \in Instant
        ELSE request[r].entry \in DOMAIN entry

TablesInv == OneOpenEntryPerUser /\ MinutesFollowTimes /\ CompletedHasEnd

CorrectionsInv == CorrectionsTypeOK /\ RequestShape /\ TablesInv

(* What every retroactive change does to the tables: it writes the row of  *)
(* one entry that is not removed, and the row is right.                    *)
TouchedEntry(e) ==
    /\ e \in EntryId
    /\ entry' = [x \in DOMAIN entry' |-> entry'[x]]
    /\ DOMAIN entry' = DOMAIN entry \cup {e}
    /\ \A x \in DOMAIN entry \ {e} : entry'[x] = entry[x]
    /\ entry'[e] \in EntryRow
    /\ e \in DOMAIN entry => /\ entry[e].status # "deleted"
                             /\ entry'[e].user = entry[e].user
    /\ (entry'[e].punchOut = None /\ entry'[e].status = "in_progress") =>
          \/ e \in DOMAIN entry /\ IsOpen(e)
          \/ OpenEntries(entry'[e].user) = {}
    /\ entry'[e].deducted \subseteq Deductible(breaks, e)
    /\ entry'[e].status = "completed" =>
          /\ entry'[e].punchOut # None
          /\ entry'[e].punchOut > entry'[e].punchIn
          /\ entry'[e].gross = entry'[e].punchOut - entry'[e].punchIn
    /\ events' \subseteq EventRow
    /\ UNCHANGED <<breaks, now>>

MaybeTime == Instant \cup {None}

(* The row of a retroactive edit.                                          *)
LEMMA RewrittenRowIs ==
    ASSUME NEW row \in EntryRow, NEW in \in Instant, NEW out \in MaybeTime,
           NEW unpaid \in SUBSET BreakId, Ordered(in, out)
    PROVE  LET new == RewrittenRow(row, in, out, unpaid) IN
           /\ new \in EntryRow
           /\ new.user = row.user /\ new.punchIn = in /\ new.punchOut = out
           /\ new.deducted = unpaid
           /\ new.status = IF out = None THEN "in_progress" ELSE "completed"
           /\ out # None => out > in /\ new.gross = out - in
<1> DEFINE status == IF out = None THEN "in_progress" ELSE "completed"
           gross == IF out = None THEN None ELSE Minutes(in, out)
           new == RewrittenRow(row, in, out, unpaid)
<1>1. None \notin Int /\ Instant \subseteq Int
  BY TimeTrackingAssumption DEF Instant
<1>2. gross \in Nat \cup {None} /\ (out # None => out > in /\ gross = out - in)
  <2>1. CASE out = None
    BY <2>1
  <2>2. CASE out # None
    <3>1. out \in Int /\ in \in Int /\ out > in
      BY <1>1, <2>2 DEF MaybeTime, Ordered
    <3>2. QED
      BY <2>2, <3>1 DEF Minutes
  <2>3. QED
    BY <2>1, <2>2
<1>3. status \in {"in_progress", "completed"}
  OBVIOUS
<1>4. new = [row EXCEPT !.punchIn = in, !.punchOut = out, !.status = status,
                        !.gross = gross, !.deducted = unpaid]
  BY DEF RewrittenRow
<1>5. status = IF out = None THEN "in_progress" ELSE "completed"
  OBVIOUS
<1> HIDE DEF new, status, gross
<1>6. /\ new \in EntryRow
      /\ new.user = row.user /\ new.punchIn = in /\ new.punchOut = out
      /\ new.deducted = unpaid /\ new.status = status /\ new.gross = gross
  BY <1>2, <1>3, <1>4 DEF EntryRow, MaybeTime
<1>7. QED
  BY <1>2, <1>5, <1>6 DEF new

(* The events of a retroactive change have no client id and no instant.    *)
LEMMA ChangeIsLogged ==
    ASSUME TypeOK, NEW u \in User, NEW e \in EntryId, NEW type \in {"entry_edited", "entry_deleted"},
           Publish({Event(type, u, e, None, None)})
    PROVE  events' \subseteq EventRow
<1>1. Event(type, u, e, None, None) \in EventRow
  BY DEF Event, EventRow
<1>2. QED
  BY <1>1, PublishAdds DEF TypeOK

(* applyEditTimes and the manager's PATCH.                                 *)
LEMMA RewriteTouches ==
    ASSUME CorrectionsInv, NEW e \in DOMAIN entry, NEW in \in MaybeTime, NEW out \in MaybeTime,
           RewriteEntry(e, in, out)
    PROVE  /\ TouchedEntry(e)
           /\ entry'[e].punchIn = Or(in, entry[e].punchIn)
           /\ entry'[e].punchOut = Or(out, entry[e].punchOut)
<1> DEFINE i == Or(in, entry[e].punchIn)
           o == Or(out, entry[e].punchOut)
           unpaid == Deductible(breaks, e)
<1>1. /\ TypeOK /\ entry[e] \in EntryRow /\ e \in EntryId /\ entry[e].user \in User
      /\ entry \in [DOMAIN entry -> EntryRow]
  BY DEF CorrectionsInv, CorrectionsTypeOK, TypeOK, EntryRow
<1>2. i \in Instant /\ o \in MaybeTime /\ Ordered(i, o) /\ unpaid \in SUBSET BreakId
  BY <1>1 DEF Or, MaybeTime, EntryRow, RewriteEntry, Deductible, TypeOK
<1>3. /\ entry' = [entry EXCEPT ![e] = RewrittenRow(entry[e], i, o, unpaid)]
      /\ UNCHANGED <<breaks, now>> /\ entry[e].status # "deleted"
  BY DEF RewriteEntry
<1>4. events' \subseteq EventRow
  BY <1>1, ChangeIsLogged DEF RewriteEntry
<1>5. entry[e].punchOut = None /\ entry[e].status # "deleted" => IsOpen(e)
  BY <1>1 DEF IsOpen, EntryRow, CorrectionsInv, TablesInv, CompletedHasEnd
<1>6. o = None => entry[e].punchOut = None
  BY DEF Or
<1>7. i = Or(in, entry[e].punchIn) /\ o = Or(out, entry[e].punchOut)
      /\ unpaid = Deductible(breaks, e)
  OBVIOUS
<1> DEFINE row == RewrittenRow(entry[e], i, o, unpaid)
<1> HIDE DEF i, o, unpaid
<1>8. /\ row \in EntryRow
      /\ row.user = entry[e].user /\ row.punchIn = i /\ row.punchOut = o
      /\ row.deducted = unpaid
      /\ row.status = IF o = None THEN "in_progress" ELSE "completed"
      /\ o # None => o > i /\ row.gross = o - i
  BY <1>1, <1>2, RewrittenRowIs
<1>9. /\ entry'[e] = row
      /\ DOMAIN entry' = DOMAIN entry
      /\ \A x \in DOMAIN entry \ {e} : entry'[x] = entry[x]
      /\ entry' = [x \in DOMAIN entry' |-> entry'[x]]
  BY <1>1, <1>3
<1> HIDE DEF row
<1>10. TouchedEntry(e)
  BY <1>1, <1>3, <1>4, <1>5, <1>6, <1>7, <1>8, <1>9 DEF TouchedEntry
<1>11. QED
  BY <1>7, <1>8, <1>9, <1>10

(* applyAddEntry and the manager's POST.                                   *)
LEMMA AddTouches ==
    ASSUME CorrectionsInv, NEW u \in User, NEW in \in Instant, NEW out \in MaybeTime,
           NEW e \in EntryId \ DOMAIN entry, AddEntry(u, in, out, e)
    PROVE  /\ TouchedEntry(e)
           /\ entry'[e].punchIn = in /\ entry'[e].punchOut = out
<1> DEFINE new == NewEntry(u, in)
           row == RewrittenRow(new, in, out, {})
<1>1. TypeOK /\ None \notin Int
  BY TimeTrackingAssumption DEF CorrectionsInv, CorrectionsTypeOK
<1>2. new \in EntryRow /\ new.user = u
  BY DEF NewEntry, EntryRow
<1>3. /\ entry' = [x \in DOMAIN entry \cup {e} |-> IF x = e THEN row ELSE entry[x]]
      /\ UNCHANGED <<breaks, now>> /\ Ordered(in, out)
      /\ out = None => OpenEntries(u) = {}
  BY DEF AddEntry
<1>4. events' \subseteq EventRow
  BY <1>1, ChangeIsLogged DEF AddEntry
<1> HIDE DEF new
<1>5. /\ row \in EntryRow
      /\ row.user = new.user /\ row.punchIn = in /\ row.punchOut = out
      /\ row.deducted = {}
      /\ row.status = IF out = None THEN "in_progress" ELSE "completed"
      /\ out # None => out > in /\ row.gross = out - in
  BY <1>2, <1>3, RewrittenRowIs
<1> HIDE DEF row
<1>6. /\ entry'[e] = row
      /\ DOMAIN entry' = DOMAIN entry \cup {e}
      /\ \A x \in DOMAIN entry \ {e} : entry'[x] = entry[x]
      /\ entry' = [x \in DOMAIN entry' |-> entry'[x]]
  BY <1>3
<1>7. TouchedEntry(e)
  BY <1>2, <1>3, <1>4, <1>5, <1>6 DEF TouchedEntry
<1>8. QED
  BY <1>5, <1>6, <1>7

(* applyDeleteEntry and the manager's DELETE.                              *)
LEMMA RemoveTouches ==
    ASSUME CorrectionsInv, NEW e \in DOMAIN entry, RemoveEntry(e)
    PROVE  /\ TouchedEntry(e)
           /\ entry'[e].punchIn = entry[e].punchIn /\ entry'[e].punchOut = entry[e].punchOut
<1> DEFINE row == [entry[e] EXCEPT !.status = "deleted"]
<1>1. /\ TypeOK /\ entry[e] \in EntryRow /\ e \in EntryId /\ entry[e].user \in User
      /\ entry \in [DOMAIN entry -> EntryRow]
  BY DEF CorrectionsInv, CorrectionsTypeOK, TypeOK, EntryRow
<1>2. /\ row \in EntryRow /\ row.status = "deleted" /\ row.user = entry[e].user
      /\ row.punchIn = entry[e].punchIn /\ row.punchOut = entry[e].punchOut
      /\ row.deducted = entry[e].deducted
  BY <1>1 DEF EntryRow
<1>3. /\ entry' = [entry EXCEPT ![e] = row]
      /\ UNCHANGED <<breaks, now>> /\ entry[e].status # "deleted"
  BY DEF RemoveEntry
<1>4. events' \subseteq EventRow
  BY <1>1, ChangeIsLogged DEF RemoveEntry
<1>5. entry[e].deducted \subseteq Deductible(breaks, e)
  BY DEF CorrectionsInv, TablesInv, MinutesFollowTimes
<1> HIDE DEF row
<1>6. /\ entry'[e] = row
      /\ DOMAIN entry' = DOMAIN entry
      /\ \A x \in DOMAIN entry \ {e} : entry'[x] = entry[x]
      /\ entry' = [x \in DOMAIN entry' |-> entry'[x]]
  BY <1>1, <1>3
<1>7. TouchedEntry(e)
  BY <1>1, <1>2, <1>3, <1>4, <1>5, <1>6 DEF TouchedEntry
<1>8. QED
  BY <1>2, <1>6, <1>7

(* What a retroactive change keeps true of the tables.                     *)
LEMMA TouchKeepsTables ==
    ASSUME TypeOK, TablesInv, NEW e, TouchedEntry(e)
    PROVE  TypeOK' /\ TablesInv'
<1>1. /\ DOMAIN entry' = DOMAIN entry \cup {e}
      /\ \A x \in DOMAIN entry \ {e} : entry'[x] = entry[x]
      /\ UNCHANGED <<breaks, now>>
  BY DEF TouchedEntry
<1>2. TypeOK'
  <2>1. DOMAIN entry' \subseteq EntryId
    BY <1>1 DEF TypeOK, TouchedEntry
  <2>2. \A x \in DOMAIN entry' : entry'[x] \in EntryRow
    BY <1>1 DEF TypeOK, TouchedEntry
  <2>3. entry' \in [DOMAIN entry' -> EntryRow]
    <3>1. entry' = [x \in DOMAIN entry' |-> entry'[x]]
      BY DEF TouchedEntry
    <3>2. QED
      BY <2>2, <3>1
  <2>4. QED
    BY <1>1, <2>1, <2>3 DEF TypeOK, TouchedEntry
<1>3. OneOpenEntryPerUser'
  <2>1. SUFFICES ASSUME NEW x \in DOMAIN entry', NEW y \in DOMAIN entry',
                        entry'[x].punchOut = None, entry'[x].status = "in_progress",
                        entry'[y].punchOut = None, entry'[y].status = "in_progress",
                        entry'[x].user = entry'[y].user
                 PROVE  x = y
    BY DEF OneOpenEntryPerUser, IsOpen
  <2>2. ASSUME NEW z \in DOMAIN entry \ {e}, entry[z].punchOut = None,
               entry[z].status = "in_progress", entry[z].user = entry'[e].user,
               entry'[e].punchOut = None, entry'[e].status = "in_progress"
        PROVE  FALSE
    <3>1. z \in OpenEntries(entry'[e].user)
      BY <2>2 DEF OpenEntries, IsOpen
    <3>2. e \in DOMAIN entry /\ IsOpen(e) /\ entry[e].user = entry'[e].user
      BY <2>2, <3>1 DEF TouchedEntry
    <3>3. QED
      BY <2>2, <3>2 DEF TablesInv, OneOpenEntryPerUser, IsOpen
  <2>3. CASE x # e /\ y # e
    BY <1>1, <2>1, <2>3 DEF TablesInv, OneOpenEntryPerUser, IsOpen
  <2>4. CASE x = e /\ y # e
    BY <1>1, <2>1, <2>2, <2>4
  <2>5. CASE x # e /\ y = e
    BY <1>1, <2>1, <2>2, <2>5
  <2>6. QED
    BY <2>3, <2>4, <2>5
<1>4. MinutesFollowTimes'
  <2>1. SUFFICES ASSUME NEW x \in DOMAIN entry'
                 PROVE  /\ entry'[x].deducted \subseteq Deductible(breaks', x)
                        /\ entry'[x].status = "completed" =>
                              /\ entry'[x].punchOut > entry'[x].punchIn
                              /\ entry'[x].gross = entry'[x].punchOut - entry'[x].punchIn
    BY DEF MinutesFollowTimes
  <2>2. CASE x = e
    BY <1>1, <2>2 DEF TouchedEntry
  <2>3. CASE x # e
    BY <1>1, <2>1, <2>3 DEF TablesInv, MinutesFollowTimes
  <2>4. QED
    BY <2>2, <2>3
<1>5. CompletedHasEnd'
  BY <1>1 DEF TablesInv, CompletedHasEnd, TouchedEntry
<1>6. QED
  BY <1>2, <1>3, <1>4, <1>5 DEF TablesInv

-----------------------------------------------------------------------------
(* The live clock keeps the tables right too.                              *)

(* A punch, a break and the sweep leave finished breaks as they are.       *)
LEMMA DeductibleGrows ==
    ASSUME TypeOK, [Next]_ttVars, NEW e
    PROVE  Deductible(breaks, e) \subseteq Deductible(breaks', e)
<1>1. SUFFICES ASSUME NEW b \in DOMAIN breaks, breaks[b].entry = e,
                      breaks[b].status = "completed", breaks[b].type \in UnpaidBreakTypes
               PROVE  /\ b \in DOMAIN breaks' /\ breaks'[b].entry = e
                      /\ breaks'[b].status = "completed" /\ breaks'[b].type \in UnpaidBreakTypes
  BY DEF Deductible
<1>2. CASE Tick \/ UNCHANGED ttVars
  BY <1>1, <1>2 DEF Tick, ttVars
<1>3. ASSUME NEW closing, breaks' = BreaksClosedAt(closing)
      PROVE  /\ b \in DOMAIN breaks' /\ breaks'[b].entry = e
             /\ breaks'[b].status = "completed" /\ breaks'[b].type \in UnpaidBreakTypes
  BY <1>1, <1>3, BreaksClosed
<1>4. CASE AutoClockOut
  BY <1>3, <1>4 DEF AutoClockOut
<1>5. CASE Request
  <2>1. PICK u \in User, c \in ClientId, t \in Stamp :
          \/ PunchIn(u, c, t)
          \/ PunchOut(u, c, t)
          \/ \E x \in DOMAIN entry, type \in BreakType : StartBreak(u, c, x, type, t)
          \/ \E x \in DOMAIN breaks : EndBreak(u, c, x, t)
    BY <1>5 DEF Request
  <2>2. CASE PunchIn(u, c, t)
    BY <1>1, <2>2 DEF PunchIn, InsertEntry
  <2>3. CASE PunchOut(u, c, t)
    BY <1>3, <2>3 DEF PunchOut
  <2>4. CASE \E x \in DOMAIN entry, type \in BreakType : StartBreak(u, c, x, type, t)
    <3>1. PICK x \in DOMAIN entry, type \in BreakType : StartBreak(u, c, x, type, t)
      BY <2>4
    <3>2. PICK n \in BreakId \ DOMAIN breaks :
            breaks' = [y \in DOMAIN breaks \cup {n} |->
                         IF y = n
                         THEN [entry |-> x, user |-> u, type |-> type, start |-> t,
                               end |-> None, status |-> "in_progress"]
                         ELSE breaks[y]]
      BY <3>1 DEF StartBreak
    <3>3. b \in DOMAIN breaks' /\ breaks'[b] = breaks[b]
      BY <3>2
    <3>4. QED
      BY <1>1, <3>3
  <2>5. CASE \E x \in DOMAIN breaks : EndBreak(u, c, x, t)
    <3>1. PICK x \in DOMAIN breaks : EndBreak(u, c, x, t)
      BY <2>5
    <3>2. DOMAIN breaks' = DOMAIN breaks /\ (b # x => breaks'[b] = breaks[b])
      BY <3>1 DEF EndBreak, TypeOK
    <3>3. b # x
      BY <1>1, <3>1 DEF EndBreak
    <3>4. QED
      BY <1>1, <3>2, <3>3
  <2>6. QED
    BY <2>1, <2>2, <2>3, <2>4, <2>5
<1>6. QED
  BY <1>2, <1>4, <1>5 DEF Next

(* Of an entry that a punch or the sweep writes, the row is right: it is   *)
(* new and open, or closed after it began.                                 *)
WrittenRight(e) ==
    \/ entry'[e].status = "in_progress" /\ entry'[e].deducted = {}
    \/ /\ entry'[e].deducted = Deductible(breaks', e)
       /\ entry'[e].punchOut # None
       /\ entry'[e].punchOut > entry'[e].punchIn
       /\ entry'[e].gross = entry'[e].punchOut - entry'[e].punchIn

\* What closing a row at t writes: the end, and the minutes between.
LEMMA ClosedRowIs ==
    ASSUME NEW row \in EntryRow, NEW t \in Instant, NEW unpaid \in SUBSET BreakId,
           t > row.punchIn
    PROVE  LET new == ClosedRow(row, t, unpaid) IN
           /\ new \in EntryRow /\ new.punchIn = row.punchIn /\ new.punchOut = t
           /\ new.gross = t - row.punchIn /\ new.deducted = unpaid
<1> DEFINE new == ClosedRow(row, t, unpaid)
           gross == Minutes(row.punchIn, t)
<1>1. gross = t - row.punchIn
  BY TimeTrackingAssumption DEF Minutes, EntryRow, Instant
<1>2. new = [row EXCEPT !.punchOut = t, !.gross = gross, !.deducted = unpaid,
                        !.status = "completed"]
  BY DEF ClosedRow
<1> HIDE DEF gross
<1>3. /\ new.punchIn = row.punchIn /\ new.punchOut = t
      /\ new.gross = gross /\ new.deducted = unpaid
  BY <1>2 DEF EntryRow
<1>4. new \in EntryRow
  BY ClosedRowType
<1>5. QED
  BY <1>1, <1>3, <1>4

\* A row the worker's own punches, or the sweep, write has the minutes its
\* times and unpaid breaks give.
LEMMA LiveWritesRight ==
    ASSUME TypeOK, TypeOK', [Next]_ttVars, NEW e \in DOMAIN entry',
           e \notin DOMAIN entry \/ entry'[e] # entry[e]
    PROVE  WrittenRight(e)
<1>1. None \notin Int /\ Instant \subseteq Int /\ Stamp \subseteq Instant
  BY TimeTrackingAssumption DEF Instant
<1>2. Deductible(breaks', e) \in SUBSET BreakId
  BY DEF Deductible, TypeOK
<1>3. ASSUME NEW row \in EntryRow, NEW t \in Instant, t > row.punchIn,
             \/ entry'[e] = ClosedRow(row, t, Deductible(breaks', e))
             \/ entry'[e] = [ClosedRow(row, t, Deductible(breaks', e)) EXCEPT !.autoClosed = TRUE]
      PROVE  WrittenRight(e)
  <2> DEFINE new == ClosedRow(row, t, Deductible(breaks', e))
  <2>1. /\ new \in EntryRow /\ new.punchIn = row.punchIn /\ new.punchOut = t
        /\ new.gross = t - row.punchIn /\ new.deducted = Deductible(breaks', e)
    BY <1>2, <1>3, ClosedRowIs
  <2>2. entry'[e] = new \/ entry'[e] = [new EXCEPT !.autoClosed = TRUE]
    BY <1>3
  <2> HIDE DEF new
  <2>3. /\ entry'[e].punchIn = row.punchIn /\ entry'[e].punchOut = t
        /\ entry'[e].gross = t - row.punchIn /\ entry'[e].deducted = Deductible(breaks', e)
    BY <2>1, <2>2 DEF EntryRow
  <2>4. QED
    BY <1>1, <1>3, <2>3 DEF WrittenRight
<1>4. CASE Tick \/ UNCHANGED ttVars
  BY <1>4 DEF Tick, ttVars
<1>5. CASE AutoClockOut
  <2>1. PICK batch \in SweepBatches :
          entry' = [x \in DOMAIN entry |->
                IF x \in batch
                THEN [ClosedRow(entry[x], AutoClockOutAt(x), Deductible(breaks', x))
                        EXCEPT !.autoClosed = TRUE]
                ELSE entry[x]]
    BY <1>5 DEF AutoClockOut
  <2>2. e \in DOMAIN entry /\ e \in batch /\ e \in StaleEntries
    BY <2>1 DEF SweepBatches
  <2>3. entry[e] \in EntryRow /\ entry[e].punchIn \in Instant
    BY <2>2 DEF TypeOK, EntryRow
  <2>4. AutoClockOutAt(e) \in Instant /\ AutoClockOutAt(e) > entry[e].punchIn
    BY <2>2, <2>3, TimeTrackingAssumption DEF StaleEntries, AutoClockOutAt, TypeOK, Instant
  <2>5. QED
    BY <1>3, <2>1, <2>2, <2>3, <2>4
<1>6. CASE Request
  <2>1. PICK u \in User, c \in ClientId, t \in Stamp :
          \/ PunchIn(u, c, t)
          \/ PunchOut(u, c, t)
          \/ \E x \in DOMAIN entry, type \in BreakType : StartBreak(u, c, x, type, t)
          \/ \E x \in DOMAIN breaks : EndBreak(u, c, x, t)
    BY <1>6 DEF Request
  <2>2. CASE PunchIn(u, c, t)
    <3>1. PICK n \in EntryId \ DOMAIN entry :
            entry' = [x \in DOMAIN entry \cup {n} |->
                        IF x = n THEN NewEntry(u, t) ELSE entry[x]]
      BY <2>2 DEF PunchIn, InsertEntry
    <3>2. entry'[e] = NewEntry(u, t)
      BY <3>1
    <3>3. QED
      BY <3>2 DEF NewEntry, WrittenRight
  <2>3. CASE PunchOut(u, c, t)
    <3>1. PICK x \in DOMAIN entry :
            /\ t > entry[x].punchIn
            /\ entry' = [entry EXCEPT ![x] = ClosedRow(@, t, Deductible(breaks', x))]
      BY <2>3 DEF PunchOut
    <3>2. x = e /\ entry[e] \in EntryRow /\ t \in Instant
      BY <1>1, <3>1 DEF TypeOK
    <3>3. entry'[e] = ClosedRow(entry[e], t, Deductible(breaks', e))
      BY <3>1, <3>2
    <3>4. QED
      BY <1>3, <3>1, <3>2, <3>3
  <2>4. CASE \/ \E x \in DOMAIN entry, type \in BreakType : StartBreak(u, c, x, type, t)
             \/ \E x \in DOMAIN breaks : EndBreak(u, c, x, t)
    BY <2>4 DEF StartBreak, EndBreak
  <2>5. QED
    BY <2>1, <2>2, <2>3, <2>4
<1>7. QED
  BY <1>4, <1>5, <1>6 DEF Next

(* The live clock only ever inserts an entry that is open.                 *)
LEMMA LiveInsertsOpen ==
    ASSUME TypeOK, [Next]_ttVars, NEW e \in DOMAIN entry', e \notin DOMAIN entry
    PROVE  entry'[e].status = "in_progress"
<1>1. PICK u \in User, c \in ClientId, t \in Stamp : PunchIn(u, c, t)
  <2>1. CASE Tick \/ UNCHANGED ttVars
    BY <2>1 DEF Tick, ttVars
  <2>2. CASE AutoClockOut
    BY <2>2, AutoClockOutStep
  <2>3. CASE Request
    <3>1. PICK u \in User, c \in ClientId, t \in Stamp :
            \/ PunchIn(u, c, t)
            \/ PunchOut(u, c, t)
            \/ \E x \in DOMAIN entry, type \in BreakType : StartBreak(u, c, x, type, t)
            \/ \E x \in DOMAIN breaks : EndBreak(u, c, x, t)
      BY <2>3 DEF Request
    <3>2. ~PunchOut(u, c, t)
      BY PunchOutStep
    <3>3. entry' # entry
      OBVIOUS
    <3>4. QED
      BY <3>1, <3>2, <3>3 DEF StartBreak, EndBreak
  <2>4. QED
    BY <2>1, <2>2, <2>3 DEF Next
<1>2. PICK n \in EntryId \ DOMAIN entry :
        entry' = [x \in DOMAIN entry \cup {n} |->
                    IF x = n THEN NewEntry(u, t) ELSE entry[x]]
  BY <1>1 DEF PunchIn, InsertEntry
<1>3. entry'[e] = NewEntry(u, t)
  BY <1>2
<1>4. QED
  BY <1>3 DEF NewEntry

\* The worker's own punches keep the tables, and drop no row of them.
LEMMA LiveKeepsTables ==
    ASSUME TypeOK, TablesInv, [Next]_ttVars
    PROVE  TypeOK' /\ TablesInv' /\ DOMAIN entry \subseteq DOMAIN entry'
<1>1. TypeOK'
  BY NextType
<1>2. OneOpenEntryPerUser'
  BY OneOpenStep DEF TablesInv
<1>3. DOMAIN entry \subseteq DOMAIN entry'
  BY NextStep
<1>4. \A e \in DOMAIN entry' : (e \in DOMAIN entry /\ entry'[e] = entry[e]) \/ WrittenRight(e)
  BY <1>1, LiveWritesRight
<1>5. MinutesFollowTimes'
  <2>1. SUFFICES ASSUME NEW x \in DOMAIN entry'
                 PROVE  /\ entry'[x].deducted \subseteq Deductible(breaks', x)
                        /\ entry'[x].status = "completed" =>
                              /\ entry'[x].punchOut > entry'[x].punchIn
                              /\ entry'[x].gross = entry'[x].punchOut - entry'[x].punchIn
    BY DEF MinutesFollowTimes
  <2>2. CASE x \in DOMAIN entry /\ entry'[x] = entry[x]
    <3>1. Deductible(breaks, x) \subseteq Deductible(breaks', x)
      BY DeductibleGrows
    <3>2. QED
      BY <2>2, <3>1 DEF TablesInv, MinutesFollowTimes
  <2>3. CASE WrittenRight(x)
    BY <2>3 DEF WrittenRight
  <2>4. QED
    BY <1>4, <2>2, <2>3
<1>6. CompletedHasEnd'
  BY <1>4 DEF TablesInv, CompletedHasEnd, WrittenRight
<1>7. QED
  BY <1>1, <1>2, <1>3, <1>5, <1>6 DEF TablesInv

-----------------------------------------------------------------------------
(* Requests.                                                               *)

RequestsOK(table) ==
    /\ DOMAIN table \subseteq RequestId
    /\ table \in [DOMAIN table -> RequestRow]
    /\ \A r \in DOMAIN table :
          IF table[r].type = "add_entry"
          THEN table[r].wantIn \in Instant
          ELSE table[r].entry \in DOMAIN entry

\* A request inserted with an entry that exists, or with the times of a new
\* one, keeps the requests well formed.
LEMMA InsertKeepsRequests ==
    ASSUME RequestsOK(request), NEW row \in RequestRow, InsertRequest(row),
           IF row.type = "add_entry" THEN row.wantIn \in Instant
                                     ELSE row.entry \in DOMAIN entry
    PROVE  RequestsOK(request')
<1>1. PICK n \in RequestId \ DOMAIN request :
        request' = [x \in DOMAIN request \cup {n} |-> IF x = n THEN row ELSE request[x]]
  BY DEF InsertRequest
<1>2. DOMAIN request' = DOMAIN request \cup {n}
  BY <1>1
<1>3. \A x \in DOMAIN request' : request'[x] = IF x = n THEN row ELSE request[x]
  BY <1>1
<1>4. request' \in [DOMAIN request' -> RequestRow]
  BY <1>1 DEF RequestsOK
<1>5. QED
  BY <1>2, <1>3, <1>4 DEF RequestsOK

\* Settling a request changes its status, and maybe the entry it applied to.
LEMMA SettleKeepsRequests ==
    ASSUME RequestsOK(request), NEW r \in DOMAIN request,
           NEW row \in RequestRow, request' = [request EXCEPT ![r] = row],
           row.type = request[r].type, row.wantIn = request[r].wantIn,
           row.entry = request[r].entry
    PROVE  RequestsOK(request')
<1>1. DOMAIN request' = DOMAIN request /\ request' \in [DOMAIN request' -> RequestRow]
  BY DEF RequestsOK
<1>2. \A x \in DOMAIN request : request'[x] = IF x = r THEN row ELSE request[x]
  BY DEF RequestsOK
<1>3. QED
  BY <1>1, <1>2 DEF RequestsOK

\* Filing or cancelling a request keeps the requests well formed and leaves
\* the hours alone.
LEMMA FileKeepsRequests ==
    ASSUME TypeOK, RequestsOK(request), FileOrCancel
    PROVE  RequestsOK(request') /\ UNCHANGED <<entry, breaks, events, now, locked>>
<1>1. Stamp \subseteq Instant
  BY TimeTrackingAssumption DEF Instant
<1>2. ASSUME NEW by \in User \cup Manager, NEW e \in DOMAIN entry,
             NEW type \in {"edit_times", "delete_entry"},
             NEW in \in MaybeStamp, NEW out \in MaybeStamp,
             RequestCorrection(by, e, type, in, out)
      PROVE  RequestsOK(request') /\ UNCHANGED <<entry, breaks, events, now, locked>>
  <2> DEFINE row == RequestAbout(by, e, type, in, out)
  <2>1. entry[e] \in EntryRow /\ e \in EntryId
    BY DEF TypeOK
  <2>2. row \in RequestRow /\ row.type = type /\ row.entry = e
    BY <1>1, <2>1 DEF RequestAbout, RequestRow, MaybeStamp, MaybeInstant, EntryRow
  <2>3. InsertRequest(row)
    BY <1>2 DEF RequestCorrection
  <2> HIDE DEF row
  <2>4. RequestsOK(request')
    BY <2>2, <2>3, InsertKeepsRequests
  <2>5. QED
    BY <2>3, <2>4 DEF InsertRequest
<1>3. ASSUME NEW u \in User, NEW in \in Stamp, NEW out \in Stamp,
             RequestMissingShift(u, in, out)
      PROVE  RequestsOK(request') /\ UNCHANGED <<entry, breaks, events, now, locked>>
  <2> DEFINE row == [user |-> u, by |-> u, entry |-> None, type |-> "add_entry",
                     origIn |-> None, origOut |-> None, wantIn |-> in, wantOut |-> out,
                     status |-> "pending", applied |-> None]
  <2>1. row \in RequestRow /\ row.type = "add_entry" /\ row.wantIn = in
    BY <1>1 DEF RequestRow, MaybeInstant
  <2>2. InsertRequest(row)
    BY <1>3 DEF RequestMissingShift
  <2> HIDE DEF row
  <2>3. RequestsOK(request')
    BY <1>1, <2>1, <2>2, InsertKeepsRequests
  <2>4. QED
    BY <2>2, <2>3 DEF InsertRequest
<1>4. ASSUME NEW r \in DOMAIN request, CancelRequest(r)
      PROVE  RequestsOK(request') /\ UNCHANGED <<entry, breaks, events, now, locked>>
  <2> DEFINE row == [request[r] EXCEPT !.status = "cancelled"]
  <2>1. request[r] \in RequestRow
    BY DEF RequestsOK
  <2>2. /\ row \in RequestRow /\ row.type = request[r].type
        /\ row.wantIn = request[r].wantIn /\ row.entry = request[r].entry
    BY <2>1 DEF RequestRow
  <2>3. request' = [request EXCEPT ![r] = row]
    BY <1>4 DEF CancelRequest
  <2> HIDE DEF row
  <2>4. RequestsOK(request')
    BY <2>2, <2>3, SettleKeepsRequests
  <2>5. QED
    BY <1>4, <2>4 DEF CancelRequest
<1>5. None \in MaybeStamp
  BY DEF MaybeStamp
<1>6. CASE \E by \in User \cup Manager, e \in DOMAIN entry, in, out \in MaybeStamp :
             /\ Ordered(in, out)
             /\ {in, out} # {None}
             /\ RequestCorrection(by, e, "edit_times", in, out)
  BY <1>2, <1>6
<1>7. CASE \E by \in User \cup Manager, e \in DOMAIN entry :
             RequestCorrection(by, e, "delete_entry", None, None)
  BY <1>2, <1>5, <1>7
<1>8. CASE \E u \in User, in, out \in Stamp : out > in /\ RequestMissingShift(u, in, out)
  BY <1>3, <1>8
<1>9. CASE \E r \in DOMAIN request : CancelRequest(r)
  BY <1>4, <1>9
<1>10. QED
  BY <1>6, <1>7, <1>8, <1>9 DEF FileOrCancel

-----------------------------------------------------------------------------
(* Locked periods.                                                         *)

SnapshotsAreCurrent ==
    \A r \in DOMAIN request : request[r].status = "pending" => SnapshotIsCurrent(r)

\* The entry e is outside the locked periods, as it was and as it becomes.
StaysUnlocked(e) ==
    /\ ~TouchesLocked(entry'[e])
    /\ e \in DOMAIN entry => ~TouchesLocked(entry[e])

\* COALESCE of two days that are not locked is not locked.
LEMMA OrIsUnlocked ==
    ASSUME NEW a, NEW b, ~IsLocked(a), ~IsLocked(b)
    PROVE  ~IsLocked(Or(a, b))
BY DEF Or

\* decideCorrectionRequest changes one entry, and, when the snapshot shows
\* its times, none in a locked period.
LEMMA ApproveTouches ==
    ASSUME CorrectionsInv, NEW m \in Manager, NEW r \in DOMAIN request,
           NEW overIn \in MaybeStamp, NEW overOut \in MaybeStamp,
           Approve(m, r, overIn, overOut)
    PROVE  \E a \in EntryId :
              /\ TouchedEntry(a)
              /\ SnapshotsAreCurrent => StaysUnlocked(a)
              /\ request' = [request EXCEPT ![r] =
                               [request[r] EXCEPT !.status = "approved", !.applied = a]]
              /\ UNCHANGED locked
<1> DEFINE in == Or(overIn, request[r].wantIn)
           out == Or(overOut, request[r].wantOut)
<1>1. /\ request[r] \in RequestRow /\ request[r].status = "pending"
      /\ request[r].user \in User
      /\ request[r].type # "add_entry" => request[r].entry \in DOMAIN entry
      /\ request[r].type = "add_entry" => request[r].wantIn \in Instant
  BY DEF CorrectionsInv, CorrectionsTypeOK, RequestShape, RequestRow, Approve, MayDecide
<1>2. Stamp \subseteq Instant /\ None \notin EntryId
  BY TimeTrackingAssumption, TimeCorrectionsAssumption DEF Instant
<1>3. /\ in \in MaybeTime /\ out \in MaybeTime
      /\ request[r].type = "add_entry" => in \in Instant
  BY <1>1, <1>2 DEF Or, MaybeTime, MaybeStamp, MaybeInstant, RequestRow
<1>4. /\ ~IsLocked(request[r].origIn) /\ ~IsLocked(request[r].origOut)
      /\ ~IsLocked(in) /\ ~IsLocked(out)
  BY DEF Approve, NotInLockedPeriod
<1>5. PICK a \in EntryId :
        /\ ApplyRequest(r, in, out, a)
        /\ request' = [request EXCEPT ![r] =
                         [request[r] EXCEPT !.status = "approved", !.applied = a]]
        /\ UNCHANGED locked
  BY DEF Approve
<1> HIDE DEF in, out
<1>6. ASSUME SnapshotsAreCurrent, request[r].type # "add_entry", a = request[r].entry
      PROVE  /\ ~IsLocked(entry[a].punchIn) /\ ~IsLocked(entry[a].punchOut)
             /\ a \in DOMAIN entry
  BY <1>1, <1>2, <1>4, <1>6 DEF SnapshotsAreCurrent, SnapshotIsCurrent
<1>7. CASE /\ request[r].type = "add_entry"
           /\ a \in EntryId \ DOMAIN entry
           /\ AddEntry(request[r].user, in, out, a)
  <2>1. /\ TouchedEntry(a)
        /\ entry'[a].punchIn = in /\ entry'[a].punchOut = out
    BY <1>1, <1>3, <1>7, AddTouches
  <2>2. StaysUnlocked(a)
    BY <1>4, <1>7, <2>1 DEF StaysUnlocked, TouchesLocked
  <2>3. QED
    BY <1>5, <2>1, <2>2
<1>8. CASE /\ request[r].type = "delete_entry"
           /\ a = request[r].entry
           /\ RemoveEntry(a)
  <2>1. /\ TouchedEntry(a)
        /\ entry'[a].punchIn = entry[a].punchIn /\ entry'[a].punchOut = entry[a].punchOut
    BY <1>1, <1>8, RemoveTouches
  <2>2. SnapshotsAreCurrent => StaysUnlocked(a)
    BY <1>6, <1>8, <2>1 DEF StaysUnlocked, TouchesLocked
  <2>3. QED
    BY <1>5, <2>1, <2>2
<1>9. CASE /\ request[r].type = "edit_times"
           /\ a = request[r].entry
           /\ RewriteEntry(a, in, out)
  <2>1. /\ TouchedEntry(a)
        /\ entry'[a].punchIn = Or(in, entry[a].punchIn)
        /\ entry'[a].punchOut = Or(out, entry[a].punchOut)
    BY <1>1, <1>3, <1>9, RewriteTouches
  <2>2. SnapshotsAreCurrent => StaysUnlocked(a)
    BY <1>4, <1>6, <1>9, <2>1, OrIsUnlocked DEF StaysUnlocked, TouchesLocked
  <2>3. QED
    BY <1>5, <2>1, <2>2
<1>10. QED
  BY <1>5, <1>7, <1>8, <1>9 DEF ApplyRequest

\* A manager's direct change, of one entry and of none in a locked period.
LEMMA DirectEditTouches ==
    ASSUME CorrectionsInv, DirectEdit
    PROVE  /\ \E e \in EntryId : TouchedEntry(e) /\ StaysUnlocked(e)
           /\ UNCHANGED <<request, locked>>
<1>1. Stamp \subseteq Instant /\ MaybeStamp \subseteq MaybeTime /\ DOMAIN entry \subseteq EntryId
  BY TimeTrackingAssumption
  DEF Instant, MaybeStamp, MaybeTime, CorrectionsInv, CorrectionsTypeOK, TypeOK
<1>2. ASSUME NEW u \in User, NEW in \in Stamp, NEW out \in MaybeStamp,
             ManagerCreate(u, in, out)
      PROVE  \E e \in EntryId : TouchedEntry(e) /\ StaysUnlocked(e)
  <2>1. ~IsLocked(in) /\ ~IsLocked(out)
    BY <1>2 DEF ManagerCreate, NotInLockedPeriod
  <2>2. PICK e \in EntryId \ DOMAIN entry : AddEntry(u, in, out, e)
    BY <1>2 DEF ManagerCreate
  <2>3. /\ TouchedEntry(e)
        /\ entry'[e].punchIn = in /\ entry'[e].punchOut = out
    BY <1>1, <2>2, AddTouches
  <2>4. StaysUnlocked(e)
    BY <2>1, <2>2, <2>3 DEF StaysUnlocked, TouchesLocked
  <2>5. QED
    BY <2>3, <2>4
<1>3. ASSUME NEW e \in DOMAIN entry, NEW in \in MaybeStamp, NEW out \in MaybeStamp,
             ManagerEdit(e, in, out)
      PROVE  TouchedEntry(e) /\ StaysUnlocked(e)
  <2>1. /\ ~IsLocked(entry[e].punchIn) /\ ~IsLocked(entry[e].punchOut)
        /\ ~IsLocked(in) /\ ~IsLocked(out)
    BY <1>3 DEF ManagerEdit, NotInLockedPeriod
  <2>2. /\ TouchedEntry(e)
        /\ entry'[e].punchIn = Or(in, entry[e].punchIn)
        /\ entry'[e].punchOut = Or(out, entry[e].punchOut)
    BY <1>1, <1>3, RewriteTouches DEF ManagerEdit
  <2>3. StaysUnlocked(e)
    BY <2>1, <2>2, OrIsUnlocked DEF StaysUnlocked, TouchesLocked
  <2>4. QED
    BY <2>2, <2>3
<1>4. ASSUME NEW e \in DOMAIN entry, ManagerRemove(e)
      PROVE  TouchedEntry(e) /\ StaysUnlocked(e)
  <2>1. ~IsLocked(entry[e].punchIn) /\ ~IsLocked(entry[e].punchOut)
    BY <1>4 DEF ManagerRemove, NotInLockedPeriod
  <2>2. /\ TouchedEntry(e)
        /\ entry'[e].punchIn = entry[e].punchIn /\ entry'[e].punchOut = entry[e].punchOut
    BY <1>4, RemoveTouches DEF ManagerRemove
  <2>3. StaysUnlocked(e)
    BY <2>1, <2>2 DEF StaysUnlocked, TouchesLocked
  <2>4. QED
    BY <2>2, <2>3
<1>5. UNCHANGED <<request, locked>>
  BY DEF DirectEdit, ManagerCreate, ManagerEdit, ManagerRemove
<1>6. QED
  BY <1>1, <1>2, <1>3, <1>4, <1>5 DEF DirectEdit

-----------------------------------------------------------------------------
(* The kinds of steps, and what each keeps.                                *)

\* Every step is one of three: a punch or sweep; a lock, a filing or a
\* rejection, which leaves the hours alone; or a change of one entry by a
\* manager, who, if the times are those of the snapshot, leaves locked periods
\* alone.
LEMMA StepKinds ==
    ASSUME CorrectionsInv, [CorrectionsNext]_tcVars
    PROVE  \/ [Next]_ttVars /\ UNCHANGED <<request, locked>>
           \/ /\ UNCHANGED <<entry, breaks, events, now>>
              /\ RequestsOK(request') /\ locked' \subseteq Period
           \/ \E e \in EntryId :
                 /\ TouchedEntry(e)
                 /\ SnapshotsAreCurrent => StaysUnlocked(e)
                 /\ RequestsOK(request') /\ UNCHANGED locked
<1>1. /\ TypeOK /\ RequestsOK(request) /\ locked \subseteq Period
  BY DEF CorrectionsInv, CorrectionsTypeOK, RequestShape, RequestsOK
<1>2. CASE UNCHANGED tcVars
  BY <1>2 DEF tcVars, ttVars
<1>3. CASE Next /\ UNCHANGED <<request, locked>>
  BY <1>3
<1>4. CASE FileOrCancel
  BY <1>1, <1>4, FileKeepsRequests
<1>5. CASE Decide
  <2>1. PICK m \in Manager, r \in DOMAIN request :
          \/ Reject(m, r)
          \/ \E in, out \in MaybeStamp : Ordered(in, out) /\ Approve(m, r, in, out)
    BY <1>5 DEF Decide
  <2>2. request[r] \in RequestRow
    BY <1>1 DEF RequestsOK
  <2>3. CASE Reject(m, r)
    <3> DEFINE row == [request[r] EXCEPT !.status = "rejected"]
    <3>1. /\ row \in RequestRow /\ row.type = request[r].type
          /\ row.wantIn = request[r].wantIn /\ row.entry = request[r].entry
      BY <2>2 DEF RequestRow
    <3>2. request' = [request EXCEPT ![r] = row]
      BY <2>3 DEF Reject
    <3> HIDE DEF row
    <3>3. RequestsOK(request')
      BY <1>1, <3>1, <3>2, SettleKeepsRequests
    <3>4. QED
      BY <1>1, <2>3, <3>3 DEF Reject
  <2>4. CASE \E in, out \in MaybeStamp : Ordered(in, out) /\ Approve(m, r, in, out)
    <3>1. PICK a \in EntryId :
            /\ TouchedEntry(a)
            /\ SnapshotsAreCurrent => StaysUnlocked(a)
            /\ request' = [request EXCEPT ![r] =
                             [request[r] EXCEPT !.status = "approved", !.applied = a]]
            /\ UNCHANGED locked
      BY <2>4, ApproveTouches
    <3> DEFINE row == [request[r] EXCEPT !.status = "approved", !.applied = a]
    <3>2. /\ row \in RequestRow /\ row.type = request[r].type
          /\ row.wantIn = request[r].wantIn /\ row.entry = request[r].entry
      BY <2>2 DEF RequestRow
    <3>3. request' = [request EXCEPT ![r] = row]
      BY <3>1
    <3> HIDE DEF row
    <3>4. RequestsOK(request')
      BY <1>1, <3>2, <3>3, SettleKeepsRequests
    <3>5. QED
      BY <3>1, <3>4
  <2>5. QED
    BY <2>1, <2>3, <2>4
<1>6. CASE DirectEdit
  BY <1>1, <1>6, DirectEditTouches
<1>7. CASE \E p \in Period : LockPeriod(p) \/ UnlockPeriod(p)
  BY <1>1, <1>7 DEF LockPeriod, UnlockPeriod
<1>8. QED
  BY <1>2, <1>3, <1>4, <1>5, <1>6, <1>7 DEF CorrectionsNext

\* The invariant is inductive, by the three kinds of step.
LEMMA CorrectionsStep ==
    CorrectionsInv /\ [CorrectionsNext]_tcVars => CorrectionsInv'
<1>1. SUFFICES ASSUME CorrectionsInv, [CorrectionsNext]_tcVars PROVE CorrectionsInv'
  OBVIOUS
<1>2. TypeOK /\ TablesInv /\ RequestsOK(request) /\ locked \subseteq Period
  BY <1>1 DEF CorrectionsInv, CorrectionsTypeOK, RequestShape, RequestsOK
<1>3. ASSUME TypeOK', TablesInv', DOMAIN entry \subseteq DOMAIN entry',
             RequestsOK(request'), locked' \subseteq Period
      PROVE  CorrectionsInv'
  <2>1. /\ DOMAIN request' \subseteq RequestId
        /\ request' \in [DOMAIN request' -> RequestRow]
        /\ \A r \in DOMAIN request' :
              IF request'[r].type = "add_entry"
              THEN request'[r].wantIn \in Instant
              ELSE request'[r].entry \in DOMAIN entry'
    BY <1>3 DEF RequestsOK
  <2>2. QED
    BY <1>3, <2>1 DEF CorrectionsInv, CorrectionsTypeOK, RequestShape
<1>4. CASE [Next]_ttVars /\ UNCHANGED <<request, locked>>
  <2>1. TypeOK' /\ TablesInv' /\ DOMAIN entry \subseteq DOMAIN entry'
    BY <1>2, <1>4, LiveKeepsTables
  <2>2. RequestsOK(request') /\ locked' \subseteq Period
    BY <1>2, <1>4
  <2>3. QED
    BY <1>3, <2>1, <2>2
<1>5. CASE /\ UNCHANGED <<entry, breaks, events, now>>
           /\ RequestsOK(request') /\ locked' \subseteq Period
  <2>1. TypeOK'
    BY <1>2, <1>5 DEF TypeOK
  <2>2. TablesInv'
    BY <1>2, <1>5 DEF TablesInv, OneOpenEntryPerUser, IsOpen, MinutesFollowTimes,
                      Deductible, CompletedHasEnd
  <2>3. QED
    BY <1>3, <1>5, <2>1, <2>2
<1>6. ASSUME NEW e \in EntryId, TouchedEntry(e), RequestsOK(request'), UNCHANGED locked
      PROVE  CorrectionsInv'
  <2>1. TypeOK' /\ TablesInv'
    BY <1>2, <1>6, TouchKeepsTables
  <2>2. DOMAIN entry \subseteq DOMAIN entry'
    BY <1>6 DEF TouchedEntry
  <2>3. QED
    BY <1>2, <1>3, <1>6, <2>1, <2>2
<1>7. QED
  BY <1>1, <1>4, <1>5, <1>6, StepKinds

\* The invariant holds in empty tables.
LEMMA CorrectionsStart == CorrectionsInit => CorrectionsInv
<1>1. SUFFICES ASSUME CorrectionsInit PROVE CorrectionsInv
  OBVIOUS
<1>2. TypeOK
  BY <1>1, InitType DEF CorrectionsInit
<1>3. DOMAIN entry = {} /\ DOMAIN request = {} /\ locked = {}
      /\ request \in [DOMAIN request -> RequestRow]
  BY <1>1 DEF CorrectionsInit, Init
<1>4. QED
  BY <1>2, <1>3 DEF CorrectionsInv, CorrectionsTypeOK, RequestShape, TablesInv,
                    OneOpenEntryPerUser, MinutesFollowTimes, CompletedHasEnd

\* The invariant holds in every reachable state.
LEMMA CorrectionsInvariant == CorrectionsSpec => []CorrectionsInv
BY CorrectionsStart, CorrectionsStep, PTL DEF CorrectionsSpec

(* The tables stay well typed whoever corrects them, the requests and the  *)
(* locks included.                                                         *)
THEOREM CorrectionsTypeCorrect == CorrectionsSpec => []CorrectionsTypeOK
<1>1. CorrectionsInv => CorrectionsTypeOK
  BY DEF CorrectionsInv
<1>2. QED
  BY <1>1, CorrectionsInvariant, PTL

(* No correction puts a worker on the clock twice: neither an entry that   *)
(* is added without an end nor an edit of one (applyAddEntry,              *)
(* applyEditTimes and the managers' handlers).                             *)
THEOREM CorrectionsKeepOneOpen == CorrectionsSpec => []OneOpenEntryPerUser
<1>1. CorrectionsInv => OneOpenEntryPerUser
  BY DEF CorrectionsInv, TablesInv
<1>2. QED
  BY <1>1, CorrectionsInvariant, PTL

(* Whatever moved its times, an entry's minutes follow them                *)
(* (recomputeMinutes).                                                     *)
THEOREM MinutesFollowCorrections == CorrectionsSpec => []MinutesFollowTimes
<1>1. CorrectionsInv => MinutesFollowTimes
  BY DEF CorrectionsInv, TablesInv
<1>2. QED
  BY <1>1, CorrectionsInvariant, PTL

(* A removed entry is never brought back.                                  *)
THEOREM RemovedEntriesStay == CorrectionsSpec => RemovedStaysRemoved
<1>1. CorrectionsInv /\ [CorrectionsNext]_tcVars =>
        [\A e \in DOMAIN entry :
            entry[e].status = "deleted" => entry'[e] = entry[e]]_tcVars
  <2>1. SUFFICES ASSUME CorrectionsInv, [CorrectionsNext]_tcVars,
                        NEW e \in DOMAIN entry, entry[e].status = "deleted"
                 PROVE  entry'[e] = entry[e]
    OBVIOUS
  <2>2. CASE [Next]_ttVars
    BY <2>1, <2>2, NextStep DEF CorrectionsInv, CorrectionsTypeOK, IsOpen
  <2>3. CASE UNCHANGED <<entry, breaks, events, now>>
    BY <2>3
  <2>4. CASE \E x \in EntryId : TouchedEntry(x)
    BY <2>1, <2>4 DEF TouchedEntry
  <2>5. QED
    BY <2>1, <2>2, <2>3, <2>4, StepKinds
<1>2. QED
  BY <1>1, CorrectionsInvariant, PTL DEF CorrectionsSpec, RemovedStaysRemoved

(* A locked period keeps its hours: while the pending requests show the    *)
(* times their entries have, no step moves an entry out of, into or within *)
(* one (assertNotInLockedPeriod).                                          *)
THEOREM LockedPeriodsKeepTheirHours == CorrectionsSpec => LockedPeriodIsFrozen
<1>1. CorrectionsInv /\ [CorrectionsNext]_tcVars => (SnapshotsAreCurrent => FrozenStep)
  <2>1. SUFFICES ASSUME CorrectionsInv, [CorrectionsNext]_tcVars, SnapshotsAreCurrent,
                        NEW e \in DOMAIN entry', Retroactive(e)
                 PROVE  StaysUnlocked(e)
    BY DEF FrozenStep, StaysUnlocked
  <2>2. CASE [Next]_ttVars
    <3>1. TypeOK
      BY <2>1 DEF CorrectionsInv, CorrectionsTypeOK
    <3>2. CASE e \in DOMAIN entry
      <4>1. entry'[e] # entry[e] =>
              entry[e].status = "in_progress" /\ entry'[e].status = "completed"
        BY <2>1, <2>2, <3>1, <3>2, NextStep DEF IsOpen
      <4>2. QED
        BY <2>1, <3>2, <4>1 DEF Retroactive
    <3>3. CASE e \notin DOMAIN entry
      <4>1. entry'[e].status = "in_progress"
        BY <2>1, <2>2, <3>1, <3>3, LiveInsertsOpen
      <4>2. QED
        BY <2>1, <3>3, <4>1 DEF Retroactive
    <3>4. QED
      BY <3>2, <3>3
  <2>3. CASE UNCHANGED <<entry, breaks, events, now>>
    BY <2>1, <2>3 DEF Retroactive
  <2>4. ASSUME NEW x \in EntryId, TouchedEntry(x), StaysUnlocked(x)
        PROVE  StaysUnlocked(e)
    <3>1. e # x => e \in DOMAIN entry /\ entry'[e] = entry[e]
      BY <2>1, <2>4 DEF TouchedEntry
    <3>2. e = x
      BY <2>1, <3>1 DEF Retroactive
    <3>3. QED
      BY <2>4, <3>2
  <2>5. QED
    BY <2>1, <2>2, <2>3, <2>4, StepKinds
<1>2. CorrectionsInv /\ [CorrectionsNext]_tcVars =>
        [(\A r \in DOMAIN request :
            request[r].status = "pending" => SnapshotIsCurrent(r)) => FrozenStep]_tcVars
  BY <1>1 DEF SnapshotsAreCurrent
<1>3. QED
  BY <1>2, CorrectionsInvariant, PTL DEF CorrectionsSpec, LockedPeriodIsFrozen
=============================================================================
