------------------------ MODULE TimeTracking_proofs ------------------------
(***************************************************************************)
(* What TLAPS proves of the live time clock, for every set of workers,     *)
(* rows, client ids and instants.                                          *)
(***************************************************************************)
EXTENDS TimeTracking, TLAPS

-----------------------------------------------------------------------------
(* Lemmas about the helpers.                                               *)

(* Closing a row yields a row.                                             *)
LEMMA ClosedRowType ==
    ASSUME NEW row \in EntryRow, NEW t \in Instant, NEW unpaid \in SUBSET BreakId
    PROVE  ClosedRow(row, t, unpaid) \in EntryRow
<1>1. Minutes(row.punchIn, t) \in Nat
  BY TimeTrackingAssumption DEF Minutes, EntryRow, Instant
<1>2. QED
  BY <1>1 DEF ClosedRow, EntryRow

(* closeOpenBreaks keeps the breaks table well typed and its rows in place. *)
LEMMA BreaksClosedType ==
    ASSUME TypeOK, NEW closing, \A e \in DOMAIN closing : closing[e] \in Instant
    PROVE  /\ DOMAIN BreaksClosedAt(closing) = DOMAIN breaks
           /\ BreaksClosedAt(closing) \in [DOMAIN breaks -> BreakRow]
<1>1. ASSUME NEW b \in DOMAIN breaks
      PROVE  BreaksClosedAt(closing)[b] \in BreakRow
  <2>1. breaks[b] \in BreakRow
    BY DEF TypeOK
  <2>2. CASE /\ breaks[b].status = "in_progress"
             /\ breaks[b].entry \in DOMAIN closing
             /\ closing[breaks[b].entry] > breaks[b].start
    <3>1. BreaksClosedAt(closing)[b] =
            [breaks[b] EXCEPT !.end = closing[breaks[b].entry], !.status = "completed"]
      BY <2>2 DEF BreaksClosedAt
    <3>2. QED
      BY <2>1, <2>2, <3>1 DEF BreakRow
  <2>3. CASE ~ /\ breaks[b].status = "in_progress"
               /\ breaks[b].entry \in DOMAIN closing
               /\ closing[breaks[b].entry] > breaks[b].start
    BY <2>1, <2>3 DEF BreaksClosedAt
  <2>4. QED
    BY <2>2, <2>3
<1>2. QED
  BY <1>1 DEF BreaksClosedAt

(* Publishing adds events from the given set only.                         *)
LEMMA PublishAdds ==
    ASSUME NEW new, Publish(new)
    PROVE  events \subseteq events' /\ events' \subseteq events \cup new
BY DEF Publish

-----------------------------------------------------------------------------
(* Type correctness.                                                       *)

\* The tables are well typed when empty.
LEMMA InitType == Init => TypeOK
BY TimeTrackingAssumption DEF Init, TypeOK, Instant

\* punchIn inserts a well-typed row and its event.
LEMMA PunchInType ==
    ASSUME TypeOK, NEW u \in User, NEW c \in ClientId, NEW t \in Stamp, PunchIn(u, c, t)
    PROVE  TypeOK'
<1>1. t \in Instant
  BY TimeTrackingAssumption DEF Instant
<1>2. PICK e \in EntryId \ DOMAIN entry :
        /\ entry' = [x \in DOMAIN entry \cup {e} |->
                        IF x = e THEN NewEntry(u, t) ELSE entry[x]]
        /\ Publish({Event("punch_in", u, e, c, t)})
  BY DEF PunchIn, InsertEntry
<1>3. NewEntry(u, t) \in EntryRow
  BY <1>1 DEF NewEntry, EntryRow
<1>4. Event("punch_in", u, e, c, t) \in EventRow
  BY <1>1 DEF Event, EventRow
<1>5. events' \subseteq EventRow
  BY <1>2, <1>4, PublishAdds DEF TypeOK
<1>6. DOMAIN entry' \subseteq EntryId /\ entry' \in [DOMAIN entry' -> EntryRow]
  BY <1>2, <1>3 DEF TypeOK
<1>7. QED
  BY <1>5, <1>6 DEF TypeOK, PunchIn, InsertEntry

\* punchOut completes a row and ends its open breaks with well-typed values.
LEMMA PunchOutType ==
    ASSUME TypeOK, NEW u \in User, NEW c \in ClientId, NEW t \in Stamp, PunchOut(u, c, t)
    PROVE  TypeOK'
<1>1. t \in Instant
  BY TimeTrackingAssumption DEF Instant
<1>2. PICK e \in DOMAIN entry :
        /\ breaks' = BreaksClosedAt([x \in {e} |-> t])
        /\ entry' = [entry EXCEPT ![e] = ClosedRow(@, t, Deductible(breaks', e))]
        /\ Publish({Event("punch_out", u, e, c, t)})
  BY DEF PunchOut
<1>3. DOMAIN breaks' = DOMAIN breaks /\ breaks' \in [DOMAIN breaks -> BreakRow]
  BY <1>1, <1>2, BreaksClosedType
<1>4. Deductible(breaks', e) \subseteq BreakId
  BY <1>3 DEF Deductible, TypeOK
<1>5. ClosedRow(entry[e], t, Deductible(breaks', e)) \in EntryRow
  BY <1>1, <1>4, ClosedRowType DEF TypeOK
<1>6. DOMAIN entry' \subseteq EntryId /\ entry' \in [DOMAIN entry' -> EntryRow]
  BY <1>2, <1>5 DEF TypeOK
<1>7. Event("punch_out", u, e, c, t) \in EventRow
  BY <1>1 DEF Event, EventRow, TypeOK
<1>8. events' \subseteq EventRow
  BY <1>2, <1>7, PublishAdds DEF TypeOK
<1>9. QED
  BY <1>3, <1>6, <1>8 DEF TypeOK, PunchOut

\* startBreak inserts a well-typed break.
LEMMA StartBreakType ==
    ASSUME TypeOK, NEW u \in User, NEW c \in ClientId, NEW t \in Stamp,
           NEW e \in DOMAIN entry, NEW type \in BreakType, StartBreak(u, c, e, type, t)
    PROVE  TypeOK'
<1>1. t \in Instant /\ e \in EntryId
  BY TimeTrackingAssumption DEF Instant, TypeOK
<1>2. PICK b \in BreakId \ DOMAIN breaks :
        breaks' = [x \in DOMAIN breaks \cup {b} |->
                     IF x = b
                     THEN [entry |-> e, user |-> u, type |-> type, start |-> t,
                           end |-> None, status |-> "in_progress"]
                     ELSE breaks[x]]
  BY DEF StartBreak
<1>3. [entry |-> e, user |-> u, type |-> type, start |-> t,
       end |-> None, status |-> "in_progress"] \in BreakRow
  BY <1>1 DEF BreakRow
<1>4. DOMAIN breaks' \subseteq BreakId /\ breaks' \in [DOMAIN breaks' -> BreakRow]
  BY <1>2, <1>3 DEF TypeOK
<1>5. Event("break_start", u, e, c, t) \in EventRow
  BY <1>1 DEF Event, EventRow
<1>6. events' \subseteq EventRow
  BY <1>5, PublishAdds DEF TypeOK, StartBreak
<1>7. QED
  BY <1>4, <1>6 DEF TypeOK, StartBreak

\* endBreak ends a break with well-typed values.
LEMMA EndBreakType ==
    ASSUME TypeOK, NEW u \in User, NEW c \in ClientId, NEW t \in Stamp,
           NEW b \in DOMAIN breaks, EndBreak(u, c, b, t)
    PROVE  TypeOK'
<1>1. t \in Instant
  BY TimeTrackingAssumption DEF Instant
<1>2. breaks[b] \in BreakRow
  BY DEF TypeOK
<1>3. [breaks[b] EXCEPT !.end = t, !.status = "completed"] \in BreakRow
  BY <1>1, <1>2 DEF BreakRow
<1>4. DOMAIN breaks' \subseteq BreakId /\ breaks' \in [DOMAIN breaks' -> BreakRow]
  BY <1>3 DEF TypeOK, EndBreak
<1>5. Event("break_end", u, breaks[b].entry, c, t) \in EventRow
  BY <1>1, <1>2 DEF Event, EventRow, BreakRow
<1>6. events' \subseteq EventRow
  BY <1>5, PublishAdds DEF TypeOK, EndBreak
<1>7. QED
  BY <1>4, <1>6 DEF TypeOK, EndBreak

(* A stale entry's closing instant has passed, so it is an Instant.        *)
LEMMA StaleInstant ==
    ASSUME TypeOK, NEW e \in StaleEntries
    PROVE  /\ e \in DOMAIN entry
           /\ AutoClockOutAt(e) \in Instant
           /\ AutoClockOutAt(e) > entry[e].punchIn
           /\ AutoClockOutAt(e) <= now
<1>1. e \in DOMAIN entry /\ entry[e] \in EntryRow
  BY DEF StaleEntries, TypeOK
<1>2. entry[e].punchIn \in Instant /\ now \in Instant
  BY <1>1 DEF EntryRow, TypeOK
<1>3. QED
  BY <1>1, <1>2, TimeTrackingAssumption DEF StaleEntries, AutoClockOutAt, Instant

\* autoClockOut completes its rows with well-typed values.
LEMMA AutoClockOutType ==
    ASSUME TypeOK, AutoClockOut
    PROVE  TypeOK'
<1>1. PICK batch \in SweepBatches :
        /\ breaks' = BreaksClosedAt([e \in batch |-> AutoClockOutAt(e)])
        /\ entry' = [e \in DOMAIN entry |->
              IF e \in batch
              THEN [ClosedRow(entry[e], AutoClockOutAt(e), Deductible(breaks', e))
                      EXCEPT !.autoClosed = TRUE]
              ELSE entry[e]]
        /\ Publish({Event("punch_out", entry[e].user, e, None, AutoClockOutAt(e)) :
                      e \in batch})
        /\ UNCHANGED now
  BY DEF AutoClockOut
<1>2. batch \subseteq StaleEntries
  BY DEF SweepBatches
<1>3. \A e \in batch : e \in DOMAIN entry /\ AutoClockOutAt(e) \in Instant
  BY <1>2, StaleInstant
<1>4. DOMAIN breaks' = DOMAIN breaks /\ breaks' \in [DOMAIN breaks -> BreakRow]
  BY <1>1, <1>3, BreaksClosedType
<1>5. ASSUME NEW e \in DOMAIN entry
      PROVE  entry'[e] \in EntryRow
  <2>1. entry[e] \in EntryRow
    BY DEF TypeOK
  <2>2. CASE e \in batch
    <3>1. Deductible(breaks', e) \subseteq BreakId
      BY <1>4 DEF Deductible, TypeOK
    <3>2. ClosedRow(entry[e], AutoClockOutAt(e), Deductible(breaks', e)) \in EntryRow
      BY <1>3, <2>1, <2>2, <3>1, ClosedRowType
    <3>3. entry'[e] = [ClosedRow(entry[e], AutoClockOutAt(e), Deductible(breaks', e))
                         EXCEPT !.autoClosed = TRUE]
      BY <1>1, <2>2
    <3>4. QED
      BY <3>2, <3>3 DEF EntryRow
  <2>3. CASE e \notin batch
    BY <1>1, <2>1, <2>3
  <2>4. QED
    BY <2>2, <2>3
<1>6. ASSUME NEW e \in batch
      PROVE  Event("punch_out", entry[e].user, e, None, AutoClockOutAt(e)) \in EventRow
  BY <1>3 DEF Event, EventRow, TypeOK, EntryRow
<1>7. events' \subseteq EventRow
  BY <1>1, <1>6, PublishAdds DEF TypeOK
<1>8. DOMAIN entry' = DOMAIN entry /\ entry' \in [DOMAIN entry -> EntryRow]
  BY <1>1, <1>5
<1>9. QED
  BY <1>1, <1>4, <1>7, <1>8 DEF TypeOK

(* One step keeps the types.                                               *)
LEMMA NextType == TypeOK /\ [Next]_ttVars => TypeOK'
<1>1. SUFFICES ASSUME TypeOK, [Next]_ttVars PROVE TypeOK'
  OBVIOUS
<1>2. CASE Tick
  BY <1>1, <1>2, TimeTrackingAssumption DEF Tick, TypeOK, Instant
<1>3. CASE Request
  BY <1>1, <1>3, PunchInType, PunchOutType, StartBreakType, EndBreakType DEF Request
<1>4. CASE AutoClockOut
  BY <1>1, <1>4, AutoClockOutType
<1>5. CASE UNCHANGED ttVars
  BY <1>1, <1>5 DEF ttVars, TypeOK
<1>6. QED
  BY <1>1, <1>2, <1>3, <1>4, <1>5 DEF Next

(* The tables stay well typed: in particular no handler stores the status  *)
(* "edited", a missing end on a completed row, or a half-closed break.     *)
THEOREM TypeCorrect == Spec => []TypeOK
BY InitType, NextType, PTL DEF Spec

-----------------------------------------------------------------------------
(* What a step may do to the entries: at most one new one, for a worker    *)
(* who has none open, and no change to an old one but to close it.         *)

\* punchIn adds one row, of a worker who had none open, and changes no other.
LEMMA PunchInStep ==
    ASSUME TypeOK, NEW u \in User, NEW c \in ClientId, NEW t \in Stamp, PunchIn(u, c, t)
    PROVE  \E n \in EntryId \ DOMAIN entry :
              /\ DOMAIN entry' = DOMAIN entry \cup {n}
              /\ \A e \in DOMAIN entry : entry'[e] = entry[e]
              /\ entry'[n].user = u
              /\ OpenEntries(u) = {}
<1>1. PICK n \in EntryId \ DOMAIN entry :
        entry' = [x \in DOMAIN entry \cup {n} |->
                    IF x = n THEN NewEntry(u, t) ELSE entry[x]]
  BY DEF PunchIn, InsertEntry
<1>2. NewEntry(u, t).user = u
  BY DEF NewEntry
<1>3. QED
  BY <1>1, <1>2 DEF PunchIn

\* punchOut completes open rows and changes no other.
LEMMA PunchOutStep ==
    ASSUME TypeOK, NEW u \in User, NEW c \in ClientId, NEW t \in Stamp, PunchOut(u, c, t)
    PROVE  /\ DOMAIN entry' = DOMAIN entry
           /\ \A e \in DOMAIN entry :
                 entry'[e] # entry[e] => IsOpen(e) /\ entry'[e].status = "completed"
<1>1. PICK e \in DOMAIN entry :
        /\ CurrentOpenEntry(u, e)
        /\ entry' = [entry EXCEPT ![e] = ClosedRow(@, t, Deductible(breaks', e))]
  BY DEF PunchOut
<1>2. IsOpen(e)
  BY <1>1 DEF CurrentOpenEntry, OpenEntries
<1>3. entry[e] \in EntryRow
  BY DEF TypeOK
<1>4. ClosedRow(entry[e], t, Deductible(breaks', e)).status = "completed"
  BY <1>3 DEF ClosedRow, EntryRow
<1>5. QED
  BY <1>1, <1>2, <1>4 DEF TypeOK

\* So does the sweep.
LEMMA AutoClockOutStep ==
    ASSUME TypeOK, AutoClockOut
    PROVE  /\ DOMAIN entry' = DOMAIN entry
           /\ \A e \in DOMAIN entry :
                 entry'[e] # entry[e] => IsOpen(e) /\ entry'[e].status = "completed"
<1>1. PICK batch \in SweepBatches :
        entry' = [e \in DOMAIN entry |->
              IF e \in batch
              THEN [ClosedRow(entry[e], AutoClockOutAt(e), Deductible(breaks', e))
                      EXCEPT !.autoClosed = TRUE]
              ELSE entry[e]]
  BY DEF AutoClockOut
<1>2. ASSUME NEW e \in DOMAIN entry, entry'[e] # entry[e]
      PROVE  IsOpen(e) /\ entry'[e].status = "completed"
  <2>1. e \in batch
    BY <1>1, <1>2
  <2>2. IsOpen(e)
    BY <2>1 DEF SweepBatches, StaleEntries
  <2>3. entry[e] \in EntryRow
    BY DEF TypeOK
  <2>4. entry'[e] = [ClosedRow(entry[e], AutoClockOutAt(e), Deductible(breaks', e))
                       EXCEPT !.autoClosed = TRUE]
    BY <1>1, <2>1
  <2>5. entry'[e].status = "completed"
    BY <2>3, <2>4 DEF ClosedRow, EntryRow
  <2>6. QED
    BY <2>2, <2>5
<1>3. QED
  BY <1>1, <1>2

\* Whatever the step, rows that change were open and are completed, or one row
\* is added for a worker who had none open.
LEMMA NextStep ==
    ASSUME TypeOK, [Next]_ttVars
    PROVE  \/ /\ DOMAIN entry' = DOMAIN entry
              /\ \A e \in DOMAIN entry :
                    entry'[e] # entry[e] => IsOpen(e) /\ entry'[e].status = "completed"
           \/ \E u \in User : \E n \in EntryId \ DOMAIN entry :
              /\ DOMAIN entry' = DOMAIN entry \cup {n}
              /\ \A e \in DOMAIN entry : entry'[e] = entry[e]
              /\ entry'[n].user = u
              /\ OpenEntries(u) = {}
<1>1. CASE Tick \/ UNCHANGED ttVars
  BY <1>1 DEF Tick, ttVars
<1>2. CASE AutoClockOut
  BY <1>2, AutoClockOutStep
<1>3. CASE Request
  <2>1. PICK u \in User, c \in ClientId, t \in Stamp :
          \/ PunchIn(u, c, t)
          \/ PunchOut(u, c, t)
          \/ \E e \in DOMAIN entry, type \in BreakType : StartBreak(u, c, e, type, t)
          \/ \E b \in DOMAIN breaks : EndBreak(u, c, b, t)
    BY <1>3 DEF Request
  <2>2. CASE PunchIn(u, c, t)
    BY <2>2, PunchInStep
  <2>3. CASE PunchOut(u, c, t)
    BY <2>3, PunchOutStep
  <2>4. CASE \/ \E e \in DOMAIN entry, type \in BreakType : StartBreak(u, c, e, type, t)
             \/ \E b \in DOMAIN breaks : EndBreak(u, c, b, t)
    BY <2>4 DEF StartBreak, EndBreak
  <2>5. QED
    BY <2>1, <2>2, <2>3, <2>4
<1>4. QED
  BY <1>1, <1>2, <1>3 DEF Next

\* Hence no worker gets a second open row.
LEMMA OneOpenStep ==
    ASSUME TypeOK, OneOpenEntryPerUser, [Next]_ttVars
    PROVE  OneOpenEntryPerUser'
<1>1. SUFFICES ASSUME NEW e \in DOMAIN entry', NEW f \in DOMAIN entry',
                      entry'[e].punchOut = None, entry'[e].status = "in_progress",
                      entry'[f].punchOut = None, entry'[f].status = "in_progress",
                      entry'[e].user = entry'[f].user
               PROVE  e = f
  BY DEF OneOpenEntryPerUser, IsOpen
<1>2. CASE /\ DOMAIN entry' = DOMAIN entry
           /\ \A x \in DOMAIN entry :
                 entry'[x] # entry[x] => IsOpen(x) /\ entry'[x].status = "completed"
  <2>1. entry'[e] = entry[e] /\ entry'[f] = entry[f]
    BY <1>1, <1>2
  <2>2. QED
    BY <1>1, <1>2, <2>1 DEF OneOpenEntryPerUser, IsOpen
<1>3. ASSUME NEW u \in User, NEW n \in EntryId \ DOMAIN entry,
             DOMAIN entry' = DOMAIN entry \cup {n},
             \A x \in DOMAIN entry : entry'[x] = entry[x],
             entry'[n].user = u,
             OpenEntries(u) = {}
      PROVE  e = f
  <2>1. CASE e \in DOMAIN entry /\ f \in DOMAIN entry
    BY <1>1, <1>3, <2>1 DEF OneOpenEntryPerUser, IsOpen
  <2>2. CASE e = n /\ f \in DOMAIN entry
    BY <1>1, <1>3, <2>2 DEF OpenEntries, IsOpen
  <2>3. CASE f = n /\ e \in DOMAIN entry
    BY <1>1, <1>3, <2>3 DEF OpenEntries, IsOpen
  <2>4. QED
    BY <1>3, <2>1, <2>2, <2>3
<1>4. QED
  BY <1>2, <1>3, NextStep

(* Nobody is ever on the clock twice.                                      *)
THEOREM OneOpen == Spec => []OneOpenEntryPerUser
<1>1. Init => OneOpenEntryPerUser
  BY DEF Init, OneOpenEntryPerUser
<1>2. TypeOK /\ OneOpenEntryPerUser /\ [Next]_ttVars => OneOpenEntryPerUser'
  BY OneOpenStep
<1>3. QED
  BY <1>1, <1>2, TypeCorrect, PTL DEF Spec

(* A completed entry is final for the live clock and the sweep.            *)
THEOREM CompletedIsFinal == Spec => CompletedEntryIsFinal
<1>1. TypeOK /\ [Next]_ttVars =>
        [\A e \in DOMAIN entry :
            entry[e].status = "completed" => entry'[e] = entry[e]]_ttVars
  BY NextStep DEF IsOpen
<1>2. QED
  BY <1>1, TypeCorrect, PTL DEF Spec, CompletedEntryIsFinal

-----------------------------------------------------------------------------
(* Where the clock stops.                                                  *)

(* An auto-closed entry ends at the cap, in the past, in every state.      *)
THEOREM AutoClosedEndsAtCap == Spec => []AutoClosedAtCap
<1>1. Init => AutoClosedAtCap
  BY DEF Init, AutoClosedAtCap
<1>2. ASSUME TypeOK, AutoClosedAtCap, [Next]_ttVars
      PROVE  AutoClosedAtCap'
  <2>0. TypeOK'
    BY <1>2, NextType
  <2>1. CASE UNCHANGED entry /\ now' >= now
    <3>1. ASSUME NEW e \in DOMAIN entry, entry[e].autoClosed
          PROVE  entry[e].punchOut <= now'
      <4>1. entry[e].punchIn \in Int /\ AutoClockOutMinutes \in Int
        BY TimeTrackingAssumption, <1>2 DEF TypeOK, EntryRow, Instant
      <4>2. entry[e].punchOut \in Int /\ entry[e].punchOut <= now
        BY <1>2, <3>1, <4>1 DEF AutoClosedAtCap
      <4>3. now \in Int /\ now' \in Int
        BY <1>2, <2>0 DEF TypeOK, Instant
      <4>4. QED
        BY <2>1, <4>2, <4>3
    <3>2. QED
      BY <1>2, <2>1, <3>1 DEF AutoClosedAtCap
  <2>2. CASE Tick
    BY <1>2, <2>1, <2>2 DEF Tick, TypeOK, Instant
  <2>3. CASE Request
    <3>1. PICK u \in User, c \in ClientId, t \in Stamp :
            \/ PunchIn(u, c, t)
            \/ PunchOut(u, c, t)
            \/ \E e \in DOMAIN entry, type \in BreakType : StartBreak(u, c, e, type, t)
            \/ \E b \in DOMAIN breaks : EndBreak(u, c, b, t)
      BY <2>3 DEF Request
    <3>2. CASE PunchIn(u, c, t)
      BY <1>2, <3>2 DEF PunchIn, InsertEntry, NewEntry, AutoClosedAtCap
    <3>3. CASE PunchOut(u, c, t)
      <4>1. PICK e \in DOMAIN entry :
              /\ CurrentOpenEntry(u, e)
              /\ entry' = [entry EXCEPT ![e] = ClosedRow(@, t, Deductible(breaks', e))]
        BY <3>3 DEF PunchOut
      <4>2. ~entry[e].autoClosed /\ entry[e] \in EntryRow
        BY <1>2, <4>1 DEF AutoClosedAtCap, CurrentOpenEntry, OpenEntries, IsOpen, TypeOK
      <4>3. entry'[e].autoClosed = entry[e].autoClosed
        BY <4>1, <4>2 DEF ClosedRow, EntryRow
      <4>4. QED
        BY <1>2, <3>3, <4>1, <4>2, <4>3 DEF AutoClosedAtCap, PunchOut
    <3>4. CASE \/ \E e \in DOMAIN entry, type \in BreakType : StartBreak(u, c, e, type, t)
               \/ \E b \in DOMAIN breaks : EndBreak(u, c, b, t)
      <4>1. UNCHANGED <<entry, now>>
        BY <3>4 DEF StartBreak, EndBreak
      <4>2. now \in Int
        BY <1>2 DEF TypeOK, Instant
      <4>3. QED
        BY <2>1, <4>1, <4>2
    <3>5. QED
      BY <3>1, <3>2, <3>3, <3>4
  <2>4. CASE AutoClockOut
    <3>1. PICK batch \in SweepBatches :
            /\ entry' = [e \in DOMAIN entry |->
                  IF e \in batch
                  THEN [ClosedRow(entry[e], AutoClockOutAt(e), Deductible(breaks', e))
                          EXCEPT !.autoClosed = TRUE]
                  ELSE entry[e]]
            /\ UNCHANGED now
      BY <2>4 DEF AutoClockOut
    <3>2. batch \subseteq StaleEntries
      BY DEF SweepBatches
    <3>3. ASSUME NEW e \in batch
          PROVE  /\ entry'[e].status = "completed"
                 /\ entry'[e].punchOut = entry'[e].punchIn + AutoClockOutMinutes
                 /\ entry'[e].punchOut <= now'
      <4>1. e \in DOMAIN entry /\ AutoClockOutAt(e) <= now /\ entry[e] \in EntryRow
        BY <1>2, <3>2, StaleInstant DEF TypeOK
      <4>2. entry'[e] = [ClosedRow(entry[e], AutoClockOutAt(e), Deductible(breaks', e))
                           EXCEPT !.autoClosed = TRUE]
        BY <3>1, <4>1
      <4>3. QED
        BY <3>1, <4>1, <4>2 DEF ClosedRow, EntryRow, AutoClockOutAt
    <3>4. QED
      BY <1>2, <3>1, <3>3 DEF AutoClosedAtCap
  <2>5. QED
    BY <1>2, <2>1, <2>2, <2>3, <2>4 DEF Next, ttVars, TypeOK, Instant
<1>3. QED
  BY <1>1, <1>2, TypeCorrect, PTL DEF Spec

-----------------------------------------------------------------------------
(* Payable minutes.  A completed row has an end, which MinutesMatchBreaks  *)
(* takes for granted and the next steps need.                              *)

CompletedHasEnd ==
    \A e \in DOMAIN entry : entry[e].status = "completed" => entry[e].punchOut # None

(* A step that adds no break to the completed entry e, and neither moves   *)
(* nor reopens a break, leaves the minutes of e right.                     *)
LEMMA MinutesStayRight ==
    ASSUME MinutesMatchBreaks, NEW e \in DOMAIN entry, entry[e].status = "completed",
           e \in DOMAIN entry', entry'[e] = entry[e],
           \A b \in DOMAIN breaks :
              /\ b \in DOMAIN breaks'
              /\ breaks'[b].entry = breaks[b].entry
              /\ breaks'[b].type = breaks[b].type
              /\ breaks'[b].start = breaks[b].start
              /\ breaks[b].status = "completed" => breaks'[b].status = "completed",
           \A b \in DOMAIN breaks' \ DOMAIN breaks : breaks'[b].entry # e
    PROVE  /\ entry'[e].punchOut > entry'[e].punchIn
           /\ entry'[e].gross = entry'[e].punchOut - entry'[e].punchIn
           /\ entry'[e].deducted \subseteq Deductible(breaks', e)
           /\ \A b \in DOMAIN breaks' :
                (/\ breaks'[b].entry = e
                 /\ breaks'[b].type \in UnpaidBreakTypes
                 /\ breaks'[b].start < entry'[e].punchOut) => b \in entry'[e].deducted
<1>1. /\ entry[e].punchOut > entry[e].punchIn
      /\ entry[e].gross = entry[e].punchOut - entry[e].punchIn
      /\ entry[e].deducted \subseteq Deductible(breaks, e)
  BY DEF MinutesMatchBreaks
<1>2. Deductible(breaks, e) \subseteq Deductible(breaks', e)
  BY DEF Deductible
<1>3. ASSUME NEW b \in DOMAIN breaks', breaks'[b].entry = e,
             breaks'[b].type \in UnpaidBreakTypes, breaks'[b].start < entry'[e].punchOut
      PROVE  b \in entry'[e].deducted
  <2>1. b \in DOMAIN breaks
    BY <1>3
  <2>2. QED
    BY <1>3, <2>1 DEF MinutesMatchBreaks
<1>4. QED
  BY <1>1, <1>2, <1>3

(* closeOpenBreaks moves no break and reopens none, and of the entries it  *)
(* closes it leaves no break running that began before the end.            *)
LEMMA BreaksClosed ==
    ASSUME TypeOK, NEW closing, breaks' = BreaksClosedAt(closing)
    PROVE  /\ DOMAIN breaks' = DOMAIN breaks
           /\ \A b \in DOMAIN breaks :
                 /\ breaks'[b].entry = breaks[b].entry
                 /\ breaks'[b].type = breaks[b].type
                 /\ breaks'[b].start = breaks[b].start
                 /\ breaks[b].status = "completed" => breaks'[b].status = "completed"
                 /\ (breaks[b].entry \in DOMAIN closing /\ closing[breaks[b].entry] > breaks[b].start)
                       => breaks'[b].status = "completed"
<1>1. DOMAIN breaks' = DOMAIN breaks
  BY DEF BreaksClosedAt
<1>2. ASSUME NEW b \in DOMAIN breaks
      PROVE  /\ breaks'[b].entry = breaks[b].entry
             /\ breaks'[b].type = breaks[b].type
             /\ breaks'[b].start = breaks[b].start
             /\ breaks[b].status = "completed" => breaks'[b].status = "completed"
             /\ (breaks[b].entry \in DOMAIN closing /\ closing[breaks[b].entry] > breaks[b].start)
                   => breaks'[b].status = "completed"
  <2>1. breaks[b] \in BreakRow
    BY DEF TypeOK
  <2>2. CASE /\ breaks[b].status = "in_progress"
             /\ breaks[b].entry \in DOMAIN closing
             /\ closing[breaks[b].entry] > breaks[b].start
    <3>1. breaks'[b] = [breaks[b] EXCEPT !.end = closing[breaks[b].entry], !.status = "completed"]
      BY <2>2 DEF BreaksClosedAt
    <3>2. QED
      BY <2>1, <3>1 DEF BreakRow
  <2>3. CASE ~ /\ breaks[b].status = "in_progress"
               /\ breaks[b].entry \in DOMAIN closing
               /\ closing[breaks[b].entry] > breaks[b].start
    <3>1. breaks'[b] = breaks[b]
      BY <2>3 DEF BreaksClosedAt
    <3>2. QED
      BY <2>1, <2>3, <3>1 DEF BreakRow
  <2>4. QED
    BY <2>2, <2>3
<1>3. QED
  BY <1>1, <1>2

(* Closing entries at the given instants, as punchOut and the sweep do.    *)
LEMMA ClosingIsRight ==
    ASSUME TypeOK, TypeOK', MinutesMatchBreaks, CompletedHasEnd,
           NEW closing, DOMAIN closing \subseteq DOMAIN entry,
           \A e \in DOMAIN closing :
              /\ IsOpen(e)
              /\ closing[e] \in Instant
              /\ closing[e] > entry[e].punchIn
              /\ entry'[e].punchIn = entry[e].punchIn
              /\ entry'[e].punchOut = closing[e]
              /\ entry'[e].gross = Minutes(entry[e].punchIn, closing[e])
              /\ entry'[e].deducted = Deductible(breaks', e),
           breaks' = BreaksClosedAt(closing),
           DOMAIN entry' = DOMAIN entry,
           \A e \in DOMAIN entry \ DOMAIN closing : entry'[e] = entry[e]
    PROVE  MinutesMatchBreaks' /\ CompletedHasEnd'
<1>1. CompletedHasEnd'
  BY TimeTrackingAssumption DEF CompletedHasEnd, Instant
<1>2. ASSUME NEW e \in DOMAIN entry', entry'[e].status = "completed"
      PROVE  /\ entry'[e].punchOut > entry'[e].punchIn
             /\ entry'[e].gross = entry'[e].punchOut - entry'[e].punchIn
             /\ entry'[e].deducted \subseteq Deductible(breaks', e)
             /\ \A b \in DOMAIN breaks' :
                  (/\ breaks'[b].entry = e
                   /\ breaks'[b].type \in UnpaidBreakTypes
                   /\ breaks'[b].start < entry'[e].punchOut) => b \in entry'[e].deducted
  <2>1. CASE e \in DOMAIN closing
    <3>1. entry[e].punchIn \in Int /\ closing[e] \in Int
      BY <2>1 DEF TypeOK, EntryRow, Instant
    <3>2. entry'[e].gross = entry'[e].punchOut - entry'[e].punchIn
      BY <2>1, <3>1 DEF Minutes
    <3>3. ASSUME NEW b \in DOMAIN breaks', breaks'[b].entry = e,
                 breaks'[b].type \in UnpaidBreakTypes, breaks'[b].start < entry'[e].punchOut
          PROVE  b \in entry'[e].deducted
      <4>1. /\ b \in DOMAIN breaks /\ breaks[b].entry = e
            /\ breaks'[b].start = breaks[b].start
        BY <3>3, BreaksClosed
      <4>2. breaks[b].start \in Int
        BY <4>1 DEF TypeOK, BreakRow, Instant
      <4>3. closing[e] > breaks[b].start
        BY <2>1, <3>1, <3>3, <4>1, <4>2
      <4>4. breaks'[b].status = "completed"
        BY <2>1, <4>1, <4>3, BreaksClosed
      <4>5. QED
        BY <2>1, <3>3, <4>4 DEF Deductible
    <3>4. QED
      BY <2>1, <3>2, <3>3
  <2>2. CASE e \notin DOMAIN closing
    <3>1. e \in DOMAIN entry /\ entry'[e] = entry[e]
      BY <2>2
    <3>2. DOMAIN breaks' = DOMAIN breaks
      BY BreaksClosed
    <3>3. \A b \in DOMAIN breaks :
             /\ b \in DOMAIN breaks'
             /\ breaks'[b].entry = breaks[b].entry
             /\ breaks'[b].type = breaks[b].type
             /\ breaks'[b].start = breaks[b].start
             /\ breaks[b].status = "completed" => breaks'[b].status = "completed"
      BY <3>2, BreaksClosed
    <3>4. QED
      BY <1>2, <3>1, <3>2, <3>3, MinutesStayRight
  <2>3. QED
    BY <2>1, <2>2
<1>3. QED
  BY <1>1, <1>2 DEF MinutesMatchBreaks

\* punchOut writes the minutes of the breaks as they stand once it has ended
\* the open ones.
LEMMA PunchOutIsRight ==
    ASSUME TypeOK, TypeOK', MinutesMatchBreaks, CompletedHasEnd,
           NEW u \in User, NEW c \in ClientId, NEW t \in Stamp, PunchOut(u, c, t)
    PROVE  MinutesMatchBreaks' /\ CompletedHasEnd'
<1>1. PICK e \in DOMAIN entry :
        /\ CurrentOpenEntry(u, e)
        /\ t > entry[e].punchIn
        /\ breaks' = BreaksClosedAt([x \in {e} |-> t])
        /\ entry' = [entry EXCEPT ![e] = ClosedRow(@, t, Deductible(breaks', e))]
  BY DEF PunchOut
<1> DEFINE closing == [x \in {e} |-> t]
<1>2. t \in Instant /\ IsOpen(e) /\ entry[e] \in EntryRow
  BY <1>1, TimeTrackingAssumption DEF Instant, CurrentOpenEntry, OpenEntries, TypeOK
<1>3. /\ entry'[e].punchIn = entry[e].punchIn
      /\ entry'[e].punchOut = t
      /\ entry'[e].gross = Minutes(entry[e].punchIn, t)
      /\ entry'[e].deducted = Deductible(breaks', e)
  BY <1>1, <1>2 DEF ClosedRow, EntryRow
<1>4. DOMAIN closing = {e} /\ closing[e] = t
  OBVIOUS
<1>5. breaks' = BreaksClosedAt(closing)
  BY <1>1
<1>6. DOMAIN entry' = DOMAIN entry /\ \A x \in DOMAIN entry \ {e} : entry'[x] = entry[x]
  BY <1>1
<1> HIDE DEF closing
<1>7. QED
  BY <1>1, <1>2, <1>3, <1>4, <1>5, <1>6, ClosingIsRight

\* The sweep writes the minutes of the breaks as they stand.
LEMMA AutoClockOutIsRight ==
    ASSUME TypeOK, TypeOK', MinutesMatchBreaks, CompletedHasEnd, AutoClockOut
    PROVE  MinutesMatchBreaks' /\ CompletedHasEnd'
<1>1. PICK batch \in SweepBatches :
        /\ breaks' = BreaksClosedAt([e \in batch |-> AutoClockOutAt(e)])
        /\ entry' = [e \in DOMAIN entry |->
              IF e \in batch
              THEN [ClosedRow(entry[e], AutoClockOutAt(e), Deductible(breaks', e))
                      EXCEPT !.autoClosed = TRUE]
              ELSE entry[e]]
  BY DEF AutoClockOut
<1> DEFINE closing == [e \in batch |-> AutoClockOutAt(e)]
<1>2. batch \subseteq StaleEntries
  BY DEF SweepBatches
<1>3. batch \subseteq DOMAIN entry /\ \A e \in batch : IsOpen(e)
  BY <1>2 DEF StaleEntries
<1>4. ASSUME NEW e \in batch
      PROVE  /\ closing[e] \in Instant
             /\ closing[e] > entry[e].punchIn
             /\ entry'[e].punchIn = entry[e].punchIn
             /\ entry'[e].punchOut = closing[e]
             /\ entry'[e].gross = Minutes(entry[e].punchIn, closing[e])
             /\ entry'[e].deducted = Deductible(breaks', e)
  <2>1. AutoClockOutAt(e) \in Instant /\ AutoClockOutAt(e) > entry[e].punchIn
    BY <1>2, StaleInstant
  <2>2. entry[e] \in EntryRow
    BY <1>3 DEF TypeOK
  <2>3. entry'[e] = [ClosedRow(entry[e], AutoClockOutAt(e), Deductible(breaks', e))
                       EXCEPT !.autoClosed = TRUE]
    BY <1>1, <1>3
  <2>4. closing[e] = AutoClockOutAt(e)
    OBVIOUS
  <2> HIDE DEF closing
  <2>5. QED
    BY <2>1, <2>2, <2>3, <2>4 DEF ClosedRow, EntryRow
<1>5. DOMAIN closing = batch /\ breaks' = BreaksClosedAt(closing)
  BY <1>1
<1>6. DOMAIN entry' = DOMAIN entry /\ \A x \in DOMAIN entry \ batch : entry'[x] = entry[x]
  BY <1>1
<1> HIDE DEF closing
<1>7. QED
  BY <1>3, <1>4, <1>5, <1>6, ClosingIsRight

(* A break starts on an entry without an end, and ends where it began.     *)
LEMMA BreakIsRight ==
    ASSUME TypeOK, MinutesMatchBreaks, CompletedHasEnd,
           NEW u \in User, NEW c \in ClientId, NEW t \in Stamp,
           \/ \E e \in DOMAIN entry, type \in BreakType : StartBreak(u, c, e, type, t)
           \/ \E b \in DOMAIN breaks : EndBreak(u, c, b, t)
    PROVE  MinutesMatchBreaks' /\ CompletedHasEnd'
<1>1. entry' = entry
  BY DEF StartBreak, EndBreak
<1>2. \A b \in DOMAIN breaks :
         /\ b \in DOMAIN breaks'
         /\ breaks'[b].entry = breaks[b].entry
         /\ breaks'[b].type = breaks[b].type
         /\ breaks'[b].start = breaks[b].start
         /\ breaks[b].status = "completed" => breaks'[b].status = "completed"
  <2>1. \A b \in DOMAIN breaks : breaks[b] \in BreakRow
    BY DEF TypeOK
  <2>2. CASE \E e \in DOMAIN entry, type \in BreakType : StartBreak(u, c, e, type, t)
    <3>1. PICK b \in BreakId \ DOMAIN breaks :
            /\ DOMAIN breaks' = DOMAIN breaks \cup {b}
            /\ \A x \in DOMAIN breaks : breaks'[x] = breaks[x]
      BY <2>2 DEF StartBreak
    <3>2. QED
      BY <2>1, <3>1
  <2>3. CASE \E b \in DOMAIN breaks : EndBreak(u, c, b, t)
    <3>1. PICK b \in DOMAIN breaks :
            breaks' = [breaks EXCEPT ![b].end = t, ![b].status = "completed"]
      BY <2>3 DEF EndBreak
    <3>2. breaks'[b] = [breaks[b] EXCEPT !.end = t, !.status = "completed"]
      BY <3>1
    <3>3. QED
      BY <2>1, <3>1, <3>2 DEF BreakRow
  <2>4. QED
    BY <2>2, <2>3
<1>3. \A b \in DOMAIN breaks' \ DOMAIN breaks :
         \A e \in DOMAIN entry : breaks'[b].entry = e => entry[e].punchOut = None
  <2>1. CASE \E e \in DOMAIN entry, type \in BreakType : StartBreak(u, c, e, type, t)
    BY <2>1 DEF StartBreak
  <2>2. CASE \E b \in DOMAIN breaks : EndBreak(u, c, b, t)
    BY <2>2 DEF EndBreak
  <2>3. QED
    BY <2>1, <2>2
<1>4. CompletedHasEnd'
  BY <1>1 DEF CompletedHasEnd
<1>5. ASSUME NEW e \in DOMAIN entry', entry'[e].status = "completed"
      PROVE  /\ entry'[e].punchOut > entry'[e].punchIn
             /\ entry'[e].gross = entry'[e].punchOut - entry'[e].punchIn
             /\ entry'[e].deducted \subseteq Deductible(breaks', e)
             /\ \A b \in DOMAIN breaks' :
                  (/\ breaks'[b].entry = e
                   /\ breaks'[b].type \in UnpaidBreakTypes
                   /\ breaks'[b].start < entry'[e].punchOut) => b \in entry'[e].deducted
  <2>1. \A b \in DOMAIN breaks' \ DOMAIN breaks : breaks'[b].entry # e
    BY <1>1, <1>3, <1>5 DEF CompletedHasEnd
  <2>2. QED
    BY <1>1, <1>2, <1>5, <2>1, MinutesStayRight
<1>6. QED
  BY <1>4, <1>5 DEF MinutesMatchBreaks

\* punchIn opens a row, which has no minutes yet, and no break.
LEMMA PunchInIsRight ==
    ASSUME TypeOK, MinutesMatchBreaks, CompletedHasEnd,
           NEW u \in User, NEW c \in ClientId, NEW t \in Stamp, PunchIn(u, c, t)
    PROVE  MinutesMatchBreaks' /\ CompletedHasEnd'
<1>1. PICK n \in EntryId \ DOMAIN entry :
        entry' = [x \in DOMAIN entry \cup {n} |->
                    IF x = n THEN NewEntry(u, t) ELSE entry[x]]
  BY DEF PunchIn, InsertEntry
<1>2. entry'[n].status = "in_progress"
  BY <1>1 DEF NewEntry
<1>3. \A e \in DOMAIN entry' : entry'[e].status = "completed" =>
         e \in DOMAIN entry /\ entry'[e] = entry[e]
  BY <1>1, <1>2
<1>4. breaks' = breaks
  BY DEF PunchIn, InsertEntry
<1>5. QED
  BY <1>3, <1>4 DEF MinutesMatchBreaks, CompletedHasEnd

(* Whoever closes an entry, and whatever happens to its breaks around the  *)
(* close, it pays the time between its instants less its unpaid breaks.    *)
THEOREM PayableMinutesAreRight == Spec => []MinutesMatchBreaks
<1>1. Init => MinutesMatchBreaks /\ CompletedHasEnd
  BY DEF Init, MinutesMatchBreaks, CompletedHasEnd
<1>2. ASSUME TypeOK, TypeOK', MinutesMatchBreaks, CompletedHasEnd, [Next]_ttVars
      PROVE  MinutesMatchBreaks' /\ CompletedHasEnd'
  <2>1. CASE Tick \/ UNCHANGED ttVars
    BY <1>2, <2>1 DEF Tick, ttVars, MinutesMatchBreaks, CompletedHasEnd
  <2>2. CASE Request
    BY <1>2, <2>2, PunchInIsRight, PunchOutIsRight, BreakIsRight DEF Request
  <2>3. CASE AutoClockOut
    BY <1>2, <2>3, AutoClockOutIsRight
  <2>4. QED
    BY <1>2, <2>1, <2>2, <2>3 DEF Next
<1>3. QED
  BY <1>1, <1>2, TypeCorrect, PTL DEF Spec

-----------------------------------------------------------------------------
(* The log.                                                                *)

Punches == {"punch_in", "punch_out"}

(* Events of punches are about entries there are: the id of a new row has  *)
(* no past in the log.                                                     *)
PunchesHaveEntries ==
    \A ev \in events : ev.type \in Punches => ev.entry \in DOMAIN entry

LogInv == ProjectionMatchesLog /\ PunchesHaveEntries

(* What publishTimeEvent adds is no second event of a worker's client id.  *)
LEMMA PublishOnce ==
    ASSUME ProjectionMatchesLog, NEW new, Publish(new),
           \A v, w \in new : v.client # None => v = w
    PROVE  \A v, w \in events' :
              v.user = w.user /\ v.client = w.client /\ v.client # None => v = w
<1>1. \A v, w \in events :
         v.user = w.user /\ v.client = w.client /\ v.client # None => v = w
  BY DEF ProjectionMatchesLog
<1>2. \A v \in events' : v \in events \/ (v \in new /\ (v.client = None \/ ~Processed(v.user, v.client)))
  BY DEF Publish
<1>3. QED
  BY <1>1, <1>2 DEF Processed

(* A step that leaves the events of punches of an entry, and its row,      *)
(* alone.                                                                  *)
LEMMA LogStaysRight ==
    ASSUME ProjectionMatchesLog, NEW e \in DOMAIN entry,
           e \in DOMAIN entry', entry'[e] = entry[e],
           events \subseteq events',
           \A ev \in events' \ events : ev.type \in Punches => ev.entry # e
    PROVE  /\ \E ev \in events' :
                 /\ EventsOf("punch_in", e)' = {ev}
                 /\ ev.user = entry'[e].user
                 /\ ev.at = entry'[e].punchIn
           /\ entry'[e].status = "in_progress" => EventsOf("punch_out", e)' = {}
           /\ entry'[e].status = "completed" =>
                 \E ev \in events' :
                    /\ EventsOf("punch_out", e)' = {ev}
                    /\ ev.user = entry'[e].user
                    /\ ev.at = entry'[e].punchOut
<1>1. EventsOf("punch_in", e)' = EventsOf("punch_in", e)
  BY DEF EventsOf, Punches
<1>2. EventsOf("punch_out", e)' = EventsOf("punch_out", e)
  BY DEF EventsOf, Punches
<1>3. QED
  BY <1>1, <1>2 DEF ProjectionMatchesLog

\* The step closes these entries, with one punch_out event each at its end.
ClosesWith(closed, new) ==
    /\ closed \subseteq DOMAIN entry
    /\ DOMAIN entry' = DOMAIN entry
    /\ \A e \in DOMAIN entry \ closed : entry'[e] = entry[e]
    /\ \A e \in closed :
          /\ IsOpen(e)
          /\ entry'[e].user = entry[e].user
          /\ entry'[e].punchIn = entry[e].punchIn
          /\ entry'[e].status = "completed"
    /\ events' = events \cup new
    /\ \A v \in new :
          /\ v.type = "punch_out"
          /\ v.entry \in closed
          /\ v.user = entry[v.entry].user
          /\ v.at = entry'[v.entry].punchOut
    /\ \A e \in closed : \E v \in new : \A w \in new : w.entry = e <=> w = v

(* Entries that are closed with one punch_out event each, at their end,    *)
(* leave the projection and the log in agreement.                          *)
LEMMA ClosingIsLogged ==
    ASSUME LogInv, NEW closed, NEW new, ClosesWith(closed, new),
           \A v, w \in events' :
              v.user = w.user /\ v.client = w.client /\ v.client # None => v = w
    PROVE  LogInv'
<1> USE DEF ClosesWith
<1>1. PunchesHaveEntries'
  BY DEF LogInv, PunchesHaveEntries
<1>2. ASSUME NEW e \in DOMAIN entry'
      PROVE  /\ \E ev \in events' :
                   /\ EventsOf("punch_in", e)' = {ev}
                   /\ ev.user = entry'[e].user
                   /\ ev.at = entry'[e].punchIn
             /\ entry'[e].status = "in_progress" => EventsOf("punch_out", e)' = {}
             /\ entry'[e].status = "completed" =>
                   \E ev \in events' :
                      /\ EventsOf("punch_out", e)' = {ev}
                      /\ ev.user = entry'[e].user
                      /\ ev.at = entry'[e].punchOut
  <2>1. CASE e \notin closed
    <3>1. \A ev \in events' \ events : ev.entry # e
      BY <2>1
    <3>2. QED
      BY <2>1, <3>1, LogStaysRight DEF LogInv
  <2>2. CASE e \in closed
    <3>1. EventsOf("punch_in", e)' = EventsOf("punch_in", e)
      BY DEF EventsOf
    <3>2. EventsOf("punch_out", e) = {}
      BY <2>2 DEF LogInv, ProjectionMatchesLog, IsOpen
    <3>3. PICK v \in new : \A w \in new : w.entry = e <=> w = v
      BY <2>2
    <3>4. EventsOf("punch_out", e)' = {v}
      BY <3>2, <3>3 DEF EventsOf
    <3>5. \E ev \in events' :
             /\ EventsOf("punch_in", e)' = {ev}
             /\ ev.user = entry'[e].user
             /\ ev.at = entry'[e].punchIn
      BY <2>2, <3>1 DEF LogInv, ProjectionMatchesLog
    <3>6. QED
      BY <2>2, <3>3, <3>4, <3>5
  <2>3. QED
    BY <2>1, <2>2
<1>3. ProjectionMatchesLog'
  BY <1>2 DEF ProjectionMatchesLog
<1>4. QED
  BY <1>1, <1>3 DEF LogInv

\* punchIn logs the event of the row it inserts.
LEMMA PunchInIsLogged ==
    ASSUME TypeOK, LogInv, NEW u \in User, NEW c \in ClientId, NEW t \in Stamp,
           PunchIn(u, c, t)
    PROVE  LogInv'
<1>1. PICK n \in EntryId \ DOMAIN entry :
        /\ entry' = [x \in DOMAIN entry \cup {n} |->
                        IF x = n THEN NewEntry(u, t) ELSE entry[x]]
        /\ Publish({Event("punch_in", u, n, c, t)})
  BY DEF PunchIn, InsertEntry
<1> DEFINE ev == Event("punch_in", u, n, c, t)
<1>2. /\ ev.type = "punch_in" /\ ev.entry = n /\ ev.user = u
      /\ ev.client = c /\ ev.at = t
  BY DEF Event
<1>3. events' = events \cup {ev}
  BY <1>1, <1>2 DEF Publish, PunchIn
<1>4. \A v, w \in events' :
         v.user = w.user /\ v.client = w.client /\ v.client # None => v = w
  BY <1>1, PublishOnce DEF LogInv
<1> HIDE DEF ev
<1>5. DOMAIN entry' = DOMAIN entry \cup {n} /\ \A e \in DOMAIN entry : entry'[e] = entry[e]
  BY <1>1
<1>6. PunchesHaveEntries'
  BY <1>2, <1>3, <1>5 DEF LogInv, PunchesHaveEntries
<1>7. ASSUME NEW e \in DOMAIN entry'
      PROVE  /\ \E v \in events' :
                   /\ EventsOf("punch_in", e)' = {v}
                   /\ v.user = entry'[e].user
                   /\ v.at = entry'[e].punchIn
             /\ entry'[e].status = "in_progress" => EventsOf("punch_out", e)' = {}
             /\ entry'[e].status = "completed" =>
                   \E v \in events' :
                      /\ EventsOf("punch_out", e)' = {v}
                      /\ v.user = entry'[e].user
                      /\ v.at = entry'[e].punchOut
  <2>1. CASE e \in DOMAIN entry
    BY <1>2, <1>3, <1>5, <2>1, LogStaysRight DEF LogInv
  <2>2. CASE e = n
    <3>1. entry'[n] = NewEntry(u, t)
      BY <1>1
    <3>2. entry'[n].user = u /\ entry'[n].punchIn = t /\ entry'[n].status = "in_progress"
      BY <3>1 DEF NewEntry
    <3>3. EventsOf("punch_in", n)' = {ev}
      BY <1>2, <1>3 DEF LogInv, PunchesHaveEntries, EventsOf, Punches
    <3>4. EventsOf("punch_out", n)' = {}
      BY <1>2, <1>3 DEF LogInv, PunchesHaveEntries, EventsOf, Punches
    <3>5. QED
      BY <1>2, <1>3, <2>2, <3>2, <3>3, <3>4
  <2>3. QED
    BY <1>5, <2>1, <2>2
<1>8. ProjectionMatchesLog'
  BY <1>4, <1>7 DEF ProjectionMatchesLog
<1>9. QED
  BY <1>6, <1>8 DEF LogInv

\* punchOut logs the event of the row it completes.
LEMMA PunchOutIsLogged ==
    ASSUME TypeOK, LogInv, NEW u \in User, NEW c \in ClientId, NEW t \in Stamp,
           PunchOut(u, c, t)
    PROVE  LogInv'
<1>1. PICK e \in DOMAIN entry :
        /\ CurrentOpenEntry(u, e)
        /\ entry' = [entry EXCEPT ![e] = ClosedRow(@, t, Deductible(breaks', e))]
        /\ Publish({Event("punch_out", u, e, c, t)})
  BY DEF PunchOut
<1>2. IsOpen(e) /\ entry[e].user = u /\ entry[e] \in EntryRow
  BY <1>1 DEF CurrentOpenEntry, OpenEntries, TypeOK
<1>3. /\ entry'[e].user = entry[e].user
      /\ entry'[e].punchIn = entry[e].punchIn
      /\ entry'[e].punchOut = t
      /\ entry'[e].status = "completed"
  BY <1>1, <1>2 DEF ClosedRow, EntryRow
<1>4. DOMAIN entry' = DOMAIN entry /\ \A x \in DOMAIN entry \ {e} : entry'[x] = entry[x]
  BY <1>1
<1> DEFINE new == {Event("punch_out", u, e, c, t)}
<1>5. \A v \in new : /\ v.type = "punch_out" /\ v.entry = e /\ v.user = u
                     /\ v.client = c /\ v.at = t
  BY DEF Event
<1>6. events' = events \cup new
  BY <1>1, <1>5 DEF Publish, PunchOut
<1>7. \A v, w \in events' :
         v.user = w.user /\ v.client = w.client /\ v.client # None => v = w
  BY <1>1, PublishOnce DEF LogInv
<1>8. \A x \in {e} : \E v \in new : \A w \in new : w.entry = x <=> w = v
  BY <1>5
<1> HIDE DEF new
<1>9. \A v \in new :
         /\ v.type = "punch_out" /\ v.entry \in {e}
         /\ v.user = entry[v.entry].user /\ v.at = entry'[v.entry].punchOut
  BY <1>2, <1>3, <1>5
<1>10. ClosesWith({e}, new)
  BY <1>2, <1>3, <1>4, <1>6, <1>8, <1>9 DEF ClosesWith
<1>11. QED
  BY <1>7, <1>10, ClosingIsLogged

\* The sweep logs an event for each row it closes.
LEMMA AutoClockOutIsLogged ==
    ASSUME TypeOK, LogInv, AutoClockOut
    PROVE  LogInv'
<1>1. PICK batch \in SweepBatches :
        /\ entry' = [e \in DOMAIN entry |->
              IF e \in batch
              THEN [ClosedRow(entry[e], AutoClockOutAt(e), Deductible(breaks', e))
                      EXCEPT !.autoClosed = TRUE]
              ELSE entry[e]]
        /\ Publish({Event("punch_out", entry[e].user, e, None, AutoClockOutAt(e)) : e \in batch})
  BY DEF AutoClockOut
<1> DEFINE of(x) == Event("punch_out", entry[x].user, x, None, AutoClockOutAt(x))
           new == {of(x) : x \in batch}
<1>2. batch \in SUBSET DOMAIN entry /\ \A e \in batch : IsOpen(e)
  BY DEF SweepBatches, StaleEntries
<1>3. ASSUME NEW e \in batch
      PROVE  /\ entry'[e].user = entry[e].user
             /\ entry'[e].punchIn = entry[e].punchIn
             /\ entry'[e].punchOut = AutoClockOutAt(e)
             /\ entry'[e].status = "completed"
  <2>1. entry[e] \in EntryRow
    BY <1>2 DEF TypeOK
  <2>2. entry'[e] = [ClosedRow(entry[e], AutoClockOutAt(e), Deductible(breaks', e))
                       EXCEPT !.autoClosed = TRUE]
    BY <1>1, <1>2
  <2>3. QED
    BY <2>1, <2>2 DEF ClosedRow, EntryRow
<1>4. \A e \in batch :
         /\ of(e).type = "punch_out" /\ of(e).entry = e /\ of(e).user = entry[e].user
         /\ of(e).client = None /\ of(e).at = AutoClockOutAt(e)
  BY DEF Event
<1>5. events' = events \cup new
  BY <1>1, <1>4 DEF Publish
<1>6. \A v, w \in new : v.client # None => v = w
  BY <1>4
<1>7. \A v, w \in events' :
         v.user = w.user /\ v.client = w.client /\ v.client # None => v = w
  BY <1>1, <1>6, PublishOnce DEF LogInv
<1>8. DOMAIN entry' = DOMAIN entry /\ \A x \in DOMAIN entry \ batch : entry'[x] = entry[x]
  BY <1>1
<1> HIDE DEF of
<1>9. \A e \in batch : \E v \in new : \A w \in new : w.entry = e <=> w = v
  BY <1>4
<1>10. \A v \in new :
          /\ v.type = "punch_out" /\ v.entry \in batch
          /\ v.user = entry[v.entry].user /\ v.at = entry'[v.entry].punchOut
  BY <1>3, <1>4
<1> HIDE DEF new
<1>11. ClosesWith(batch, new)
  BY <1>2, <1>3, <1>5, <1>8, <1>9, <1>10 DEF ClosesWith
<1>12. QED
  BY <1>7, <1>11, ClosingIsLogged

\* Breaks leave every row, and its events, as they are.
LEMMA BreakIsLogged ==
    ASSUME LogInv, NEW u \in User, NEW c \in ClientId, NEW t \in Stamp,
           \/ \E e \in DOMAIN entry, type \in BreakType : StartBreak(u, c, e, type, t)
           \/ \E b \in DOMAIN breaks : EndBreak(u, c, b, t)
    PROVE  LogInv'
<1>1. PICK ev : /\ Publish({ev})
                /\ ev.type \notin Punches
                /\ entry' = entry
  BY DEF StartBreak, EndBreak, Event, Punches
<1>2. events \subseteq events' /\ events' \subseteq events \cup {ev}
  BY <1>1, PublishAdds
<1>3. PunchesHaveEntries'
  BY <1>1, <1>2 DEF LogInv, PunchesHaveEntries
<1>4. \A v, w \in events' :
         v.user = w.user /\ v.client = w.client /\ v.client # None => v = w
  BY <1>1, PublishOnce DEF LogInv
<1>5. \A e \in DOMAIN entry :
         /\ \E v \in events' :
               /\ EventsOf("punch_in", e)' = {v}
               /\ v.user = entry'[e].user
               /\ v.at = entry'[e].punchIn
         /\ entry'[e].status = "in_progress" => EventsOf("punch_out", e)' = {}
         /\ entry'[e].status = "completed" =>
               \E v \in events' :
                  /\ EventsOf("punch_out", e)' = {v}
                  /\ v.user = entry'[e].user
                  /\ v.at = entry'[e].punchOut
  BY <1>1, <1>2, LogStaysRight DEF LogInv
<1>6. ProjectionMatchesLog'
  BY <1>1, <1>4, <1>5 DEF ProjectionMatchesLog
<1>7. QED
  BY <1>3, <1>6 DEF LogInv

(* The projection is the log's: every entry was begun by one event and,    *)
(* if it is completed, ended by one, whatever is replayed.                 *)
THEOREM ProjectionIsTheLog == Spec => []ProjectionMatchesLog
<1>1. Init => LogInv
  BY DEF Init, LogInv, ProjectionMatchesLog, PunchesHaveEntries
<1>2. ASSUME TypeOK, LogInv, [Next]_ttVars
      PROVE  LogInv'
  <2>1. CASE Tick \/ UNCHANGED ttVars
    BY <1>2, <2>1 DEF Tick, ttVars, LogInv, ProjectionMatchesLog, PunchesHaveEntries, EventsOf
  <2>2. CASE Request
    BY <1>2, <2>2, PunchInIsLogged, PunchOutIsLogged, BreakIsLogged DEF Request
  <2>3. CASE AutoClockOut
    BY <1>2, <2>3, AutoClockOutIsLogged
  <2>4. QED
    BY <1>2, <2>1, <2>2, <2>3 DEF Next
<1>3. QED
  BY <1>1, <1>2, TypeCorrect, PTL DEF Spec, LogInv

-----------------------------------------------------------------------------
(* The tables implement TimeClock: what each step does to the shifts read  *)
(* off the entries.                                                        *)

RunningShift(e) == [shift |-> e, user |-> entry[e].user, from |-> entry[e].punchIn]

(* When no entry is added, a step that ends the open entries in closed and *)
(* leaves every other row alone is the abstract end of their shifts.       *)
LEMMA CloseIsClockOut ==
    ASSUME TypeOK, TypeOK', NEW closed \in SUBSET DOMAIN entry, closed # {},
           DOMAIN entry' = DOMAIN entry,
           \A e \in DOMAIN entry \ closed : entry'[e] = entry[e],
           \A e \in closed :
              /\ IsOpen(e)
              /\ entry'[e].user = entry[e].user
              /\ entry'[e].punchIn = entry[e].punchIn
              /\ entry'[e].punchOut \in Instant
              /\ entry'[e].punchOut > entry[e].punchIn
              /\ entry'[e].status = "completed"
    PROVE  Clock!Next
<1> DEFINE ended == {RunningShift(e) : e \in closed}
           at == [r \in ended |-> entry'[r.shift].punchOut]
<1>1. ended \subseteq Running
  BY DEF Running, RunningShift
<1>2. ended # {}
  OBVIOUS
<1>3. \A e \in closed : at[RunningShift(e)] = entry'[e].punchOut
  BY DEF RunningShift
<1>4. at \in [ended -> Instant]
  <2>1. ASSUME NEW r \in ended
        PROVE  entry'[r.shift].punchOut \in Instant
    BY DEF RunningShift
  <2>2. QED
    BY <2>1
<1>5. \A r \in ended : at[r] > r.from
  BY <1>3 DEF RunningShift
<1>6. \A e \in closed : ~(entry'[e].punchOut = None /\ entry'[e].status = "in_progress")
  BY TimeTrackingAssumption
<1>7. Running' = Running \ ended
  <2>1. ASSUME NEW r \in Running'
        PROVE  r \in Running \ ended
    <3>1. PICK e \in DOMAIN entry :
             /\ r = [shift |-> e, user |-> entry'[e].user, from |-> entry'[e].punchIn]
             /\ entry'[e].punchOut = None /\ entry'[e].status = "in_progress"
      BY <2>1 DEF Running, IsOpen
    <3>2. e \notin closed
      BY <1>6, <3>1
    <3>3. r = RunningShift(e) /\ IsOpen(e)
      BY <3>1, <3>2 DEF RunningShift, IsOpen
    <3>4. r \notin ended
      BY <3>2, <3>3 DEF RunningShift
    <3>5. QED
      BY <3>3, <3>4 DEF Running, RunningShift
  <2>2. ASSUME NEW r \in Running \ ended
        PROVE  r \in Running'
    <3>1. PICK e \in DOMAIN entry : r = RunningShift(e) /\ IsOpen(e)
      BY <2>2 DEF Running, RunningShift
    <3>2. e \notin closed
      BY <2>2, <3>1
    <3>3. entry'[e] = entry[e]
      BY <3>2
    <3>4. QED
      BY <3>1, <3>3 DEF Running, RunningShift, IsOpen
  <2>3. QED
    BY <2>1, <2>2
<1>8. Ledger' = Ledger \cup {Clock!Settled(r, at[r]) : r \in ended}
  <2>1. \A e \in closed :
           Clock!Settled(RunningShift(e), at[RunningShift(e)]) =
             [shift |-> e, user |-> entry'[e].user,
              from |-> entry'[e].punchIn, to |-> entry'[e].punchOut]
    BY <1>3 DEF Clock!Settled, RunningShift
  <2>2. \A e \in closed : entry[e].status # "completed"
    BY DEF IsOpen
  <2>3. ASSUME NEW r \in Ledger'
        PROVE  r \in Ledger \cup {Clock!Settled(q, at[q]) : q \in ended}
    <3>1. PICK e \in DOMAIN entry :
             /\ r = [shift |-> e, user |-> entry'[e].user,
                     from |-> entry'[e].punchIn, to |-> entry'[e].punchOut]
             /\ entry'[e].status = "completed"
      BY <2>3 DEF Ledger
    <3>2. CASE e \in closed
      BY <2>1, <3>1, <3>2
    <3>3. CASE e \notin closed
      BY <3>1, <3>3 DEF Ledger
    <3>4. QED
      BY <3>2, <3>3
  <2>4. ASSUME NEW r \in Ledger
        PROVE  r \in Ledger'
    <3>1. PICK e \in DOMAIN entry :
             /\ r = [shift |-> e, user |-> entry[e].user,
                     from |-> entry[e].punchIn, to |-> entry[e].punchOut]
             /\ entry[e].status = "completed"
      BY <2>4 DEF Ledger
    <3>2. entry'[e] = entry[e]
      BY <2>2, <3>1
    <3>3. QED
      BY <3>1, <3>2 DEF Ledger
  <2>5. ASSUME NEW q \in ended
        PROVE  Clock!Settled(q, at[q]) \in Ledger'
    <3>1. PICK e \in closed : q = RunningShift(e)
      OBVIOUS
    <3>2. QED
      BY <2>1, <3>1 DEF Ledger
  <2>6. QED
    BY <2>3, <2>4, <2>5
<1>9. Clock!ClockOut(ended, at)
  BY <1>5, <1>7, <1>8 DEF Clock!ClockOut
<1> HIDE DEF ended, at
<1>10. QED
  BY <1>1, <1>2, <1>4, <1>9 DEF Clock!Next

\* punchIn is the abstract clock-in of its worker.
LEMMA PunchInIsClockIn ==
    ASSUME TypeOK, NEW u \in User, NEW c \in ClientId, NEW t \in Stamp, PunchIn(u, c, t)
    PROVE  Clock!Next
<1>1. t \in Instant
  BY TimeTrackingAssumption DEF Instant
<1>2. PICK n \in EntryId \ DOMAIN entry :
        entry' = [x \in DOMAIN entry \cup {n} |->
                    IF x = n THEN NewEntry(u, t) ELSE entry[x]]
  BY DEF PunchIn, InsertEntry
<1>3. \A r \in Running : r.user # u
  BY DEF PunchIn, Running, OpenEntries
<1>4. n \notin Clock!Used
  BY <1>2 DEF Clock!Used, Running, Ledger
<1>5. Running' = Running \cup {[shift |-> n, user |-> u, from |-> t]}
  BY <1>2 DEF Running, IsOpen, NewEntry
<1>6. Ledger' = Ledger
  BY <1>2 DEF Ledger, NewEntry
<1>7. QED
  BY <1>1, <1>3, <1>4, <1>5, <1>6 DEF Clock!ClockIn, Clock!Next

\* punchOut is the abstract clock-out of its worker's running shift.
LEMMA PunchOutIsClockOut ==
    ASSUME TypeOK, TypeOK', NEW u \in User, NEW c \in ClientId, NEW t \in Stamp,
           PunchOut(u, c, t)
    PROVE  Clock!Next
<1>1. t \in Instant
  BY TimeTrackingAssumption DEF Instant
<1>2. PICK e \in DOMAIN entry :
        /\ CurrentOpenEntry(u, e)
        /\ t > entry[e].punchIn
        /\ entry' = [entry EXCEPT ![e] = ClosedRow(@, t, Deductible(breaks', e))]
  BY DEF PunchOut
<1>3. IsOpen(e) /\ entry[e] \in EntryRow
  BY <1>2 DEF CurrentOpenEntry, OpenEntries, TypeOK
<1>4. /\ entry'[e].user = entry[e].user
      /\ entry'[e].punchIn = entry[e].punchIn
      /\ entry'[e].punchOut = t
      /\ entry'[e].status = "completed"
  BY <1>2, <1>3 DEF ClosedRow, EntryRow
<1>5. DOMAIN entry' = DOMAIN entry /\ \A x \in DOMAIN entry \ {e} : entry'[x] = entry[x]
  BY <1>2
<1> DEFINE closed == {e}
<1>6. closed \in SUBSET DOMAIN entry /\ closed # {}
  BY <1>2
<1>7. \A x \in closed :
         /\ IsOpen(x)
         /\ entry'[x].user = entry[x].user
         /\ entry'[x].punchIn = entry[x].punchIn
         /\ entry'[x].punchOut \in Instant
         /\ entry'[x].punchOut > entry[x].punchIn
         /\ entry'[x].status = "completed"
  BY <1>1, <1>2, <1>3, <1>4
<1>8. DOMAIN entry' = DOMAIN entry /\ \A x \in DOMAIN entry \ closed : entry'[x] = entry[x]
  BY <1>5
<1> HIDE DEF closed
<1>9. QED
  BY <1>6, <1>7, <1>8, CloseIsClockOut

\* The sweep is the abstract clock-out of every shift it closes.
LEMMA SweepIsClockOut ==
    ASSUME TypeOK, TypeOK', AutoClockOut
    PROVE  Clock!Next
<1>1. PICK batch \in SweepBatches :
        entry' = [e \in DOMAIN entry |->
              IF e \in batch
              THEN [ClosedRow(entry[e], AutoClockOutAt(e), Deductible(breaks', e))
                      EXCEPT !.autoClosed = TRUE]
              ELSE entry[e]]
  BY DEF AutoClockOut
<1>2. batch \subseteq StaleEntries /\ batch # {}
  BY DEF SweepBatches
<1>3. batch \subseteq DOMAIN entry /\ \A e \in batch : IsOpen(e)
  BY <1>2 DEF StaleEntries
<1>4. ASSUME NEW e \in batch
      PROVE  /\ entry'[e].user = entry[e].user
             /\ entry'[e].punchIn = entry[e].punchIn
             /\ entry'[e].punchOut \in Instant
             /\ entry'[e].punchOut > entry[e].punchIn
             /\ entry'[e].status = "completed"
  <2>1. /\ AutoClockOutAt(e) \in Instant
        /\ AutoClockOutAt(e) > entry[e].punchIn
    BY <1>2, StaleInstant
  <2>2. entry[e] \in EntryRow
    BY <1>3 DEF TypeOK
  <2>3. entry'[e] = [ClosedRow(entry[e], AutoClockOutAt(e), Deductible(breaks', e))
                       EXCEPT !.autoClosed = TRUE]
    BY <1>1, <1>3
  <2>4. QED
    BY <2>1, <2>2, <2>3 DEF ClosedRow, EntryRow
<1>5. DOMAIN entry' = DOMAIN entry /\ \A x \in DOMAIN entry \ batch : entry'[x] = entry[x]
  BY <1>1
<1>6. QED
  BY <1>2, <1>3, <1>4, <1>5, CloseIsClockOut

(* A step of the punch, break and sweep code is a step of the time clock   *)
(* or does not show.                                                       *)
LEMMA NextIsClockNext ==
    ASSUME TypeOK, TypeOK', [Next]_ttVars
    PROVE  Clock!Next \/ UNCHANGED <<Running, Ledger>>
<1>1. CASE UNCHANGED entry
  BY <1>1 DEF Running, Ledger, IsOpen
<1>2. CASE AutoClockOut
  BY <1>2, SweepIsClockOut
<1>3. CASE Request
  <2>1. PICK u \in User, c \in ClientId, t \in Stamp :
          \/ PunchIn(u, c, t)
          \/ PunchOut(u, c, t)
          \/ \E e \in DOMAIN entry, type \in BreakType : StartBreak(u, c, e, type, t)
          \/ \E b \in DOMAIN breaks : EndBreak(u, c, b, t)
    BY <1>3 DEF Request
  <2>2. CASE PunchIn(u, c, t)
    BY <2>2, PunchInIsClockIn
  <2>3. CASE PunchOut(u, c, t)
    BY <2>3, PunchOutIsClockOut
  <2>4. CASE \/ \E e \in DOMAIN entry, type \in BreakType : StartBreak(u, c, e, type, t)
             \/ \E b \in DOMAIN breaks : EndBreak(u, c, b, t)
    BY <1>1, <2>4 DEF StartBreak, EndBreak
  <2>5. QED
    BY <2>1, <2>2, <2>3, <2>4
<1>4. CASE Tick \/ UNCHANGED ttVars
  BY <1>1, <1>4 DEF Tick, ttVars
<1>5. QED
  BY <1>2, <1>3, <1>4 DEF Next

(* The tables implement the time clock: whatever the workers, replays and  *)
(* sweeps do, the open rows are one running shift each, at most one per    *)
(* worker, and the completed rows a ledger that only grows.                *)
THEOREM TimeTrackingImplementsTimeClock == Spec => ImplementsTimeClock
<1>1. Init => Clock!Init
  BY DEF Init, Clock!Init, Running, Ledger
<1>2. TypeOK /\ TypeOK' /\ [Next]_ttVars => [Clock!Next]_<<Running, Ledger>>
  BY NextIsClockNext
<1>3. QED
  BY <1>1, <1>2, TypeCorrect, PTL DEF Spec, ImplementsTimeClock, Clock!Spec, Clock!clockVars
=============================================================================
