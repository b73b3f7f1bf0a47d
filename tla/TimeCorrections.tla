-------------------------- MODULE TimeCorrections --------------------------
(***************************************************************************)
(* Retroactive changes to the time record, beside the live time clock:     *)
(* correction requests and their decision, a manager's direct create, edit *)
(* and removal of entries, and the locking of pay periods that guards all  *)
(* of them.                                                                *)
(*                                                                         *)
(*   request  time_correction_requests, a partial function on RequestId;   *)
(*   locked   the pay periods whose pay_periods row says 'locked'.         *)
(*                                                                         *)
(* Pay periods are blocks of PeriodLength instants; the calendar itself,   *)
(* in services/pay-period.service.ts, is not needed here.  As in           *)
(* TimeTracking, a handler is one action and a refused one is no step.     *)
(* The audit rows and e-mails record what is here; the server's time in    *)
(* the event of a retroactive change is left out.                          *)
(***************************************************************************)
EXTENDS TimeTracking

CONSTANTS
    Manager,            \* users who may decide requests and edit entries; a
                        \* manager who also clocks time is in User too
    RequestId,          \* ids a time_correction_requests row may get
    PeriodLength,       \* instants in a pay period
    CorrectionMaxAge    \* CORRECTION_MAX_AGE_DAYS

ASSUME TimeCorrectionsAssumption ==
    /\ PeriodLength \in Nat \ {0}
    /\ CorrectionMaxAge \in Nat
    /\ None \notin EntryId

VARIABLES request, locked

tcVars == <<entry, breaks, events, now, request, locked>>

MaybeInstant == Instant \cup {None}
MaybeStamp == Stamp \cup {None}

RequestRow ==
    [ user    : User,
      by      : User \cup Manager,
      entry   : EntryId \cup {None},
      type    : {"edit_times", "add_entry", "delete_entry"},
      origIn  : MaybeInstant,
      origOut : MaybeInstant,
      wantIn  : MaybeInstant,
      wantOut : MaybeInstant,
      status  : {"pending", "approved", "rejected", "cancelled"},
      applied : EntryId \cup {None} ]

PeriodOf(t) == t \div PeriodLength
Period == {PeriodOf(t) : t \in Instant}

CorrectionsTypeOK ==
    /\ TypeOK
    /\ DOMAIN request \subseteq RequestId
    /\ request \in [DOMAIN request -> RequestRow]
    /\ locked \subseteq Period

-----------------------------------------------------------------------------
IsLocked(t) == t # None /\ PeriodOf(t) \in locked

\* assertNotInLockedPeriod; NULLs are skipped.
NotInLockedPeriod(ts) == \A t \in ts : ~IsLocked(t)

\* assertWithinCorrectionWindow
WithinCorrectionWindow(t) == now - t <= CorrectionMaxAge

Or(t, fallback) == IF t = None THEN fallback ELSE t

Ordered(in, out) == in # None /\ out # None => out > in

\* The overlap query of applyAddEntry and of the manager's create: an entry
\* without an end stands for the instant it began.
Overlaps(u, in, out) ==
    \E e \in DOMAIN entry :
        /\ entry[e].user = u
        /\ entry[e].status # "deleted"
        /\ out = None \/ entry[e].punchIn < out
        /\ Or(entry[e].punchOut, entry[e].punchIn) > in

\* Mutant of RewrittenRow: recomputeMinutes is not called.
RowNotRecomputed(row, in, out, unpaid) ==
    [row EXCEPT !.punchIn  = in,
                !.punchOut = out,
                !.status   = IF out = None THEN "in_progress" ELSE "completed"]

\* The UPDATE of a retroactive edit followed by recomputeMinutes.
RewrittenRow(row, in, out, unpaid) ==
    [row EXCEPT !.punchIn  = in,
                !.punchOut = out,
                !.status   = IF out = None THEN "in_progress" ELSE "completed",
                !.gross    = IF out = None THEN None ELSE Minutes(in, out),
                !.deducted = unpaid]

\* Mutant of RewriteEntry: a removed entry may still be edited.
RewriteAnyEntry(e, in, out) ==
    /\ Ordered(Or(in, entry[e].punchIn), Or(out, entry[e].punchOut))
    /\ entry' = [entry EXCEPT ![e] =
            RewrittenRow(@, Or(in, @.punchIn), Or(out, @.punchOut), Deductible(breaks, e))]
    /\ Publish({Event("entry_edited", entry[e].user, e, None, None)})
    /\ UNCHANGED <<breaks, now>>

\* applyEditTimes and the manager's PATCH: a missing side is left alone.
\* Running breaks are not closed and other entries are not looked at.
RewriteEntry(e, in, out) ==
    /\ entry[e].status # "deleted"
    /\ Ordered(Or(in, entry[e].punchIn), Or(out, entry[e].punchOut))
    /\ entry' = [entry EXCEPT ![e] =
            RewrittenRow(@, Or(in, @.punchIn), Or(out, @.punchOut), Deductible(breaks, e))]
    /\ Publish({Event("entry_edited", entry[e].user, e, None, None)})
    /\ UNCHANGED <<breaks, now>>

\* Mutant of AddEntry: without the index uniq_time_entries_open_per_user.
AddEntryNoIndex(u, in, out, e) ==
    /\ ~Overlaps(u, in, out)
    /\ Ordered(in, out)
    /\ entry' = [x \in DOMAIN entry \cup {e} |->
            IF x = e THEN RewrittenRow(NewEntry(u, in), in, out, {}) ELSE entry[x]]
    /\ Publish({Event("entry_edited", u, e, None, None)})
    /\ UNCHANGED <<breaks, now>>

\* applyAddEntry and the manager's POST, with the CHECK on the order of the
\* times and the unique index on open entries.
AddEntry(u, in, out, e) ==
    /\ ~Overlaps(u, in, out)
    /\ Ordered(in, out)
    /\ out = None => OpenEntries(u) = {}
    /\ entry' = [x \in DOMAIN entry \cup {e} |->
            IF x = e THEN RewrittenRow(NewEntry(u, in), in, out, {}) ELSE entry[x]]
    /\ Publish({Event("entry_edited", u, e, None, None)})
    /\ UNCHANGED <<breaks, now>>

\* applyDeleteEntry and the manager's DELETE: the row stays, times included.
RemoveEntry(e) ==
    /\ entry[e].status # "deleted"
    /\ entry' = [entry EXCEPT ![e].status = "deleted"]
    /\ Publish({Event("entry_deleted", entry[e].user, e, None, None)})
    /\ UNCHANGED <<breaks, now>>

-----------------------------------------------------------------------------
(***************************************************************************)
(* Correction requests.                                                    *)
(***************************************************************************)
PendingFor(e) == {r \in DOMAIN request :
                    request[r].entry = e /\ request[r].status = "pending"}

InsertRequest(row) ==
    /\ \E r \in RequestId \ DOMAIN request :
        request' = [x \in DOMAIN request \cup {r} |-> IF x = r THEN row ELSE request[x]]
    /\ UNCHANGED <<entry, breaks, events, now, locked>>

\* The row of a request about entry e, with its snapshot of the times.
RequestAbout(by, e, type, in, out) ==
    [user |-> entry[e].user, by |-> by, entry |-> e, type |-> type,
     origIn |-> entry[e].punchIn, origOut |-> entry[e].punchOut,
     wantIn |-> in, wantOut |-> out, status |-> "pending", applied |-> None]

\* createCorrectionRequest about an entry: the caller's own, or anyone's for
\* a manager.
RequestCorrection(by, e, type, in, out) ==
    /\ entry[e].user = by \/ by \in Manager
    /\ entry[e].status # "deleted"
    /\ WithinCorrectionWindow(entry[e].punchIn)
    /\ NotInLockedPeriod({entry[e].punchIn, in, out})
    /\ PendingFor(e) = {}
    /\ InsertRequest(RequestAbout(by, e, type, in, out))

\* createCorrectionRequest for a shift that was never clocked.
RequestMissingShift(u, in, out) ==
    /\ WithinCorrectionWindow(in)
    /\ NotInLockedPeriod({in, out})
    /\ InsertRequest(
          [user |-> u, by |-> u, entry |-> None, type |-> "add_entry",
           origIn |-> None, origOut |-> None, wantIn |-> in, wantOut |-> out,
           status |-> "pending", applied |-> None])

CancelRequest(r) ==
    /\ request[r].status = "pending"
    /\ request' = [request EXCEPT ![r].status = "cancelled"]
    /\ UNCHANGED <<entry, breaks, events, now, locked>>

MayDecide(m, r) == request[r].status = "pending" /\ request[r].by # m

Reject(m, r) ==
    /\ MayDecide(m, r)
    /\ request' = [request EXCEPT ![r].status = "rejected"]
    /\ UNCHANGED <<entry, breaks, events, now, locked>>

\* The applier that the request's type selects; a is the applied entry.
ApplyRequest(r, in, out, a) ==
    \/ /\ request[r].type = "add_entry"
       /\ a \in EntryId \ DOMAIN entry
       /\ AddEntry(request[r].user, in, out, a)
    \/ /\ request[r].type = "delete_entry"
       /\ a = request[r].entry
       /\ RemoveEntry(a)
    \/ /\ request[r].type = "edit_times"
       /\ a = request[r].entry
       /\ RewriteEntry(a, in, out)

\* Mutant of Approve: the lock is not checked again at decision time.
ApproveNoRecheck(m, r, overIn, overOut) ==
    LET in  == Or(overIn, request[r].wantIn)
        out == Or(overOut, request[r].wantOut)
    IN  /\ MayDecide(m, r)
        /\ \E a \in EntryId :
            /\ ApplyRequest(r, in, out, a)
            /\ request' = [request EXCEPT ![r] =
                              [request[r] EXCEPT !.status = "approved", !.applied = a]]
        /\ UNCHANGED locked

(***************************************************************************)
(* decideCorrectionRequest with decision 'approved', and with override     *)
(* times when the manager modifies what was asked.  The lock is checked    *)
(* again, against the times the entry had when the request was filed.      *)
(***************************************************************************)
Approve(m, r, overIn, overOut) ==
    LET in  == Or(overIn, request[r].wantIn)
        out == Or(overOut, request[r].wantOut)
    IN  /\ MayDecide(m, r)
        /\ NotInLockedPeriod({request[r].origIn, request[r].origOut, in, out})
        /\ \E a \in EntryId :
            /\ ApplyRequest(r, in, out, a)
            /\ request' = [request EXCEPT ![r] =
                              [request[r] EXCEPT !.status = "approved", !.applied = a]]
        /\ UNCHANGED locked

-----------------------------------------------------------------------------
(***************************************************************************)
(* A manager's direct changes, and the owner's locks.                      *)
(***************************************************************************)
ManagerCreate(u, in, out) ==
    /\ NotInLockedPeriod({in, out})
    /\ \E e \in EntryId \ DOMAIN entry : AddEntry(u, in, out, e)
    /\ UNCHANGED <<request, locked>>

\* With neither time the edit only changes the notes, and still recomputes.
ManagerEdit(e, in, out) ==
    /\ NotInLockedPeriod({entry[e].punchIn, entry[e].punchOut, in, out})
    /\ RewriteEntry(e, in, out)
    /\ UNCHANGED <<request, locked>>

ManagerRemove(e) ==
    /\ NotInLockedPeriod({entry[e].punchIn, entry[e].punchOut})
    /\ RemoveEntry(e)
    /\ UNCHANGED <<request, locked>>

LockPeriod(p) ==
    /\ p \notin locked
    /\ locked' = locked \cup {p}
    /\ UNCHANGED <<entry, breaks, events, now, request>>

UnlockPeriod(p) ==
    /\ p \in locked
    /\ locked' = locked \ {p}
    /\ UNCHANGED <<entry, breaks, events, now, request>>

-----------------------------------------------------------------------------
CorrectionsInit ==
    /\ Init
    /\ request = [r \in {} |-> None]
    /\ locked = {}

FileOrCancel ==
    \/ \E by \in User \cup Manager, e \in DOMAIN entry, in, out \in MaybeStamp :
        /\ Ordered(in, out)
        /\ {in, out} # {None}
        /\ RequestCorrection(by, e, "edit_times", in, out)
    \/ \E by \in User \cup Manager, e \in DOMAIN entry :
        RequestCorrection(by, e, "delete_entry", None, None)
    \/ \E u \in User, in, out \in Stamp :
        out > in /\ RequestMissingShift(u, in, out)
    \/ \E r \in DOMAIN request : CancelRequest(r)

Decide ==
    \E m \in Manager, r \in DOMAIN request :
        \/ Reject(m, r)
        \/ \E in, out \in MaybeStamp : Ordered(in, out) /\ Approve(m, r, in, out)

DirectEdit ==
    \/ \E u \in User, in \in Stamp, out \in MaybeStamp :
        Ordered(in, out) /\ ManagerCreate(u, in, out)
    \/ \E e \in DOMAIN entry, in, out \in MaybeStamp :
        Ordered(in, out) /\ ManagerEdit(e, in, out)
    \/ \E e \in DOMAIN entry : ManagerRemove(e)

CorrectionsNext ==
    \/ Next /\ UNCHANGED <<request, locked>>
    \/ FileOrCancel
    \/ Decide
    \/ DirectEdit
    \/ \E p \in Period : LockPeriod(p) \/ UnlockPeriod(p)

CorrectionsSpec == CorrectionsInit /\ [][CorrectionsNext]_tcVars

-----------------------------------------------------------------------------
(* Whatever moved its times, a finished entry's gross minutes span them    *)
(* and an unpaid break is deducted only if it is a finished break of the   *)
(* entry (recomputeMinutes, loadUnpaidBreakMinutes).                       *)
MinutesFollowTimes ==
    \A e \in DOMAIN entry :
        /\ entry[e].deducted \subseteq Deductible(breaks, e)
        /\ entry[e].status = "completed" =>
              /\ entry[e].punchOut > entry[e].punchIn
              /\ entry[e].gross = entry[e].punchOut - entry[e].punchIn

(* A removed entry stays out of payroll: neither a punch, nor the sweep,   *)
(* nor a request filed before the removal and approved after it brings it  *)
(* back (applyEditTimes' check, getCurrentOpenEntry's filter).             *)
RemovedStaysRemoved ==
    [][\A e \in DOMAIN entry :
          entry[e].status = "deleted" => entry'[e] = entry[e]]_tcVars

TouchesLocked(row) == IsLocked(row.punchIn) \/ IsLocked(row.punchOut)

\* A step changes what payroll sums otherwise than by a punch or the sweep:
\* it makes a finished entry, changes one, or removes one.
Retroactive(e) ==
    IF e \in DOMAIN entry
    THEN /\ entry'[e] # entry[e]
         /\ entry[e].status = "completed" \/ entry'[e].status = "deleted"
    ELSE entry'[e].status = "completed"

SnapshotIsCurrent(r) ==
    \/ request[r].entry = None
    \/ /\ request[r].origIn = entry[request[r].entry].punchIn
       /\ request[r].origOut = entry[request[r].entry].punchOut

FrozenStep ==
    \A e \in DOMAIN entry' : Retroactive(e) =>
        /\ ~TouchesLocked(entry'[e])
        /\ e \in DOMAIN entry => ~TouchesLocked(entry[e])

(* A locked period keeps its hours: no retroactive change moves an entry   *)
(* out of, into or within one, also when the lock came between filing a    *)
(* request and approving it - provided that pending requests still show    *)
(* the times their entries have (assertNotInLockedPeriod and its callers). *)
LockedPeriodIsFrozen ==
    [][(\A r \in DOMAIN request :
          request[r].status = "pending" => SnapshotIsCurrent(r)) => FrozenStep]_tcVars
=============================================================================
