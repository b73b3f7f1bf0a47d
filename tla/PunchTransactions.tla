------------------------- MODULE PunchTransactions -------------------------
(***************************************************************************)
(* Requests that overlap.  The handlers of TimeTracking, TimeCorrections   *)
(* and the sweep again, for one worker, but statement by statement: every  *)
(* request has a transaction of its own at READ COMMITTED (database.ts,    *)
(* middleware/tenant.ts), so what one statement has read another request   *)
(* may have changed when the next one runs.                                *)
(*                                                                         *)
(*   entry, events  the committed time_entries and time_entry_events;      *)
(*   tx[s]          the request session s is serving: the statement it is  *)
(*                  at, the row it is about, and what it has not committed.*)
(*                                                                         *)
(* Of PostgreSQL: a statement sees what is committed; an UPDATE or SELECT  *)
(* FOR UPDATE waits for the transaction that holds the row, and then sees  *)
(* what that one committed; an INSERT waits for a transaction with a       *)
(* conflicting index entry, and fails if that one commits.  A transaction  *)
(* with a failed statement is rolled back: that goes for publishTimeEvent's*)
(* own handling of a 23505 too, whose SELECT fails in its turn.            *)
(*                                                                         *)
(* Times, minutes and breaks are left out.  A retry repeats the client id  *)
(* and the timestamp of the request it repeats; a client id belongs to one *)
(* kind of request.                                                        *)
(***************************************************************************)
EXTENDS Integers, FiniteSets

CONSTANTS
    Session,     \* connections of the pool
    EntryId,     \* ids a time_entries row may get
    PunchInId,   \* clientGeneratedId values of punch-in requests
    PunchOutId,  \* clientGeneratedId values of punch-out requests
    None         \* SQL NULL

ClientId == PunchInId \cup PunchOutId

ASSUME PunchTransactionsAssumption ==
    /\ PunchInId \cap PunchOutId = {}
    /\ ClientId \cap {"sweep", "manager"} = {}
    /\ None \notin EntryId \cup ClientId \cup {"sweep", "manager"}

VARIABLES entry, events, tx

ptVars == <<entry, events, tx>>

\* by: who gave the row the end it has.
Row == [ status     : {"in_progress", "completed", "deleted"},
         by         : ClientId \cup {"sweep", "manager", None},
         autoClosed : BOOLEAN ]

LogRow == [ type   : {"punch_in", "punch_out", "entry_edited", "entry_deleted"},
            entry  : EntryId,
            client : ClientId \cup {None} ]

ASSUME NoneIsNoRow == None \notin Row \cup LogRow

Operation == {"punchIn", "punchOut", "sweep", "remove", "edit"}
Statement == {"none", "lookup", "open", "insert", "find", "read", "lock",
              "update", "publish", "append", "commit"}

Tx == [ op     : Operation,
        at     : Statement,
        client : ClientId \cup {None},
        target : EntryId \cup {None},
        holds  : BOOLEAN,                 \* the lock on the target's row
        write  : Row \cup {None},
        log    : LogRow \cup {None} ]

TypeOK ==
    /\ DOMAIN entry \subseteq EntryId
    /\ entry \in [DOMAIN entry -> Row]
    /\ events \subseteq LogRow
    /\ tx \in [Session -> Tx]

Idle == [op |-> "sweep", at |-> "none", client |-> None, target |-> None,
         holds |-> FALSE, write |-> None, log |-> None]

Init ==
    /\ entry = [e \in {} |-> None]
    /\ events = {}
    /\ tx = [s \in Session |-> Idle]

-----------------------------------------------------------------------------
IsOpen(e) == entry[e].status = "in_progress"
OpenEntries == {e \in DOMAIN entry : IsOpen(e)}

Processed(c) == \E ev \in events : ev.client = c

Waits(s, e) == \E r \in Session \ {s} : tx[r].target = e /\ tx[r].holds

Goto(s, at) == tx' = [tx EXCEPT ![s].at = at]

\* Mutant of EndTx: a transaction that holds a row is left open.
EndTxIdleOnly(s) ==
    /\ ~tx[s].holds \/ tx[s].at = "commit"
    /\ tx' = [tx EXCEPT ![s] = Idle]

EndTx(s) == tx' = [tx EXCEPT ![s] = Idle]

\* The statement answers the request, or fails: nothing is committed.
Rollback(s) == EndTx(s) /\ UNCHANGED <<entry, events>>

-----------------------------------------------------------------------------
\* The bound on ids: no new punch-in begins without an id for its row.
IdLeft ==
    Cardinality({r \in Session : tx[r] # Idle /\ tx[r].op = "punchIn"})
        < Cardinality(EntryId \ DOMAIN entry)

Begin(s) ==
    /\ tx[s] = Idle
    /\ \/ \E c \in {d \in PunchInId : Processed(d) \/ IdLeft} : tx' = [tx EXCEPT ![s] =
            [Idle EXCEPT !.op = "punchIn", !.at = "lookup", !.client = c]]
       \/ \E c \in PunchOutId : tx' = [tx EXCEPT ![s] =
            [Idle EXCEPT !.op = "punchOut", !.at = "lookup", !.client = c]]
       \/ tx' = [tx EXCEPT ![s] = [Idle EXCEPT !.op = "sweep", !.at = "find"]]
       \/ \E e \in DOMAIN entry :
            \/ tx' = [tx EXCEPT ![s] =
                        [Idle EXCEPT !.op = "remove", !.at = "read", !.target = e]]
            \/ tx' = [tx EXCEPT ![s] =
                        [Idle EXCEPT !.op = "edit", !.at = "lock", !.target = e]]
    /\ UNCHANGED <<entry, events>>

\* punchIn and punchOut: has this client id been processed?
Lookup(s) ==
    /\ tx[s].at = "lookup"
    /\ IF Processed(tx[s].client) THEN EndTx(s) ELSE Goto(s, "open")
    /\ UNCHANGED <<entry, events>>

\* getCurrentOpenEntry
FindOpen(s) ==
    /\ tx[s].at = "open"
    /\ IF (tx[s].op = "punchIn") # (OpenEntries = {}) THEN EndTx(s)
       ELSE IF tx[s].op = "punchIn" THEN Goto(s, "insert")
       ELSE \E e \in OpenEntries :
              tx' = [tx EXCEPT ![s].at = "update", ![s].target = e]
    /\ UNCHANGED <<entry, events>>

\* Another transaction has an entry of the index on open rows in doubt.
IndexInDoubt(s) ==
    \E r \in Session \ {s} :
        /\ tx[r].write # None
        /\ tx[r].write.status = "in_progress" \/ tx[r].target \in OpenEntries

\* Mutant of Insert: without the index uniq_time_entries_open_per_user.
InsertUnindexed(s) ==
    /\ tx[s].at = "insert"
    /\ \E e \in EntryId \ (DOMAIN entry \cup {tx[r].target : r \in Session}) :
         tx' = [tx EXCEPT ![s].at = "publish", ![s].target = e, ![s].holds = TRUE,
                  ![s].write = [status |-> "in_progress", by |-> None, autoClosed |-> FALSE]]
    /\ UNCHANGED <<entry, events>>

\* punchIn's INSERT, under uniq_time_entries_open_per_user.
Insert(s) ==
    /\ tx[s].at = "insert"
    /\ ~IndexInDoubt(s)
    /\ \/ OpenEntries # {} /\ EndTx(s)
       \/ /\ OpenEntries = {}
          /\ \E e \in EntryId \ (DOMAIN entry \cup {tx[r].target : r \in Session}) :
               tx' = [tx EXCEPT ![s].at = "publish", ![s].target = e, ![s].holds = TRUE,
                        ![s].write = [status |-> "in_progress", by |-> None,
                                      autoClosed |-> FALSE]]
    /\ UNCHANGED <<entry, events>>

\* findStaleOpenEntries.  Whether the open entry is stale depends on the
\* clock; a sweep that finds nothing is no step.
FindStale(s) ==
    /\ tx[s].at = "find"
    /\ IF OpenEntries = {} THEN EndTx(s)
       ELSE \E e \in OpenEntries :
              tx' = [tx EXCEPT ![s].at = "update", ![s].target = e]
    /\ UNCHANGED <<entry, events>>

\* The manager's DELETE reads the entry's times for the lock check.
ReadTimes(s) ==
    /\ tx[s].at = "read"
    /\ Goto(s, "update")
    /\ UNCHANGED <<entry, events>>

\* Mutant of LockRow: the entry is read without FOR UPDATE.
ReadRow(s) ==
    /\ tx[s].at = "lock"
    /\ IF entry[tx[s].target].status = "deleted" THEN EndTx(s) ELSE Goto(s, "update")
    /\ UNCHANGED <<entry, events>>

\* An edit, direct or approved: SELECT ... FOR UPDATE, then its checks.
LockRow(s) ==
    /\ tx[s].at = "lock"
    /\ ~Waits(s, tx[s].target)
    /\ IF entry[tx[s].target].status = "deleted" THEN EndTx(s)
       ELSE tx' = [tx EXCEPT ![s].at = "update", ![s].holds = TRUE]
    /\ UNCHANGED <<entry, events>>

Write(s, row) ==
    tx' = [tx EXCEPT ![s].at = "publish", ![s].holds = TRUE, ![s].write = row]

\* Mutant of SweepRow: the UPDATE of closeStaleEntry by id only.
SweepAnyRow(s, row) ==
    Write(s, [row EXCEPT !.status = "completed", !.by = "sweep", !.autoClosed = TRUE])

\* closeStaleEntry: only if the row is still open, else the sweep goes on.
SweepRow(s, row) ==
    \/ /\ row.status = "in_progress"
       /\ Write(s, [row EXCEPT !.status = "completed", !.by = "sweep", !.autoClosed = TRUE])
    \/ row.status # "in_progress" /\ EndTx(s)

\* punchOut: by id, whatever the row has become.
CloseRow(s, row) == Write(s, [row EXCEPT !.status = "completed", !.by = tx[s].client])

RemoveRow(s, row) ==
    \/ row.status # "deleted" /\ Write(s, [row EXCEPT !.status = "deleted"])
    \/ row.status = "deleted" /\ EndTx(s)

\* An edit gives the row an end, or leaves an open one open.
EditRow(s, row) ==
    \/ Write(s, [row EXCEPT !.status = "completed", !.by = "manager"])
    \/ row.status = "in_progress" /\ Write(s, row)

Update(s) ==
    LET row == entry[tx[s].target] IN
    /\ tx[s].at = "update"
    /\ ~Waits(s, tx[s].target)
    /\ \/ tx[s].op = "punchOut" /\ CloseRow(s, row)
       \/ tx[s].op = "sweep" /\ SweepRow(s, row)
       \/ tx[s].op = "remove" /\ RemoveRow(s, row)
       \/ tx[s].op = "edit" /\ EditRow(s, row)
    /\ UNCHANGED <<entry, events>>

\* publishTimeEvent's lookup: a client id already in the log adds no event.
PublishLookup(s) ==
    /\ tx[s].at = "publish"
    /\ IF tx[s].client # None /\ Processed(tx[s].client)
       THEN Goto(s, "commit") ELSE Goto(s, "append")
    /\ UNCHANGED <<entry, events>>

EventType(op) ==
    CASE op = "punchIn"            -> "punch_in"
      [] op \in {"punchOut", "sweep"} -> "punch_out"
      [] op = "edit"               -> "entry_edited"
      [] op = "remove"             -> "entry_deleted"

\* Mutant of Append: without the unique index on client ids.
AppendUnindexed(s) ==
    /\ tx[s].at = "append"
    /\ tx' = [tx EXCEPT ![s].at = "commit",
                ![s].log = [type |-> EventType(tx[s].op), entry |-> tx[s].target,
                            client |-> tx[s].client]]
    /\ UNCHANGED <<entry, events>>

\* publishTimeEvent's INSERT, under the unique index on client ids.
Append(s) ==
    LET c == tx[s].client IN
    /\ tx[s].at = "append"
    /\ \A r \in Session \ {s} :
          c # None /\ tx[r].log # None => tx[r].log.client # c
    /\ IF c # None /\ Processed(c) THEN EndTx(s)
       ELSE tx' = [tx EXCEPT ![s].at = "commit",
                     ![s].log = [type |-> EventType(tx[s].op), entry |-> tx[s].target,
                                 client |-> c]]
    /\ UNCHANGED <<entry, events>>

\* Mutant of Commit: the event is not part of the transaction.
CommitRowOnly(s) ==
    /\ tx[s].at = "commit"
    /\ entry' = [e \in DOMAIN entry \cup {tx[s].target} |->
                    IF e = tx[s].target THEN tx[s].write ELSE entry[e]]
    /\ events' = IF tx[s].op = "sweep" THEN events ELSE events \cup ({tx[s].log} \ {None})
    /\ EndTx(s)

Commit(s) ==
    /\ tx[s].at = "commit"
    /\ entry' = [e \in DOMAIN entry \cup {tx[s].target} |->
                    IF e = tx[s].target THEN tx[s].write ELSE entry[e]]
    /\ events' = events \cup ({tx[s].log} \ {None})
    /\ EndTx(s)

\* The connection is lost, or the process stops.
Lose(s) == tx[s] # Idle /\ Rollback(s)

Statements(s) ==
    \/ Lookup(s) \/ FindOpen(s) \/ Insert(s) \/ FindStale(s) \/ ReadTimes(s)
    \/ LockRow(s) \/ Update(s) \/ PublishLookup(s) \/ Append(s) \/ Commit(s)

Next == \E s \in Session : Begin(s) \/ Statements(s) \/ Lose(s)

Spec == Init /\ [][Next]_ptVars

-----------------------------------------------------------------------------
(* However requests overlap, a worker has one open entry at most: what the *)
(* read-then-insert of punchIn cannot promise, the index does.             *)
OneOpenEntry == Cardinality(OpenEntries) <= 1

(* A client id is logged once however often and however concurrently its   *)
(* request is sent (publishTimeEvent).                                     *)
OneEventPerClient ==
    \A v, w \in events : v.client = w.client /\ v.client # None => v = w

(* Nothing ends an entry unseen: the end it has is a sweep's or an edit's  *)
(* of this entry that the log has, or a worker's punch_out that the log    *)
(* has - if not of this entry, then because a retry overtaken by other     *)
(* requests closed it (the commit of a row together with its event).       *)
EndIsLogged ==
    \A e \in DOMAIN entry : entry[e].by # None =>
        \E ev \in events :
            \/ /\ entry[e].by \in ClientId
               /\ ev.type = "punch_out" /\ ev.client = entry[e].by
            \/ /\ entry[e].by = "sweep" /\ ev.entry = e
               /\ ev.type = "punch_out" /\ ev.client = None
            \/ /\ entry[e].by = "manager" /\ ev.entry = e
               /\ ev.type = "entry_edited"

(* "Lost a race with a real punch-out - that is the better outcome, leave  *)
(* it": the sweep never replaces the end of an entry that has one, however *)
(* long ago it found the entry open (closeStaleEntry's guarded UPDATE).    *)
SweepLeavesClosedEntries ==
    [][\A e \in DOMAIN entry :
          entry[e].status # "in_progress" /\ entry'[e].by = "sweep"
          => entry[e].by = "sweep"]_ptVars

(* An edit that waited for the removal of its entry does not bring it back *)
(* (the FOR UPDATE of applyEditTimes and of the manager's PATCH).          *)
EditsLeaveRemovedEntries ==
    [][\A e \in DOMAIN entry :
          entry[e].status = "deleted" /\ entry'[e].by = "manager"
          => entry'[e].status = "deleted"]_ptVars

(* No deadlock: rows and index entries are taken in an order without       *)
(* cycles, so while requests are being served the statement of one of them *)
(* need not wait.                                                          *)
SomeStatementRuns ==
    (\E s \in Session : tx[s] # Idle) => \E s \in Session : ENABLED Statements(s)

Atomic == INSTANCE AtomicRequests

(* However their statements interleave, requests act as if each ran alone  *)
(* at its COMMIT: what a punch-in, a sweep, a removal or an edit has found *)
(* out about its row still holds when the row becomes visible, its event   *)
(* comes with it, and a request that fails leaves no trace.                *)
ImplementsAtomicRequests == Atomic!Spec

(* listEntries: "Removed entries are soft-deleted so the audit trail       *)
(* survives, but they are not part of anyone's timesheet".                 *)
RemovedStaysRemoved ==
    [][\A e \in DOMAIN entry :
          entry[e].status = "deleted" => entry'[e].status = "deleted"]_ptVars
=============================================================================
