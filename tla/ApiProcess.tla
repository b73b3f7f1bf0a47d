----------------------------- MODULE ApiProcess -----------------------------
(***************************************************************************)
(* One process of the API: the pool of database connections, the requests  *)
(* whose handlers run on them, the scheduler's passes over the sweep, and  *)
(* shutdown.                                                               *)
(*                                                                         *)
(*   phase      the process: serving, draining, closing its pool, down;    *)
(*   free       the pool's idle connections, the last released on top;     *)
(*   tx, pend   each connection's transaction and its uncommitted writes;  *)
(*   done       the writes that are committed;                             *)
(*   req, pass  where each request and each pass has got to;               *)
(*   lock       who has the sweep's advisory lock, Other when another      *)
(*              machine does.                                              *)
(*                                                                         *)
(* Everything between two awaits is one action: the process is single-     *)
(* threaded.  Handlers are their statements, each a write of its own; what *)
(* the statements do to the tables is the subject of PunchTransactions.    *)
(* Every router takes a connection in withTenantDb, and a path under       *)
(* /api/v1/admin passes through two of them: the corrections router comes  *)
(* first and its middleware runs although none of its routes matches.      *)
(***************************************************************************)
EXTENDS Naturals, Sequences, FiniteSets, SequencesExt

CONSTANTS
    Request,           \* requests
    AdminRequest,      \* those that pass through two routers
    BatchRequest,      \* those of POST /sync/batch
    Pass,              \* passes of the sweep that may overlap
    Conn,              \* the pool's connections
    NumStatements,     \* statements of a handler
    MaxFaults,         \* failing statements, disconnections and shutdowns
    Other,             \* another machine
    None

ASSUME ApiProcessAssumption ==
    /\ AdminRequest \subseteq Request
    /\ BatchRequest \subseteq Request
    /\ IsFiniteSet(Conn)
    /\ NumStatements \in Nat \ {0}
    /\ MaxFaults \in Nat
    /\ Other \notin Pass /\ None \notin Pass \cup Conn \cup {Other}

VARIABLES phase, free, tx, pend, done, req, pass, lock, faults

db == <<free, tx, pend, done>>
sweepVars == <<pass, lock>>
apiVars == <<phase, db, req, sweepVars, faults>>

Write == Request \X (1..NumStatements)

\* A request's locals: held are the connections withTenantDb has not
\* finalized, db the one res.locals.db names, synced what a batch reports.
RequestState ==
    [ pc     : {"none", "entering", "running", "answering", "answered", "cut"},
      layers : 0..2,
      held   : Seq(Conn),
      db     : Conn \cup {None},
      next   : 1..(NumStatements + 1),
      ok     : BOOLEAN,
      synced : SUBSET (1..NumStatements),
      gone   : BOOLEAN ]

PassState ==
    [ pc   : {"idle", "entering", "locking", "sweeping", "skipping"},
      conn : Conn \cup {None} ]

NotArrived ==
    [ pc |-> "none", layers |-> 0, held |-> <<>>, db |-> None, next |-> 1,
      ok |-> TRUE, synced |-> {}, gone |-> FALSE ]

IdlePass == [pc |-> "idle", conn |-> None]

Init ==
    /\ phase = "up"
    /\ free = SetToSeq(Conn)
    /\ tx = [c \in Conn |-> "none"]
    /\ pend = [c \in Conn |-> {}]
    /\ done = {}
    /\ req = [r \in Request |-> NotArrived]
    /\ pass = [p \in Pass |-> IdlePass]
    /\ lock = None
    /\ faults = 0

Running == phase \in {"up", "draining", "closing"}
Connectable == phase \in {"up", "draining"}
Layers(r) == IF r \in AdminRequest THEN 2 ELSE 1

Fault == faults < MaxFaults /\ faults' = faults + 1

------------------------------------------------------------------------------
(* Connections.                                                            *)

\* The pool hands out the connection released last.
Top == free[Len(free)]
Available == Connectable /\ free # <<>>

\* COMMIT, which commits nothing of a transaction that a failed statement
\* has aborted, and release.
CommitAndRelease(c) ==
    /\ done' = IF tx[c] = "open" THEN done \cup pend[c] ELSE done
    /\ tx' = [tx EXCEPT ![c] = "none"]
    /\ pend' = [pend EXCEPT ![c] = {}]
    /\ free' = Append(free, c)

\* ROLLBACK and release of the connections in the sequence cs.
RollbackAndRelease(cs) ==
    /\ tx' = [c \in Conn |-> IF c \in ToSet(cs) THEN "none" ELSE tx[c]]
    /\ pend' = [c \in Conn |-> IF c \in ToSet(cs) THEN {} ELSE pend[c]]
    /\ free' = free \o cs
    /\ UNCHANGED done

Begin ==
    /\ free' = SubSeq(free, 1, Len(free) - 1)
    /\ tx' = [tx EXCEPT ![Top] = "open"]
    /\ UNCHANGED <<pend, done>>

------------------------------------------------------------------------------
(* Requests.                                                               *)

Arrive(r) ==
    /\ phase = "up"
    /\ req[r].pc = "none"
    /\ req' = [req EXCEPT ![r].pc = "entering"]
    /\ UNCHANGED <<phase, db, sweepVars, faults>>

\* next(err): the error handler answers.
Failed(r) == [req EXCEPT ![r] = [req[r] EXCEPT !.pc = "answering", !.ok = FALSE]]

\* withTenantDb: a connection, BEGIN, then the next router or the handler.
Enter(r) ==
    /\ Available
    /\ req[r].pc = "entering"
    /\ tx[Top] # "failed"
    /\ Begin
    /\ req' = [req EXCEPT ![r] = [req[r] EXCEPT
                  !.layers = @ + 1, !.held = Append(@, Top), !.db = Top,
                  !.pc = IF req[r].layers + 1 = Layers(r) THEN "running" ELSE @]]
    /\ UNCHANGED <<phase, sweepVars, faults>>

\* Mutant of EnterFails: the catch of withTenantDb does not release.
EnterFailsLeaking(r) ==
    /\ Available
    /\ req[r].pc = "entering"
    /\ IF tx[Top] = "failed" THEN UNCHANGED faults ELSE Fault
    /\ tx' = [tx EXCEPT ![Top] = "failed"]
    /\ free' = SubSeq(free, 1, Len(free) - 1)
    /\ req' = Failed(r)
    /\ UNCHANGED <<phase, pend, done, sweepVars>>

\* The catch of withTenantDb: a query after BEGIN fails, and the connection
\* goes back to the pool as it is, inside the aborted transaction.
EnterFails(r) ==
    /\ Available
    /\ req[r].pc = "entering"
    /\ IF tx[Top] = "failed" THEN UNCHANGED faults ELSE Fault
    /\ tx' = [tx EXCEPT ![Top] = "failed"]
    /\ req' = Failed(r)
    /\ UNCHANGED <<phase, free, pend, done, sweepVars>>

\* The pool has ended: connect() rejects.
EnterRefused(r) ==
    /\ phase = "closing"
    /\ req[r].pc = "entering"
    /\ req' = Failed(r)
    /\ UNCHANGED <<phase, db, sweepVars, faults>>

\* The handler goes on after its statement, to the next or to its answer.
Continue(r, synced) ==
    req' = [req EXCEPT ![r] = [req[r] EXCEPT
               !.next = @ + 1, !.synced = @ \cup synced,
               !.pc = IF req[r].next = NumStatements THEN "answering" ELSE @]]

\* The loop of the batch catches the error of an event; any other handler
\* throws it.
Throw(r) == IF r \in BatchRequest THEN Continue(r, {}) ELSE req' = Failed(r)

\* A statement runs on the connection the handler was given, whoever has it
\* by now: in its open transaction, or on its own when there is none.
Execute(r) ==
    LET c == req[r].db  write == <<r, req[r].next>> IN
    /\ Connectable
    /\ req[r].pc = "running"
    /\ tx[c] # "failed"
    /\ IF tx[c] = "open"
       THEN pend' = [pend EXCEPT ![c] = @ \cup {write}] /\ UNCHANGED done
       ELSE done' = done \cup {write} /\ UNCHANGED pend
    /\ Continue(r, {req[r].next})
    /\ UNCHANGED <<phase, free, tx, sweepVars, faults>>

StatementFails(r) ==
    LET c == req[r].db IN
    /\ Running
    /\ req[r].pc = "running"
    /\ IF tx[c] = "failed" \/ phase = "closing" THEN UNCHANGED faults ELSE Fault
    /\ tx' = [tx EXCEPT ![c] = IF @ = "open" THEN "failed" ELSE @]
    /\ Throw(r)
    /\ UNCHANGED <<phase, free, pend, done, sweepVars>>

\* The handler, or an event of a batch, is refused: an AppError.
Refuse(r) ==
    /\ Connectable
    /\ req[r].pc = "running"
    /\ Throw(r)
    /\ UNCHANGED <<phase, db, sweepVars, faults>>

\* Mutant of Finalize: the status of the answer is not looked at.
FinalizeCommits(r) ==
    LET held == req[r].held  c == held[Len(held)] IN
    /\ Running
    /\ req[r].pc = "answering" /\ held # <<>>
    /\ CommitAndRelease(c)
    /\ req' = [req EXCEPT ![r].held = SubSeq(held, 1, Len(held) - 1)]
    /\ UNCHANGED <<phase, sweepVars, faults>>

\* finalize, called by the patched res.json, innermost router first.
Finalize(r) ==
    LET held == req[r].held  c == held[Len(held)] IN
    /\ Running
    /\ req[r].pc = "answering" /\ held # <<>>
    /\ IF req[r].ok THEN CommitAndRelease(c) ELSE RollbackAndRelease(<<c>>)
    /\ req' = [req EXCEPT ![r].held = SubSeq(held, 1, Len(held) - 1)]
    /\ UNCHANGED <<phase, sweepVars, faults>>

Answer(r) ==
    /\ Running
    /\ req[r].pc = "answering" /\ req[r].held = <<>>
    /\ req' = [req EXCEPT ![r] = [req[r] EXCEPT !.pc = "answered", !.db = None]]
    /\ UNCHANGED <<phase, db, sweepVars, faults>>

\* The client goes away: every router's `close' handler rolls back and
\* releases its connection.  The handler knows nothing of it.
Disconnect(r) ==
    /\ Running
    /\ req[r].pc \in {"entering", "running"} \/ req[r].held # <<>>
    /\ ~req[r].gone
    /\ RollbackAndRelease(req[r].held)
    /\ req' = [req EXCEPT ![r] = [req[r] EXCEPT !.gone = TRUE, !.held = <<>>]]
    /\ Fault
    /\ UNCHANGED <<phase, sweepVars>>

------------------------------------------------------------------------------
(* The scheduler's passes: runJobOnce within withTenantTx.                 *)

Tick(p) ==
    /\ phase = "up"
    /\ pass[p].pc = "idle"
    /\ pass' = [pass EXCEPT ![p].pc = "entering"]
    /\ UNCHANGED <<phase, db, req, lock, faults>>

PassBegins(p) ==
    /\ Available
    /\ pass[p].pc = "entering"
    /\ tx[Top] # "failed"
    /\ Begin
    /\ pass' = [pass EXCEPT ![p] = [pc |-> "locking", conn |-> Top]]
    /\ UNCHANGED <<phase, req, lock, faults>>

\* BEGIN is refused inside an aborted transaction; the ROLLBACK that
\* withTenantTx then sends ends it.
PassRefused(p) ==
    /\ Available
    /\ pass[p].pc = "entering"
    /\ tx[Top] = "failed"
    /\ tx' = [tx EXCEPT ![Top] = "none"]
    /\ UNCHANGED <<free, pend, done>>
    /\ pass' = [pass EXCEPT ![p] = IdlePass]
    /\ UNCHANGED <<phase, req, lock, faults>>

\* Mutant of TryLock: `acquired' is not looked at.
SweepAnyway(p) ==
    /\ Connectable
    /\ pass[p].pc = "locking" /\ tx[pass[p].conn] = "open"
    /\ lock' = IF lock = None THEN p ELSE lock
    /\ pass' = [pass EXCEPT ![p].pc = "sweeping"]
    /\ UNCHANGED <<phase, db, req, faults>>

\* pg_try_advisory_xact_lock, and the job if the lock was free.
TryLock(p) ==
    /\ Connectable
    /\ pass[p].pc = "locking" /\ tx[pass[p].conn] = "open"
    /\ IF lock = None
       THEN /\ lock' = p
            /\ pass' = [pass EXCEPT ![p].pc = "sweeping"]
       ELSE /\ pass' = [pass EXCEPT ![p].pc = "skipping"]
            /\ UNCHANGED lock
    /\ UNCHANGED <<phase, db, req, faults>>

\* Mutant of EndPass: a lock of the session, which outlives the transaction.
EndPassLocked(p) ==
    /\ pass' = [pass EXCEPT ![p] = IdlePass]
    /\ UNCHANGED lock

\* The end of p's transaction, which frees the advisory lock.
EndPass(p) ==
    /\ lock' = IF lock = p THEN None ELSE lock
    /\ pass' = [pass EXCEPT ![p] = IdlePass]

PassCommits(p) ==
    /\ Connectable
    /\ pass[p].pc \in {"sweeping", "skipping"} /\ tx[pass[p].conn] = "open"
    /\ CommitAndRelease(pass[p].conn)
    /\ EndPass(p)
    /\ UNCHANGED <<phase, req, faults>>

PassFails(p) ==
    /\ Connectable
    /\ pass[p].pc \in {"locking", "sweeping", "skipping"}
    /\ IF tx[pass[p].conn] = "failed" THEN UNCHANGED faults ELSE Fault
    /\ RollbackAndRelease(<<pass[p].conn>>)
    /\ EndPass(p)
    /\ UNCHANGED <<phase, req>>

\* Another machine's pass.
OtherLocks ==
    /\ lock = None
    /\ lock' = Other
    /\ UNCHANGED <<phase, db, req, pass, faults>>

OtherEnds ==
    /\ lock = Other
    /\ lock' = None
    /\ UNCHANGED <<phase, db, req, pass, faults>>

------------------------------------------------------------------------------
(* Shutdown.                                                               *)

\* SIGTERM: no new connections and no new passes.
Shutdown ==
    /\ phase = "up"
    /\ phase' = "draining"
    /\ Fault
    /\ UNCHANGED <<db, req, sweepVars>>

\* Mutant of Drained: the sweeps' promise is not awaited.
SocketsClosed ==
    \A r \in Request : req[r].pc \in {"none", "answered", "cut"} \/ req[r].gone

\* server.close has seen the last socket close, and the passes are over.
Drained ==
    /\ \A r \in Request : req[r].pc \in {"none", "answered", "cut"} \/ req[r].gone
    /\ \A p \in Pass : pass[p].pc = "idle"

ClosePool ==
    /\ phase = "draining"
    /\ Drained
    /\ phase' = "closing"
    /\ UNCHANGED <<db, req, sweepVars, faults>>

\* The process is gone; the server rolls back what was open and the clients
\* of unanswered requests see their sockets close.
Die ==
    /\ phase' = "down"
    /\ tx' = [c \in Conn |-> "none"]
    /\ pend' = [c \in Conn |-> {}]
    /\ free' = SetToSeq(Conn)
    /\ UNCHANGED done
    /\ req' = [r \in Request |->
                IF req[r].pc \in {"none", "answered"} THEN req[r]
                ELSE [NotArrived EXCEPT !.pc = "cut", !.gone = req[r].gone]]
    /\ pass' = [p \in Pass |-> IdlePass]
    /\ lock' = IF lock \in Pass THEN None ELSE lock
    /\ UNCHANGED faults

\* pool.end() has got every connection back: process.exit(0).
Exit ==
    /\ phase = "closing" /\ Len(free) = Cardinality(Conn)
    /\ Die

\* Ten seconds after the signal: process.exit(1).
ForcedExit ==
    /\ phase \in {"draining", "closing"}
    /\ Die

Boot ==
    /\ phase = "down"
    /\ phase' = "up"
    /\ UNCHANGED <<db, req, sweepVars, faults>>

------------------------------------------------------------------------------
Proceed(r) ==
    \/ Enter(r)
    \/ EnterFails(r)
    \/ EnterRefused(r)
    \/ Execute(r)
    \/ StatementFails(r)
    \/ Refuse(r)
    \/ Finalize(r)
    \/ Answer(r)

Sweep(p) ==
    \/ Tick(p)
    \/ PassBegins(p)
    \/ PassRefused(p)
    \/ TryLock(p)
    \/ PassCommits(p)
    \/ PassFails(p)

Next ==
    \/ \E r \in Request : Arrive(r) \/ Proceed(r) \/ Disconnect(r)
    \/ \E p \in Pass : Sweep(p)
    \/ OtherLocks \/ OtherEnds
    \/ Shutdown \/ ClosePool \/ Exit \/ ForcedExit \/ Boot

(***************************************************************************)
(* The pool serves those who wait in turn, the statements of a handler and *)
(* of a pass come to an end, timers fire while the process runs, and a     *)
(* process that exits is started again.  No client has to send anything.   *)
(***************************************************************************)
Fairness ==
    /\ \A r \in Request : SF_apiVars(Proceed(r))
    /\ \A p \in Pass : SF_apiVars(Sweep(p))
    /\ WF_apiVars(OtherEnds)
    /\ WF_apiVars(ForcedExit)
    /\ WF_apiVars(Boot)

Spec == Init /\ [][Next]_apiVars /\ Fairness

------------------------------------------------------------------------------
(* Properties.                                                             *)

\* Two passes of the sweep never run at once, overlapping ticks, a second
\* machine and failing passes included.
SweepsAreSerial ==
    \A p, q \in Pass :
        (pass[p].pc = "sweeping" /\ pass[q].pc = "sweeping") => p = q /\ lock = p

\* Some handler outlived its request: what it still does strays onto a
\* connection that is no longer its own.
Strays == \E r \in Request : req[r].gone

\* An answer of success comes after the commit of everything the handler
\* wrote, and one of failure leaves nothing of it, as long as no handler has
\* outlived its request.  What a batch reports as synced is committed too,
\* or, when one of its statements failed, none of it is.
AnsweredMeansCommitted ==
    ~Strays =>
        \A r \in {q \in Request : req[q].pc = "answered"} :
            LET committed == {i \in 1..NumStatements : <<r, i>> \in done} IN
            \/ committed = {} /\ (r \in BatchRequest \/ ~req[r].ok)
            \/ committed = req[r].synced /\ req[r].ok

\* However requests end - answered, refused, failed in the middle of a
\* router, or left by their clients while their handlers go on - each
\* connection is in one place: idle in the pool once, or with one request
\* once, or with one pass.  None is leaked and none released twice
\* (withTenantDb's `finalized').
ConnectionsHaveOneOwner ==
    \A c \in Conn :
        Cardinality({i \in 1..Len(free) : free[i] = c})
        + Cardinality({h \in Request \X (1..2) :
                          h[2] <= Len(req[h[1]].held) /\ req[h[1]].held[h[2]] = c})
        + Cardinality({p \in Pass : pass[p].conn = c}) = 1

\* The pool is closed under no sweep: once it closes no pass runs or waits
\* for a connection.
PoolClosesAfterSweeps ==
    phase = "closing" => \A p \in Pass : pass[p].pc = "idle"

\* The sweep is run again and again, here or elsewhere, whatever fails,
\* restarts or waits for a connection: its lock does not outlive a pass, and
\* a handler that hangs would end up holding all connections.
SweepsKeepRunning == []<>(lock # None) /\ []<>(lock = None)

\* Not everyone who holds a connection waits for another one.
Holders == {r \in Request : req[r].held # <<>>}
PoolNeverDeadlocks ==
    phase = "up" /\ free = <<>> =>
        \/ \E r \in Holders : req[r].pc # "entering"
        \/ \E p \in Pass : pass[p].conn # None

ApiTypeOK ==
    /\ phase \in {"up", "draining", "closing", "down"}
    /\ free \in Seq(Conn)
    /\ tx \in [Conn -> {"none", "open", "failed"}]
    /\ pend \in [Conn -> SUBSET Write]
    /\ done \subseteq Write
    /\ req \in [Request -> RequestState]
    /\ pass \in [Pass -> PassState]
    /\ lock \in Pass \cup {Other, None}
    /\ faults \in 0..MaxFaults
=============================================================================
