---------------------- MODULE PunchTransactions_proofs ----------------------
(***************************************************************************)
(* The safety properties of PunchTransactions, for any number of sessions, *)
(* rows and client ids.                                                    *)
(*                                                                         *)
(* None is inductive alone.  What is missing is what a request may rely on *)
(* between its statements: which of them it has behind it (StageOf), that  *)
(* its row is its own once it holds the lock (LockOf), that this row is    *)
(* therefore still as its UPDATE found it (HeldRow), that an uncommitted   *)
(* punch-in is the only claim to the index on open rows (InsertOf), and    *)
(* that an uncommitted event is the only claim to its client id (LogOf,    *)
(* ClaimOf).                                                               *)
(*                                                                         *)
(* That requests are atomic needs one more: until the COMMIT, what is      *)
(* written is the request's change of the row as it is now (WriteOf).      *)
(***************************************************************************)
EXTENDS PunchTransactions, FiniteSetTheorems, TLAPS

Written(s) == tx[s].write # None

StageOf(s) ==
    /\ tx[s].at = "none" => tx[s] = Idle
    /\ Written(s) <=> tx[s].at \in {"publish", "append", "commit"}
    /\ Written(s) => tx[s].holds
    /\ tx[s].holds => tx[s].target # None
    /\ tx[s].holds => Written(s) \/ (tx[s].op = "edit" /\ tx[s].at = "update")
    /\ tx[s].log # None => tx[s].at = "commit"
    /\ tx[s].at = "insert" => tx[s].op = "punchIn"
    /\ tx[s].at \in {"lookup", "open"} => tx[s].op \in {"punchIn", "punchOut"}
    /\ tx[s].at = "find" => tx[s].op = "sweep"
    /\ tx[s].at = "read" => tx[s].op = "remove" /\ tx[s].target # None
    /\ tx[s].at = "lock" => tx[s].op = "edit" /\ tx[s].target # None
    /\ tx[s].at = "update" => tx[s].op # "punchIn" /\ tx[s].target # None
    /\ tx[s].at = "update" /\ tx[s].op = "edit" => tx[s].holds
    /\ tx[s].op = "punchIn" => tx[s].client \in PunchInId
    /\ tx[s].op = "punchOut" => tx[s].client \in PunchOutId
    /\ tx[s].op \in {"sweep", "remove", "edit"} => tx[s].client = None
    /\ tx[s].op = "punchIn" /\ tx[s].target # None => Written(s)
    /\ tx[s].op = "punchIn" /\ Written(s) => tx[s].target \notin DOMAIN entry
    /\ tx[s].op # "punchIn" /\ tx[s].target # None => tx[s].target \in DOMAIN entry

LockOf(s) ==
    \A r \in Session \ {s} :
        tx[s].holds /\ tx[r].holds => tx[s].target # tx[r].target

HeldRow(s) ==
    /\ tx[s].op = "edit" /\ tx[s].holds => entry[tx[s].target].status # "deleted"
    /\ Written(s) =>
        /\ tx[s].op = "punchIn" =>
              tx[s].write.status = "in_progress" /\ tx[s].write.by = None
        /\ tx[s].op = "punchOut" =>
              tx[s].write.status = "completed" /\ tx[s].write.by = tx[s].client
        /\ tx[s].op = "sweep" =>
              /\ tx[s].write.status = "completed" /\ tx[s].write.by = "sweep"
              /\ entry[tx[s].target].status = "in_progress"
        /\ tx[s].op = "remove" =>
              /\ tx[s].write.status = "deleted"
              /\ tx[s].write.by = entry[tx[s].target].by
        /\ tx[s].op = "edit" =>
              \/ tx[s].write.status = "completed" /\ tx[s].write.by = "manager"
              \/ /\ tx[s].write = entry[tx[s].target]
                 /\ tx[s].write.status = "in_progress"

InsertOf(s) ==
    tx[s].op = "punchIn" /\ Written(s) =>
        /\ OpenEntries = {}
        /\ \A r \in Session \ {s} : tx[r].op = "punchIn" => ~Written(r)

LogOf(s) ==
    /\ tx[s].log # None =>
        /\ tx[s].log.type = EventType(tx[s].op)
        /\ tx[s].log.entry = tx[s].target
        /\ tx[s].log.client = tx[s].client
        /\ tx[s].client # None => ~Processed(tx[s].client)
    /\ tx[s].at = "commit" /\ tx[s].log = None =>
        tx[s].client # None /\ Processed(tx[s].client)

ClaimOf(s) ==
    \A r \in Session \ {s} :
        tx[s].log # None /\ tx[r].log # None /\ tx[s].client # None
        => tx[s].client # tx[r].client

RequestOK(s) ==
    StageOf(s) /\ LockOf(s) /\ HeldRow(s) /\ InsertOf(s) /\ LogOf(s) /\ ClaimOf(s)

UniqueOpen == \A e, f \in OpenEntries : e = f

EventsOK ==
    /\ OneEventPerClient
    /\ \A ev \in events : ev.client \in PunchOutId => ev.type = "punch_out"

IInv ==
    /\ TypeOK
    /\ UniqueOpen
    /\ EventsOK
    /\ EndIsLogged
    /\ \A s \in Session : RequestOK(s)

-----------------------------------------------------------------------------
(* The initial state has no rows, no events and no requests.               *)
LEMMA InitIInv == Init => IInv
<1> SUFFICES ASSUME Init PROVE IInv
  OBVIOUS
<1> USE DEF Init, Idle
<1>1. TypeOK
  BY DEF TypeOK, Tx, Operation, Statement
<1>2. UniqueOpen /\ EventsOK /\ EndIsLogged
  BY DEF UniqueOpen, OpenEntries, EventsOK, OneEventPerClient, EndIsLogged
<1>3. ASSUME NEW s \in Session PROVE RequestOK(s)
  BY <1>3 DEF RequestOK, StageOf, LockOf, HeldRow, InsertOf, LogOf, ClaimOf, Written
<1> QED
  BY <1>1, <1>2, <1>3 DEF IInv

(* A statement that commits nothing changes one request only, and the rest *)
(* of the invariant follows from what it leaves of this request.           *)
LEMMA LocalStep ==
    ASSUME IInv, NEW s \in Session, NEW t \in Tx,
           tx' = [tx EXCEPT ![s] = t], UNCHANGED <<entry, events>>,
           RequestOK(s)'
    PROVE  IInv'
<1>1. TypeOK'
  BY DEF IInv, TypeOK
<1>2. UniqueOpen' /\ EventsOK' /\ EndIsLogged'
  BY DEF IInv, UniqueOpen, OpenEntries, IsOpen, EventsOK, OneEventPerClient, EndIsLogged
<1>3. /\ tx'[s] = t
      /\ \A r \in Session \ {s} : tx'[r] = tx[r]
  BY DEF IInv, TypeOK
<1>4. ASSUME NEW r \in Session \ {s} PROVE RequestOK(r)'
  <2>1. RequestOK(r)
    BY DEF IInv
  <2>a. tx'[r] = tx[r] /\ entry' = entry /\ events' = events
    BY <1>3
  <2>2. /\ StageOf(r)'
        /\ HeldRow(r)'
        /\ LogOf(r)'
    <3>1. StageOf(r)'
      BY <2>a, <2>1 DEF RequestOK, StageOf, Written
    <3>2. HeldRow(r)'
      BY <2>a, <2>1 DEF RequestOK, HeldRow, Written
    <3>3. LogOf(r)'
      BY <2>a, <2>1 DEF RequestOK, LogOf, Processed, EventType
    <3> QED
      BY <3>1, <3>2, <3>3
  <2>3. LockOf(r)'
    BY <1>3, <2>1 DEF RequestOK, LockOf
  <2>4. InsertOf(r)'
    BY <1>3, <2>1 DEF RequestOK, InsertOf, Written, OpenEntries, IsOpen
  <2>5. ClaimOf(r)'
    BY <1>3, <2>1 DEF RequestOK, ClaimOf
  <2> QED
    BY <2>2, <2>3, <2>4, <2>5 DEF RequestOK
<1> QED
  BY <1>1, <1>2, <1>4 DEF IInv

(* An idle session is a well-formed one.                                   *)
LEMMA IdleIsTx == Idle \in Tx
BY DEF Idle, Tx, Operation, Statement

(* A request that ends, answered or failed, leaves no claim behind.        *)
LEMMA EndStep ==
    ASSUME IInv, NEW s \in Session, EndTx(s), UNCHANGED <<entry, events>>
    PROVE  IInv'
<1>1. tx' = [tx EXCEPT ![s] = Idle] /\ tx'[s] = Idle
  BY DEF IInv, TypeOK, EndTx
<1>2. RequestOK(s)'
  BY <1>1 DEF Idle, RequestOK, StageOf, LockOf, HeldRow, InsertOf, LogOf, ClaimOf, Written
<1> QED
  BY <1>1, <1>2, IdleIsTx, LocalStep

(* A request that starts claims nothing yet.                               *)
LEMMA StartStep ==
    ASSUME IInv, NEW s \in Session, UNCHANGED <<entry, events>>,
           NEW t \in Tx, tx' = [tx EXCEPT ![s] = t],
           t.at \in {"lookup", "find", "read", "lock"},
           ~t.holds, t.write = None, t.log = None,
           t.at = "lookup" => t.op \in {"punchIn", "punchOut"},
           t.at = "find" => t.op = "sweep",
           t.at = "read" => t.op = "remove" /\ t.target # None,
           t.at = "lock" => t.op = "edit" /\ t.target # None,
           t.op = "punchIn" => t.client \in PunchInId /\ t.target = None,
           t.op = "punchOut" => t.client \in PunchOutId,
           t.op \in {"sweep", "remove", "edit"} => t.client = None,
           t.target # None => t.target \in DOMAIN entry
    PROVE  IInv'
<1>1. tx'[s] = t
  BY DEF IInv, TypeOK
<1>2. StageOf(s)'
  BY <1>1 DEF StageOf, Written, Tx, Operation
<1>3. RequestOK(s)'
  BY <1>1, <1>2 DEF RequestOK, LockOf, HeldRow, InsertOf, LogOf, ClaimOf, Written
<1> QED
  BY <1>3, LocalStep

(* Each of the five kinds of request starts so.                            *)
LEMMA BeginStep ==
    ASSUME IInv, NEW s \in Session, Begin(s) PROVE IInv'
<1> UNCHANGED <<entry, events>> /\ DOMAIN entry \subseteq EntryId
  BY DEF Begin, IInv, TypeOK
<1> USE DEF ClientId, Operation
<1>1. ASSUME NEW c \in PunchInId,
             tx' = [tx EXCEPT ![s] = [Idle EXCEPT !.op = "punchIn", !.at = "lookup",
                                                  !.client = c]]
      PROVE  IInv'
  <2> DEFINE t == [Idle EXCEPT !.op = "punchIn", !.at = "lookup", !.client = c]
  <2>1. t \in Tx
    BY DEF Idle, Tx, Statement
  <2> QED
    BY <1>1, <2>1, StartStep DEF Idle
<1>2. ASSUME NEW c \in PunchOutId,
             tx' = [tx EXCEPT ![s] = [Idle EXCEPT !.op = "punchOut", !.at = "lookup",
                                                  !.client = c]]
      PROVE  IInv'
  <2> DEFINE t == [Idle EXCEPT !.op = "punchOut", !.at = "lookup", !.client = c]
  <2>1. t \in Tx
    BY DEF Idle, Tx, Statement
  <2> QED
    BY <1>2, <2>1, StartStep DEF Idle
<1>3. CASE tx' = [tx EXCEPT ![s] = [Idle EXCEPT !.op = "sweep", !.at = "find"]]
  <2> DEFINE t == [Idle EXCEPT !.op = "sweep", !.at = "find"]
  <2>1. t \in Tx
    BY DEF Idle, Tx, Statement
  <2> QED
    BY <1>3, <2>1, StartStep DEF Idle
<1>4. ASSUME NEW e \in DOMAIN entry,
             tx' = [tx EXCEPT ![s] = [Idle EXCEPT !.op = "remove", !.at = "read",
                                                  !.target = e]]
      PROVE  IInv'
  <2> DEFINE t == [Idle EXCEPT !.op = "remove", !.at = "read", !.target = e]
  <2>1. t \in Tx
    BY DEF Idle, Tx, Statement
  <2> QED
    BY <1>4, <2>1, StartStep, PunchTransactionsAssumption DEF Idle
<1>5. ASSUME NEW e \in DOMAIN entry,
             tx' = [tx EXCEPT ![s] = [Idle EXCEPT !.op = "edit", !.at = "lock",
                                                  !.target = e]]
      PROVE  IInv'
  <2> DEFINE t == [Idle EXCEPT !.op = "edit", !.at = "lock", !.target = e]
  <2>1. t \in Tx
    BY DEF Idle, Tx, Statement
  <2> QED
    BY <1>5, <2>1, StartStep, PunchTransactionsAssumption DEF Idle
<1> QED
  BY <1>1, <1>2, <1>3, <1>4, <1>5 DEF Begin

(* The statements that only read: the request goes on, or ends.  Those     *)
(* that find a row take it from the committed ones.                        *)
LEMMA ReadStep ==
    ASSUME IInv, NEW s \in Session,
           \/ Lookup(s) \/ FindOpen(s) \/ FindStale(s) \/ ReadTimes(s)
    PROVE  IInv'
<1> tx[s] \in Tx /\ DOMAIN entry \subseteq EntryId /\ RequestOK(s)
  BY DEF IInv, TypeOK
<1> UNCHANGED <<entry, events>>
  BY DEF Lookup, FindOpen, FindStale, ReadTimes
<1>1. ASSUME EndTx(s) PROVE IInv'
  BY <1>1, EndStep
<1>2. ASSUME NEW at \in {"open", "insert", "update"}, NEW e \in EntryId \cup {None},
             tx' = [tx EXCEPT ![s].at = at, ![s].target = e],
             tx[s].at \in {"lookup", "open", "find", "read"},
             at = "open" => tx[s].op \in {"punchIn", "punchOut"},
             at = "insert" => tx[s].op = "punchIn" /\ e = tx[s].target,
             at = "update" => tx[s].op \in {"punchOut", "sweep", "remove"} /\ e \in DOMAIN entry,
             e # tx[s].target => ~tx[s].holds /\ e \in DOMAIN entry /\ tx[s].op # "punchIn"
      PROVE  IInv'
  <2> DEFINE t == [tx[s] EXCEPT !.at = at, !.target = e]
  <2>1. t \in Tx /\ tx' = [tx EXCEPT ![s] = t]
    BY <1>2 DEF Tx, Statement, IInv, TypeOK
  <2>2. /\ tx'[s].at = at /\ tx'[s].target = e /\ tx'[s].op = tx[s].op
        /\ tx'[s].client = tx[s].client /\ tx'[s].holds = tx[s].holds
        /\ tx'[s].write = tx[s].write /\ tx'[s].log = tx[s].log
    BY <2>1 DEF IInv, TypeOK, Tx
  <2>3. ~Written(s) /\ ~tx[s].holds /\ tx[s].log = None
    BY <1>2 DEF RequestOK, StageOf
  <2> HIDE DEF t
  <2>4. StageOf(s)'
    BY <1>2, <2>2, <2>3, PunchTransactionsAssumption DEF RequestOK, StageOf, Written
  <2>5. LockOf(s)' /\ InsertOf(s)' /\ LogOf(s)' /\ ClaimOf(s)'
    BY <1>2, <2>2, <2>3 DEF LockOf, InsertOf, LogOf, ClaimOf, Written
  <2>6. HeldRow(s)'
    BY <1>2, <2>2, <2>3 DEF RequestOK, HeldRow, Written
  <2> QED
    BY <2>1, <2>4, <2>5, <2>6, LocalStep DEF RequestOK
<1>3. CASE Lookup(s)
  <2>1. CASE EndTx(s)
    BY <2>1, <1>1
  <2>2. CASE Goto(s, "open")
    <3>1. tx' = [tx EXCEPT ![s].at = "open", ![s].target = tx[s].target]
      BY <2>2 DEF Goto, IInv, TypeOK, Tx
    <3> QED
      BY <1>2, <1>3, <3>1 DEF Lookup, RequestOK, StageOf, Tx
  <2> QED
    BY <1>3, <2>1, <2>2 DEF Lookup
<1>4. CASE FindOpen(s)
  <2>1. CASE EndTx(s)
    BY <2>1, <1>1
  <2>2. CASE tx[s].op = "punchIn" /\ Goto(s, "insert")
    <3>1. tx' = [tx EXCEPT ![s].at = "insert", ![s].target = tx[s].target]
      BY <2>2 DEF Goto, IInv, TypeOK, Tx
    <3> QED
      BY <1>2, <1>4, <2>2, <3>1 DEF FindOpen, RequestOK, StageOf, Tx
  <2>3. ASSUME tx[s].op # "punchIn", NEW e \in OpenEntries,
               tx' = [tx EXCEPT ![s].at = "update", ![s].target = e]
        PROVE  IInv'
    BY <1>2, <1>4, <2>3 DEF FindOpen, RequestOK, StageOf, Written, OpenEntries
  <2> QED
    BY <1>4, <2>1, <2>2, <2>3 DEF FindOpen
<1>5. CASE FindStale(s)
  <2>1. CASE EndTx(s)
    BY <2>1, <1>1
  <2>2. ASSUME NEW e \in OpenEntries,
               tx' = [tx EXCEPT ![s].at = "update", ![s].target = e]
        PROVE  IInv'
    BY <1>2, <1>5, <2>2 DEF FindStale, RequestOK, StageOf, Written, OpenEntries
  <2> QED
    BY <1>5, <2>1, <2>2 DEF FindStale
<1>6. CASE ReadTimes(s)
  <2>1. tx' = [tx EXCEPT ![s].at = "update", ![s].target = tx[s].target]
    BY <1>6 DEF ReadTimes, Goto, IInv, TypeOK, Tx
  <2> QED
    BY <1>2, <1>6, <2>1 DEF ReadTimes, RequestOK, StageOf, Tx
<1> QED
  BY <1>3, <1>4, <1>5, <1>6

(* A new row is the only claim to the index, and no other request has it.  *)
LEMMA InsertStep ==
    ASSUME IInv, NEW s \in Session, Insert(s) PROVE IInv'
<1> tx[s] \in Tx /\ RequestOK(s)
  BY DEF IInv, TypeOK
<1>1. CASE EndTx(s)
  BY <1>1, EndStep DEF Insert
<1>2. ASSUME OpenEntries = {},
             NEW e \in EntryId \ (DOMAIN entry \cup {tx[r].target : r \in Session}),
             tx' = [tx EXCEPT ![s].at = "publish", ![s].target = e, ![s].holds = TRUE,
                      ![s].write = [status |-> "in_progress", by |-> None,
                                    autoClosed |-> FALSE]]
      PROVE  IInv'
  <2> DEFINE new == [status |-> "in_progress", by |-> None, autoClosed |-> FALSE]
             t == [tx[s] EXCEPT !.at = "publish", !.target = e, !.holds = TRUE,
                                !.write = new]
  <2>1. new \in Row /\ new # None /\ new.status = "in_progress" /\ new.by = None
    <3>1. new \in Row /\ new.status = "in_progress" /\ new.by = None
      BY DEF Row
    <3> QED
      BY <3>1, NoneIsNoRow
  <2>2. t \in Tx /\ tx' = [tx EXCEPT ![s] = t]
    BY <1>2, <2>1 DEF Tx, Statement, IInv, TypeOK
  <2>3. /\ tx'[s].at = "publish" /\ tx'[s].target = e /\ tx'[s].op = tx[s].op
        /\ tx'[s].client = tx[s].client /\ tx'[s].holds
        /\ tx'[s].write = new /\ tx'[s].log = tx[s].log
        /\ \A r \in Session \ {s} : tx'[r] = tx[r]
    BY <2>2 DEF IInv, TypeOK, Tx
  <2>4. /\ tx[s].op = "punchIn" /\ tx[s].log = None
        /\ tx[s].client \in PunchInId
        /\ UNCHANGED <<entry, events>> /\ ~IndexInDoubt(s)
    BY DEF Insert, RequestOK, StageOf
  <2> HIDE DEF t, new
  <2>a. /\ e # None /\ e \notin DOMAIN entry
        /\ \A r \in Session : tx[r].target # e
    BY PunchTransactionsAssumption
  <2>5. StageOf(s)'
    BY <2>1, <2>3, <2>4, <2>a DEF StageOf, Written
  <2>6. LockOf(s)'
    BY <2>3, <2>a DEF LockOf
  <2>7. HeldRow(s)'
    BY <2>1, <2>3, <2>4 DEF HeldRow
  <2>8. InsertOf(s)'
    <3>1. ASSUME NEW r \in Session \ {s}, tx[r].op = "punchIn" PROVE ~Written(r)
      BY <2>4, <3>1 DEF IInv, RequestOK, HeldRow, IndexInDoubt, Written
    <3> QED
      BY <1>2, <2>3, <2>4, <3>1 DEF InsertOf, Written, OpenEntries, IsOpen
  <2>9. LogOf(s)' /\ ClaimOf(s)'
    BY <2>3, <2>4 DEF LogOf, ClaimOf
  <2> QED
    BY <2>2, <2>4, <2>5, <2>6, <2>7, <2>8, <2>9, LocalStep DEF RequestOK
<1> QED
  BY <1>1, <1>2 DEF Insert

(* The lock of an edit: nobody else has the row, which has not been        *)
(* removed.                                                                *)
LEMMA LockRowStep ==
    ASSUME IInv, NEW s \in Session, LockRow(s) PROVE IInv'
<1> tx[s] \in Tx /\ RequestOK(s)
  BY DEF IInv, TypeOK
<1>1. CASE EndTx(s)
  BY <1>1, EndStep DEF LockRow
<1>2. CASE /\ entry[tx[s].target].status # "deleted"
           /\ tx' = [tx EXCEPT ![s].at = "update", ![s].holds = TRUE]
  <2> DEFINE t == [tx[s] EXCEPT !.at = "update", !.holds = TRUE]
  <2>1. t \in Tx /\ tx' = [tx EXCEPT ![s] = t]
    BY <1>2 DEF Tx, Statement, IInv, TypeOK
  <2>2. /\ tx'[s].at = "update" /\ tx'[s].target = tx[s].target
        /\ tx'[s].op = tx[s].op /\ tx'[s].client = tx[s].client /\ tx'[s].holds
        /\ tx'[s].write = tx[s].write /\ tx'[s].log = tx[s].log
        /\ \A r \in Session \ {s} : tx'[r] = tx[r]
    BY <2>1 DEF IInv, TypeOK, Tx
  <2>3. /\ tx[s].op = "edit" /\ tx[s].target # None
        /\ ~Written(s) /\ tx[s].log = None
        /\ UNCHANGED <<entry, events>> /\ ~Waits(s, tx[s].target)
    BY DEF LockRow, RequestOK, StageOf
  <2> HIDE DEF t
  <2>4. StageOf(s)'
    BY <2>2, <2>3 DEF RequestOK, StageOf, Written
  <2>5. LockOf(s)'
    BY <2>2, <2>3 DEF LockOf, Waits
  <2>6. HeldRow(s)'
    BY <1>2, <2>2, <2>3 DEF HeldRow, Written
  <2>7. InsertOf(s)' /\ LogOf(s)' /\ ClaimOf(s)'
    BY <2>2, <2>3 DEF InsertOf, LogOf, ClaimOf
  <2> QED
    BY <2>1, <2>3, <2>4, <2>5, <2>6, <2>7, LocalStep DEF RequestOK
<1> QED
  BY <1>1, <1>2 DEF LockRow

(* An UPDATE got the lock: what it writes is uncommitted until the end of  *)
(* the request, and the row stays as it is until then.                     *)
LEMMA WriteStep ==
    ASSUME IInv, NEW s \in Session, tx[s].at = "update", ~Waits(s, tx[s].target),
           UNCHANGED <<entry, events>>,
           NEW row \in Row, Write(s, row),
           tx[s].op = "punchOut" => row.status = "completed" /\ row.by = tx[s].client,
           tx[s].op = "sweep" =>
              /\ row.status = "completed" /\ row.by = "sweep"
              /\ entry[tx[s].target].status = "in_progress",
           tx[s].op = "remove" =>
              row.status = "deleted" /\ row.by = entry[tx[s].target].by,
           tx[s].op = "edit" =>
              \/ row.status = "completed" /\ row.by = "manager"
              \/ row = entry[tx[s].target] /\ row.status = "in_progress"
    PROVE  IInv'
<1> DEFINE t == [tx[s] EXCEPT !.at = "publish", !.holds = TRUE, !.write = row]
<1>1. tx[s] \in Tx /\ RequestOK(s)
  BY DEF IInv, TypeOK
<1>2. t \in Tx /\ tx' = [tx EXCEPT ![s] = t]
  BY <1>1 DEF Write, Tx, Statement, IInv, TypeOK
<1>3. /\ tx'[s].at = "publish" /\ tx'[s].target = tx[s].target
      /\ tx'[s].op = tx[s].op /\ tx'[s].client = tx[s].client /\ tx'[s].holds
      /\ tx'[s].write = row /\ tx'[s].log = tx[s].log
      /\ \A r \in Session \ {s} : tx'[r] = tx[r]
  BY <1>1, <1>2 DEF IInv, TypeOK, Tx
<1>4. /\ tx[s].op # "punchIn" /\ tx[s].target # None /\ tx[s].log = None
      /\ row # None
  BY <1>1, NoneIsNoRow DEF RequestOK, StageOf
<1> HIDE DEF t
<1>5. StageOf(s)'
  BY <1>1, <1>3, <1>4 DEF RequestOK, StageOf, Written
<1>6. LockOf(s)'
  BY <1>3 DEF LockOf, Waits
<1>7. HeldRow(s)'
  <2>1. tx[s].op = "edit" => entry[tx[s].target].status # "deleted"
    BY <1>1 DEF RequestOK, StageOf, HeldRow
  <2> QED
    BY <1>3, <1>4, <2>1 DEF HeldRow
<1>8. InsertOf(s)' /\ LogOf(s)' /\ ClaimOf(s)'
  BY <1>3, <1>4 DEF InsertOf, LogOf, ClaimOf
<1> QED
  BY <1>2, <1>5, <1>6, <1>7, <1>8, LocalStep DEF RequestOK

(* Each kind of UPDATE writes such a row, or ends the request.             *)
LEMMA UpdateStep ==
    ASSUME IInv, NEW s \in Session, Update(s) PROVE IInv'
<1> DEFINE row == entry[tx[s].target]
<1>1. /\ tx[s] \in Tx /\ RequestOK(s)
      /\ tx[s].at = "update" /\ ~Waits(s, tx[s].target)
      /\ UNCHANGED <<entry, events>>
  BY DEF IInv, TypeOK, Update
<1>2. row \in Row
  BY <1>1 DEF IInv, TypeOK, RequestOK, StageOf
<1>3. ASSUME EndTx(s) PROVE IInv'
  BY <1>1, <1>3, EndStep
<1>4. CASE tx[s].op = "punchOut" /\ CloseRow(s, row)
  <2>1. tx[s].client \in ClientId
    BY <1>1, <1>4 DEF RequestOK, StageOf, ClientId
  <2>2. [row EXCEPT !.status = "completed", !.by = tx[s].client] \in Row
    BY <1>2, <2>1 DEF Row
  <2> QED
    BY <1>1, <1>2, <1>4, <2>2, WriteStep DEF CloseRow, Row
<1>5. CASE tx[s].op = "sweep" /\ SweepRow(s, row)
  <2>1. [row EXCEPT !.status = "completed", !.by = "sweep", !.autoClosed = TRUE] \in Row
    BY <1>2 DEF Row
  <2> QED
    BY <1>1, <1>2, <1>3, <1>5, <2>1, WriteStep DEF SweepRow, Row
<1>6. CASE tx[s].op = "remove" /\ RemoveRow(s, row)
  <2>1. [row EXCEPT !.status = "deleted"] \in Row
    BY <1>2 DEF Row
  <2> QED
    BY <1>1, <1>2, <1>3, <1>6, <2>1, WriteStep DEF RemoveRow, Row
<1>7. CASE tx[s].op = "edit" /\ EditRow(s, row)
  <2>1. [row EXCEPT !.status = "completed", !.by = "manager"] \in Row
    BY <1>2 DEF Row
  <2>2. CASE Write(s, [row EXCEPT !.status = "completed", !.by = "manager"])
    BY <1>1, <1>2, <1>7, <2>1, <2>2, WriteStep DEF Row
  <2>3. CASE row.status = "in_progress" /\ Write(s, row)
    BY <1>1, <1>2, <1>7, <2>3, WriteStep
  <2> QED
    BY <1>7, <2>2, <2>3 DEF EditRow
<1> QED
  BY <1>4, <1>5, <1>6, <1>7 DEF Update

(* publishTimeEvent: an event that becomes this request's is no other's.   *)
LEMMA PublishStep ==
    ASSUME IInv, NEW s \in Session, PublishLookup(s) \/ Append(s) PROVE IInv'
<1>1. /\ tx[s] \in Tx /\ RequestOK(s)
      /\ UNCHANGED <<entry, events>>
  BY DEF IInv, TypeOK, PublishLookup, Append
<1>2. CASE EndTx(s)
  BY <1>1, <1>2, EndStep
<1>3. ASSUME NEW at \in {"append", "commit"}, NEW ev \in LogRow \cup {None},
             tx[s].at \in {"publish", "append"},
             tx' = [tx EXCEPT ![s].at = at, ![s].log = ev],
             at = "append" => ev = None,
             at = "commit" /\ ev = None => tx[s].client # None /\ Processed(tx[s].client),
             ev # None =>
                /\ at = "commit"
                /\ ev.type = EventType(tx[s].op) /\ ev.entry = tx[s].target
                /\ ev.client = tx[s].client
                /\ tx[s].client # None =>
                      /\ ~Processed(tx[s].client)
                      /\ \A r \in Session \ {s} :
                            tx[r].log # None => tx[r].client # tx[s].client
      PROVE  IInv'
  <2> DEFINE t == [tx[s] EXCEPT !.at = at, !.log = ev]
  <2>1. t \in Tx /\ tx' = [tx EXCEPT ![s] = t]
    BY <1>1, <1>3 DEF Tx, Statement, IInv, TypeOK
  <2>2. /\ tx'[s].at = at /\ tx'[s].target = tx[s].target /\ tx'[s].op = tx[s].op
        /\ tx'[s].client = tx[s].client /\ tx'[s].holds = tx[s].holds
        /\ tx'[s].write = tx[s].write /\ tx'[s].log = ev
        /\ \A r \in Session \ {s} : tx'[r] = tx[r]
    BY <1>1, <2>1 DEF IInv, TypeOK, Tx
  <2> HIDE DEF t
  <2>3. StageOf(s)'
    BY <1>1, <1>3, <2>2 DEF RequestOK, StageOf, Written
  <2>4. LockOf(s)' /\ HeldRow(s)'
    BY <1>1, <2>2 DEF RequestOK, LockOf, HeldRow, Written
  <2>5. InsertOf(s)'
    BY <1>1, <2>2 DEF RequestOK, InsertOf, Written, OpenEntries, IsOpen
  <2>6. LogOf(s)'
    BY <1>1, <1>3, <2>2 DEF LogOf, Processed, EventType
  <2>7. ClaimOf(s)'
    BY <1>3, <2>2 DEF ClaimOf
  <2> QED
    BY <1>1, <2>1, <2>3, <2>4, <2>5, <2>6, <2>7, LocalStep DEF RequestOK
<1>4. CASE PublishLookup(s) /\ ~EndTx(s)
  <2>1. tx[s].at = "publish" /\ tx[s].log = None
    BY <1>1, <1>4 DEF PublishLookup, RequestOK, StageOf
  <2>2. CASE tx[s].client # None /\ Processed(tx[s].client) /\ Goto(s, "commit")
    <3>1. tx' = [tx EXCEPT ![s].at = "commit", ![s].log = None]
      BY <1>1, <2>1, <2>2 DEF Goto, IInv, TypeOK, Tx
    <3> QED
      BY <1>3, <2>1, <2>2, <3>1
  <2>3. CASE Goto(s, "append")
    <3>1. tx' = [tx EXCEPT ![s].at = "append", ![s].log = None]
      BY <1>1, <2>1, <2>3 DEF Goto, IInv, TypeOK, Tx
    <3> QED
      BY <1>3, <2>1, <3>1
  <2> QED
    BY <1>4, <2>2, <2>3 DEF PublishLookup
<1>5. CASE Append(s) /\ ~EndTx(s)
  <2> DEFINE ev == [type |-> EventType(tx[s].op), entry |-> tx[s].target,
                    client |-> tx[s].client]
  <2>1. /\ tx[s].at = "append" /\ tx[s].target # None
        /\ tx' = [tx EXCEPT ![s].at = "commit", ![s].log = ev]
        /\ tx[s].client # None => ~Processed(tx[s].client)
    BY <1>1, <1>5 DEF Append, RequestOK, StageOf
  <2>2. ev \in LogRow
    BY <1>1, <2>1 DEF LogRow, Tx, Operation, EventType
  <2>3. ASSUME NEW r \in Session \ {s}, tx[r].log # None, tx[s].client # None
        PROVE  tx[r].client # tx[s].client
    <3>1. tx[r].log.client = tx[r].client
      BY <2>3 DEF IInv, RequestOK, LogOf
    <3> QED
      BY <1>5, <2>3, <3>1 DEF Append
  <2>4. /\ ev.type = EventType(tx[s].op) /\ ev.entry = tx[s].target
        /\ ev.client = tx[s].client /\ ev # None
    BY <2>2, NoneIsNoRow
  <2> HIDE DEF ev
  <2> QED
    BY <1>3, <2>1, <2>2, <2>3, <2>4
<1> QED
  BY <1>2, <1>4, <1>5

-----------------------------------------------------------------------------
(* A commit makes one row and at most one event visible.  The other        *)
(* requests' rows are theirs by lock or by id, so nothing they rely on     *)
(* changes under them.                                                     *)
LEMMA CommitStep ==
    ASSUME IInv, NEW s \in Session, Commit(s) PROVE IInv'
<1> DEFINE e == tx[s].target
           row == tx[s].write
           ev == tx[s].log
<1>1. /\ tx[s] \in Tx /\ RequestOK(s) /\ tx[s].at = "commit"
      /\ e \in EntryId /\ row \in Row /\ tx[s].holds
      /\ e \notin DOMAIN entry <=> tx[s].op = "punchIn"
  BY DEF IInv, TypeOK, Commit, RequestOK, StageOf, Written, Tx
<1>2. /\ tx' = [tx EXCEPT ![s] = Idle] /\ tx'[s] = Idle
      /\ \A r \in Session \ {s} : tx'[r] = tx[r]
  BY DEF IInv, TypeOK, Commit, EndTx
<1>3. /\ DOMAIN entry' = DOMAIN entry \cup {e}
      /\ entry'[e] = row
      /\ \A f \in DOMAIN entry \ {e} : entry'[f] = entry[f]
  BY DEF Commit
<1>4. events' = events \cup ({ev} \ {None})
  BY DEF Commit
<1>5. TypeOK'
  <2>1. entry' \in [DOMAIN entry' -> Row] /\ DOMAIN entry' \subseteq EntryId
    BY <1>1, <1>3 DEF Commit, IInv, TypeOK
  <2>2. events' \subseteq LogRow
    BY <1>1, <1>4 DEF IInv, TypeOK, Tx
  <2> QED
    BY <1>2, <2>1, <2>2, IdleIsTx DEF IInv, TypeOK
<1>6. \/ row.status # "in_progress" /\ OpenEntries' = OpenEntries \ {e}
      \/ row.status = "in_progress" /\ e \in OpenEntries /\ OpenEntries' = OpenEntries
      \/ /\ row.status = "in_progress" /\ tx[s].op = "punchIn"
         /\ OpenEntries = {} /\ OpenEntries' = {e}
  <2>1. CASE row.status # "in_progress"
    BY <1>3, <2>1 DEF OpenEntries, IsOpen
  <2>2. CASE row.status = "in_progress" /\ tx[s].op = "punchIn"
    <3>1. OpenEntries = {}
      BY <1>1, <2>2, NoneIsNoRow DEF RequestOK, InsertOf, Written
    <3> QED
      BY <1>3, <2>2, <3>1 DEF OpenEntries, IsOpen
  <2>3. CASE row.status = "in_progress" /\ tx[s].op # "punchIn"
    <3>1. row = entry[e] /\ e \in DOMAIN entry
      BY <1>1, <2>3, NoneIsNoRow DEF RequestOK, HeldRow, Written, Tx, Operation
    <3> QED
      BY <1>3, <2>3, <3>1 DEF OpenEntries, IsOpen
  <2> QED
    BY <2>1, <2>2, <2>3
<1>7. UniqueOpen'
  BY <1>6 DEF UniqueOpen, IInv
<1>8. EventsOK'
  <2>1. ASSUME ev # None, ev.client # None, NEW v \in events
        PROVE  v.client # ev.client
    BY <1>1, <2>1 DEF RequestOK, LogOf, Processed
  <2>2. OneEventPerClient'
    BY <1>4, <2>1 DEF OneEventPerClient, IInv, EventsOK
  <2>3. ASSUME ev # None, ev.client \in PunchOutId PROVE ev.type = "punch_out"
    BY <1>1, <2>3, PunchTransactionsAssumption
       DEF RequestOK, LogOf, StageOf, EventType, Tx, Operation, ClientId
  <2> QED
    BY <1>4, <2>2, <2>3 DEF EventsOK, IInv
<1>9. RequestOK(s)'
  BY <1>2 DEF Idle, RequestOK, StageOf, LockOf, HeldRow, InsertOf, LogOf, ClaimOf, Written
<1>10. ASSUME NEW r \in Session \ {s} PROVE RequestOK(r)'
  <2>1. RequestOK(r) /\ tx'[r] = tx[r]
    BY <1>2 DEF IInv
  <2>2. tx[r].holds => tx[r].target # e
    BY <1>1, <2>1 DEF RequestOK, LockOf
  <2>3. StageOf(r)'
    BY <1>3, <2>1, <2>2 DEF RequestOK, StageOf, Written
  <2>4. LockOf(r)'
    BY <1>2, <2>1 DEF RequestOK, LockOf, Idle
  <2>5. HeldRow(r)'
    <3>1. tx[r].holds /\ tx[r].op # "punchIn"
            => entry'[tx[r].target] = entry[tx[r].target]
      BY <1>3, <2>1, <2>2 DEF RequestOK, StageOf
    <3>2. Written(r) => tx[r].holds
      BY <2>1 DEF RequestOK, StageOf
    <3> QED
      BY <2>1, <3>1, <3>2 DEF RequestOK, HeldRow, Written
  <2>6. InsertOf(r)'
    <3>1. ASSUME tx[r].op = "punchIn", Written(r) PROVE OpenEntries' = {}
      <4>1. /\ OpenEntries = {}
            /\ tx[s].op # "punchIn"
        BY <1>1, <2>1, <3>1, NoneIsNoRow DEF RequestOK, InsertOf, Written
      <4> QED
        BY <1>6, <4>1
    <3>2. ASSUME tx[r].op = "punchIn", Written(r), NEW q \in Session \ {r},
                 (tx[q].op = "punchIn")'
          PROVE  ~Written(q)'
      BY <1>2, <2>1, <3>2 DEF RequestOK, InsertOf, Written, Idle
    <3> QED
      BY <2>1, <3>1, <3>2 DEF InsertOf, Written
  <2>7. LogOf(r)'
    <3>1. ASSUME tx[r].log # None, tx[r].client # None, ev # None
          PROVE  ev.client # tx[r].client
      BY <1>1, <2>1, <3>1 DEF RequestOK, LogOf, ClaimOf
    <3>2. Processed(tx[r].client) => Processed(tx[r].client)'
      BY <1>4, <2>1 DEF Processed
    <3>3. tx[r].log # None /\ tx[r].client # None => ~Processed(tx[r].client)'
      BY <1>4, <2>1, <3>1 DEF RequestOK, LogOf, Processed
    <3> QED
      BY <2>1, <3>2, <3>3 DEF RequestOK, LogOf, EventType
  <2>8. ClaimOf(r)'
    BY <1>2, <2>1 DEF RequestOK, ClaimOf, Idle
  <2> QED
    BY <2>3, <2>4, <2>5, <2>6, <2>7, <2>8 DEF RequestOK
<1>11. EndIsLogged'
  <2> DEFINE Logged(f, by, ev1) ==
        \/ by \in ClientId /\ ev1.type = "punch_out" /\ ev1.client = by
        \/ by = "sweep" /\ ev1.entry = f /\ ev1.type = "punch_out" /\ ev1.client = None
        \/ by = "manager" /\ ev1.entry = f /\ ev1.type = "entry_edited"
  <2>1. ASSUME NEW f \in DOMAIN entry, entry[f].by # None
        PROVE  \E v \in events' : Logged(f, entry[f].by, v)
    BY <1>4, <2>1 DEF IInv, EndIsLogged
  <2>2. ASSUME row.by # None PROVE \E v \in events' : Logged(e, row.by, v)
    <3>1. CASE tx[s].op = "punchOut"
      <4>1. row.by = tx[s].client /\ tx[s].client \in PunchOutId
        BY <1>1, <3>1, NoneIsNoRow DEF RequestOK, HeldRow, StageOf, Written
      <4>2. PICK v \in events' : v.client = tx[s].client
        BY <1>1, <1>4 DEF RequestOK, LogOf, Processed
      <4> QED
        BY <1>8, <4>1, <4>2 DEF EventsOK, ClientId
    <3>2. CASE tx[s].op \in {"sweep", "edit"} /\ row.by \in {"sweep", "manager"}
                 /\ (tx[s].op = "sweep" <=> row.by = "sweep")
      <4>1. /\ ev # None /\ ev.client = None /\ ev.entry = e
            /\ ev.type = EventType(tx[s].op)
        BY <1>1, <3>2 DEF RequestOK, LogOf, StageOf
      <4> QED
        BY <1>4, <3>2, <4>1 DEF EventType
    <3>3. CASE e \in DOMAIN entry /\ row.by = entry[e].by
      BY <2>1, <2>2, <3>3
    <3> QED
      BY <1>1, <2>2, <3>1, <3>2, <3>3, NoneIsNoRow
         DEF RequestOK, HeldRow, Written, Tx, Operation
  <2>3. ASSUME NEW f \in DOMAIN entry', entry'[f].by # None
        PROVE  \E v \in events' : Logged(f, entry'[f].by, v)
    BY <1>3, <2>1, <2>2, <2>3
  <2> QED
    BY <2>3 DEF EndIsLogged
<1> QED
  BY <1>5, <1>7, <1>8, <1>9, <1>10, <1>11 DEF IInv

(* Every statement of every session preserves the invariant.               *)
LEMMA NextIInv ==
    ASSUME IInv, [Next]_ptVars PROVE IInv'
<1>1. ASSUME NEW s \in Session, Begin(s) \/ Statements(s) \/ Lose(s) PROVE IInv'
  BY <1>1, BeginStep, ReadStep, InsertStep, LockRowStep, UpdateStep, PublishStep,
     CommitStep, EndStep DEF Statements, Lose, Rollback
<1>2. CASE UNCHANGED ptVars
  <2>1. TypeOK' /\ UniqueOpen' /\ EventsOK' /\ EndIsLogged'
    BY <1>2 DEF ptVars, IInv, TypeOK, UniqueOpen, OpenEntries, IsOpen, EventsOK,
                OneEventPerClient, EndIsLogged
  <2>2. ASSUME NEW s \in Session PROVE RequestOK(s)'
    <3>1. RequestOK(s)
      BY DEF IInv
    <3>2. StageOf(s)' /\ LockOf(s)'
      BY <1>2, <3>1 DEF ptVars, RequestOK, StageOf, LockOf, Written
    <3>3. HeldRow(s)' /\ InsertOf(s)'
      BY <1>2, <3>1 DEF ptVars, RequestOK, HeldRow, InsertOf, Written, OpenEntries, IsOpen
    <3>4. LogOf(s)' /\ ClaimOf(s)'
      BY <1>2, <3>1 DEF ptVars, RequestOK, LogOf, ClaimOf, Processed, EventType
    <3> QED
      BY <3>2, <3>3, <3>4 DEF RequestOK
  <2> QED
    BY <2>1, <2>2 DEF IInv
<1> QED
  BY <1>1, <1>2 DEF Next

(* The inductive invariant holds of every reachable state: no request's    *)
(* rows, ids or claims change under it while it runs.                      *)
THEOREM Invariant == Spec => []IInv
BY InitIInv, NextIInv, PTL DEF Spec

(* TypeOK holds of every reachable state.                                  *)
THEOREM TransactionsTypeCorrect == Spec => []TypeOK
<1>1. IInv => TypeOK
  BY DEF IInv
<1> QED
  BY Invariant, <1>1, PTL

(* OneOpenEntry: for any number of overlapping punch-ins, edits, removals  *)
(* and sweeps, the index leaves a worker one open row.                     *)
THEOREM OneOpenEntryHolds == Spec => []OneOpenEntry
<1>1. ASSUME IInv PROVE OneOpenEntry
  <2>1. CASE OpenEntries = {}
    BY <2>1, FS_EmptySet DEF OneOpenEntry
  <2>2. ASSUME NEW e \in OpenEntries PROVE OneOpenEntry
    <3>1. OpenEntries = {e}
      BY <1>1, <2>2 DEF IInv, UniqueOpen
    <3>2. Cardinality({e}) = 1
      BY FS_Singleton
    <3> QED
      BY <3>1, <3>2 DEF OneOpenEntry
  <2> QED
    BY <2>1, <2>2
<1> QED
  BY Invariant, <1>1, PTL

(* OneEventPerClient: a client id has one event, however often its request *)
(* is sent and whatever it overlaps.                                       *)
THEOREM OneEventPerClientHolds == Spec => []OneEventPerClient
<1>1. IInv => OneEventPerClient
  BY DEF IInv, EventsOK
<1> QED
  BY Invariant, <1>1, PTL

(* EndIsLogged: no entry's end becomes visible without an event for it.    *)
THEOREM EndIsLoggedHolds == Spec => []EndIsLogged
<1>1. IInv => EndIsLogged
  BY DEF IInv
<1> QED
  BY Invariant, <1>1, PTL

(* What one commit may do to rows that have left the open state: all other *)
(* steps leave the committed rows alone.                                   *)
LEMMA CommittedRows ==
    ASSUME IInv, [Next]_ptVars, NEW e \in DOMAIN entry
    PROVE  \/ entry'[e] = entry[e]
           \/ \E s \in Session :
                /\ tx[s].target = e /\ Written(s) /\ tx[s].op # "punchIn"
                /\ RequestOK(s) /\ tx[s] \in Tx
                /\ entry'[e] = tx[s].write
<1>1. CASE entry' = entry
  BY <1>1
<1>2. ASSUME NEW s \in Session, Commit(s), tx[s].target # e PROVE entry'[e] = entry[e]
  BY <1>2 DEF Commit
<1>3. ASSUME NEW s \in Session, Commit(s), tx[s].target = e
      PROVE  /\ Written(s) /\ tx[s].op # "punchIn" /\ RequestOK(s) /\ tx[s] \in Tx
             /\ entry'[e] = tx[s].write
  BY <1>3 DEF Commit, IInv, TypeOK, RequestOK, StageOf
<1>4. entry' = entry \/ \E s \in Session : Commit(s)
  BY DEF Next, ptVars, Begin, Statements, Lose, Rollback, Lookup, FindOpen, Insert,
         FindStale, ReadTimes, LockRow, Update, PublishLookup, Append
<1> QED
  BY <1>1, <1>2, <1>3, <1>4

(* SweepLeavesClosedEntries: the row a sweep closes was open when it got   *)
(* the row's lock, and stayed so until it committed.                       *)
THEOREM SweepLeavesClosed == Spec => SweepLeavesClosedEntries
<1>1. ASSUME IInv, [Next]_ptVars, NEW e \in DOMAIN entry,
             entry[e].status # "in_progress", entry'[e].by = "sweep"
      PROVE  entry[e].by = "sweep"
  <2>1. CASE entry'[e] = entry[e]
    BY <1>1, <2>1
  <2>2. ASSUME NEW s \in Session, tx[s].target = e, Written(s), tx[s].op # "punchIn",
               RequestOK(s), tx[s] \in Tx, entry'[e] = tx[s].write
        PROVE  entry[e].by = "sweep"
    BY <1>1, <2>2, PunchTransactionsAssumption
       DEF RequestOK, HeldRow, StageOf, Tx, Operation, ClientId
  <2> QED
    BY <1>1, <2>1, <2>2, CommittedRows
<1>2. IInv /\ [Next]_ptVars =>
        [\A e \in DOMAIN entry :
            entry[e].status # "in_progress" /\ entry'[e].by = "sweep"
            => entry[e].by = "sweep"]_ptVars
  BY <1>1
<1> QED
  BY Invariant, <1>2, PTL DEF Spec, SweepLeavesClosedEntries

(* EditsLeaveRemovedEntries: an edit commits onto a row it found unremoved *)
(* under the lock it has held since.                                       *)
THEOREM EditsLeaveRemoved == Spec => EditsLeaveRemovedEntries
<1>1. ASSUME IInv, [Next]_ptVars, NEW e \in DOMAIN entry,
             entry[e].status = "deleted", entry'[e].by = "manager"
      PROVE  entry'[e].status = "deleted"
  <2>1. CASE entry'[e] = entry[e]
    BY <1>1, <2>1
  <2>2. ASSUME NEW s \in Session, tx[s].target = e, Written(s), tx[s].op # "punchIn",
               RequestOK(s), tx[s] \in Tx, entry'[e] = tx[s].write
        PROVE  entry'[e].status = "deleted"
    BY <1>1, <2>2, PunchTransactionsAssumption
       DEF RequestOK, HeldRow, StageOf, Tx, Operation, ClientId
  <2> QED
    BY <1>1, <2>1, <2>2, CommittedRows
<1>2. IInv /\ [Next]_ptVars =>
        [\A e \in DOMAIN entry :
            entry[e].status = "deleted" /\ entry'[e].by = "manager"
            => entry'[e].status = "deleted"]_ptVars
  BY <1>1
<1> QED
  BY Invariant, <1>2, PTL DEF Spec, EditsLeaveRemovedEntries

-----------------------------------------------------------------------------
(***************************************************************************)
(* Waiting.                                                                *)
(***************************************************************************)
\* The transactions that the next statement of s waits for: the ones with an
\* entry of the index on open rows in doubt, with a lock on the row, or with
\* an uncommitted event of the same client id.
WaitsFor(s) ==
    {r \in Session \ {s} :
       \/ /\ tx[s].at = "insert" /\ tx[r].write # None
          /\ tx[r].write.status = "in_progress" \/ tx[r].target \in OpenEntries
       \/ /\ tx[s].at \in {"lock", "update"}
          /\ tx[r].target = tx[s].target /\ tx[r].holds
       \/ /\ tx[s].at = "append" /\ tx[s].client # None
          /\ tx[r].log # None /\ tx[r].log.client = tx[s].client}

Served == {s \in Session : tx[s] # Idle}

(* The statements that may wait do so exactly while there is one to wait   *)
(* for.                                                                    *)
LEMMA WaitingIsForSomebody ==
    ASSUME NEW s \in Session
    PROVE  /\ tx[s].at = "insert" => (IndexInDoubt(s) <=> WaitsFor(s) # {})
           /\ tx[s].at \in {"lock", "update"} =>
                 (Waits(s, tx[s].target) <=> WaitsFor(s) # {})
           /\ tx[s].at = "append" =>
                 ((\A r \in Session \ {s} :
                     tx[s].client # None /\ tx[r].log # None => tx[r].log.client # tx[s].client)
                  <=> WaitsFor(s) = {})
BY DEF WaitsFor, IndexInDoubt, Waits

\* How far a request has come, counted down: whoever waits for another is
\* behind it.
StatementsLeft(t) ==
    CASE t.at = "commit"                      -> 1
      [] t.at = "append"                      -> 2
      [] t.at = "publish"                     -> 3
      [] t.at = "update" /\ t.op = "edit"     -> 4
      [] OTHER                                -> 5

(* Rows, index entries and client ids are taken in an order without        *)
(* cycles: a request waits only for requests that have come further.       *)
LEMMA WaitsForFurther ==
    ASSUME IInv, NEW s \in Session, NEW r \in WaitsFor(s)
    PROVE  /\ r \in Served
           /\ StatementsLeft(tx[r]) < StatementsLeft(tx[s])
<1>1. r \in Session /\ r # s /\ StageOf(s) /\ StageOf(r) /\ LockOf(s)
  BY DEF WaitsFor, IInv, RequestOK
<1>2. CASE tx[s].at = "insert"
  <2>1. tx[r].at \in {"publish", "append", "commit"}
    BY <1>1, <1>2 DEF WaitsFor, StageOf, Written
  <2> QED
    BY <1>1, <1>2, <2>1 DEF StatementsLeft, Served, Idle
<1>3. CASE tx[s].at \in {"lock", "update"}
  <2>1. tx[r].holds /\ ~tx[s].holds
    BY <1>1, <1>3 DEF WaitsFor, LockOf
  <2>2. ~(tx[s].at = "update" /\ tx[s].op = "edit")
    BY <1>1, <2>1 DEF StageOf
  <2>3. \/ tx[r].at \in {"publish", "append", "commit"}
        \/ tx[r].at = "update" /\ tx[r].op = "edit"
    BY <1>1, <2>1 DEF StageOf
  <2>4. StatementsLeft(tx[s]) = 5 /\ StatementsLeft(tx[r]) \in 1..4
    BY <1>3, <2>2, <2>3 DEF StatementsLeft
  <2> QED
    BY <1>1, <2>3, <2>4 DEF Served, Idle
<1>4. CASE tx[s].at = "append"
  <2>1. tx[r].at = "commit"
    BY <1>1, <1>4 DEF WaitsFor, StageOf
  <2> QED
    BY <1>1, <1>4, <2>1 DEF StatementsLeft, Served, Idle
<1> QED
  BY <1>2, <1>3, <1>4 DEF WaitsFor

(* For any number of sessions, rows and client ids: while requests are     *)
(* being served, one of them waits for nobody.  PostgreSQL never has to    *)
(* break a deadlock between punches, sweeps, edits and removals.           *)
THEOREM NoCircularWait == Spec => [](Served # {} => \E s \in Served : WaitsFor(s) = {})
<1>1. ASSUME IInv, NEW s0 \in Served PROVE \E s \in Served : WaitsFor(s) = {}
  <2>1. ASSUME \A s \in Served : WaitsFor(s) # {} PROVE FALSE
    <3> DEFINE left(s) == StatementsLeft(tx[s])
    <3>1. \A s \in Served : left(s) \in 1..5
      BY DEF StatementsLeft
    <3>2. ASSUME NEW s \in Served PROVE \E r \in Served : left(r) < left(s)
      <4>1. PICK r \in WaitsFor(s) : TRUE
        BY <2>1
      <4> QED
        BY <1>1, <4>1, WaitsForFurther DEF Served
    <3> HIDE DEF left
    <3>3. ~ \E s \in Served : left(s) <= 1
      BY <3>1, <3>2
    <3>4. ~ \E s \in Served : left(s) <= 2
      BY <3>1, <3>2, <3>3
    <3>5. ~ \E s \in Served : left(s) <= 3
      BY <3>1, <3>2, <3>4
    <3>6. ~ \E s \in Served : left(s) <= 4
      BY <3>1, <3>2, <3>5
    <3>7. ~ \E s \in Served : left(s) <= 5
      BY <3>1, <3>2, <3>6
    <3> QED
      BY <3>1, <3>7
  <2> QED
    BY <2>1
<1>2. IInv => (Served # {} => \E s \in Served : WaitsFor(s) = {})
  BY <1>1
<1> QED
  BY Invariant, <1>2, PTL
-----------------------------------------------------------------------------
(***************************************************************************)
(* The refinement of AtomicRequests.  A commit is a whole request if what  *)
(* it makes visible follows from the row as it is at that moment, not as   *)
(* it was when the UPDATE ran.                                             *)
(***************************************************************************)
NewRow == [status |-> "in_progress", by |-> None, autoClosed |-> FALSE]

\* The UPDATE of a request of this kind found row and wrote this.
Outcome(op, client, write, row) ==
    \/ /\ op = "punchOut"
       /\ write = [row EXCEPT !.status = "completed", !.by = client]
    \/ /\ op = "sweep" /\ row.status = "in_progress"
       /\ write = [row EXCEPT !.status = "completed", !.by = "sweep", !.autoClosed = TRUE]
    \/ /\ op = "remove" /\ row.status # "deleted"
       /\ write = [row EXCEPT !.status = "deleted"]
    \/ /\ op = "edit" /\ row.status # "deleted"
       /\ \/ write = [row EXCEPT !.status = "completed", !.by = "manager"]
          \/ row.status = "in_progress" /\ write = row

WriteOf(s) ==
    Written(s) =>
        /\ tx[s].op = "punchIn" => tx[s].write = NewRow
        /\ tx[s].op # "punchIn" =>
              Outcome(tx[s].op, tx[s].client, tx[s].write, entry[tx[s].target])

WriteInv == IInv /\ \A s \in Session : WriteOf(s)

\* s is still at the request, with the row and the write it had.
SameWrite(s) ==
    /\ tx'[s].op = tx[s].op /\ tx'[s].client = tx[s].client
    /\ tx'[s].target = tx[s].target /\ tx'[s].write = tx[s].write

(* A request that has written goes on with what it wrote, or is over; only *)
(* an INSERT or UPDATE gives it something to commit.                       *)
LEMMA WriteIsKept ==
    ASSUME IInv, NEW s \in Session, Begin(s) \/ Statements(s) \/ Lose(s)
    PROVE  \/ tx'[s].write = None
           \/ Written(s) /\ SameWrite(s) /\ UNCHANGED entry
           \/ Insert(s) \/ Update(s)
<1> tx[s] \in Tx /\ StageOf(s) /\ tx \in [Session -> Tx]
  BY DEF IInv, TypeOK, RequestOK
<1>1. ASSUME EndTx(s) PROVE tx'[s].write = None
  BY <1>1 DEF EndTx, Idle
<1>2. CASE Begin(s)
  BY <1>2 DEF Begin, Idle
<1>3. ASSUME NEW at \in Statement, Goto(s, at), UNCHANGED entry
      PROVE  tx'[s].write = None \/ (Written(s) /\ SameWrite(s) /\ UNCHANGED entry)
  BY <1>3 DEF Goto, Written, SameWrite, Tx
<1>4. CASE Lookup(s) \/ ReadTimes(s) \/ PublishLookup(s)
  BY <1>1, <1>3, <1>4 DEF Lookup, ReadTimes, PublishLookup, Statement
<1>5. CASE FindOpen(s) \/ FindStale(s) \/ LockRow(s)
  <2>1. tx[s].write = None
    BY <1>5 DEF FindOpen, FindStale, LockRow, StageOf, Written
  <2>2. tx'[s].write = tx[s].write \/ EndTx(s)
    BY <1>5 DEF FindOpen, FindStale, LockRow, Goto, Tx
  <2> QED
    BY <1>1, <2>1, <2>2
<1>6. CASE Append(s)
  <2>1. EndTx(s) \/ SameWrite(s)
    BY <1>6 DEF Append, SameWrite, Tx
  <2> QED
    BY <1>1, <1>6, <2>1 DEF Append, Written, SameWrite
<1>7. CASE Commit(s) \/ Lose(s)
  BY <1>1, <1>7 DEF Commit, Lose, Rollback
<1> QED
  BY <1>2, <1>4, <1>5, <1>6, <1>7 DEF Statements

(* A statement of one session leaves the requests of the others alone.     *)
LEMMA OthersKeepTheirs ==
    ASSUME IInv, NEW s \in Session, NEW r \in Session \ {s},
           Begin(r) \/ Statements(r) \/ Lose(r)
    PROVE  tx'[s] = tx[s]
<1> tx \in [Session -> Tx]
  BY DEF IInv, TypeOK
<1>1. CASE Update(r)
  BY <1>1 DEF Update, Write, EndTx, CloseRow, SweepRow, RemoveRow, EditRow
<1>2. CASE Begin(r)
  BY <1>2 DEF Begin
<1> QED
  BY <1>1, <1>2 DEF Statements, Lose, Rollback, Lookup, FindOpen, Insert, FindStale,
     ReadTimes, LockRow, PublishLookup, Append, Commit, Goto, EndTx

(* The row under a written request stays as its UPDATE found it: whoever   *)
(* commits another row would need its lock.                                *)
LEMMA HeldRowStays ==
    ASSUME IInv, NEW s \in Session, Written(s), tx[s].op # "punchIn",
           NEW r \in Session \ {s}, Begin(r) \/ Statements(r) \/ Lose(r)
    PROVE  entry'[tx[s].target] = entry[tx[s].target]
<1>1. /\ RequestOK(s) /\ RequestOK(r)
      /\ tx[s].target \in DOMAIN entry
  BY DEF IInv, RequestOK, StageOf
<1>2. CASE Commit(r)
  <2>1. tx[r].target # tx[s].target
    BY <1>1, <1>2 DEF Commit, RequestOK, LockOf, StageOf
  <2> QED
    BY <1>1, <1>2, <2>1 DEF Commit
<1>3. CASE entry' = entry
  BY <1>3
<1> QED
  BY <1>2, <1>3 DEF Begin, Statements, Lose, Rollback, Lookup, FindOpen, Insert, FindStale,
     ReadTimes, LockRow, Update, PublishLookup, Append

(* What an INSERT or UPDATE writes is the outcome of its request.          *)
LEMMA StatementWrites ==
    ASSUME IInv, NEW s \in Session, Insert(s) \/ Update(s)
    PROVE  WriteOf(s)'
<1> /\ tx[s] \in Tx /\ tx \in [Session -> Tx] /\ RequestOK(s)
    /\ UNCHANGED entry
  BY DEF IInv, TypeOK, Insert, Update
<1>1. CASE EndTx(s)
  BY <1>1 DEF EndTx, Idle, WriteOf, Written
<1>2. CASE Insert(s)
  <2>1. tx[s].op = "punchIn"
    BY <1>2 DEF Insert, RequestOK, StageOf
  <2>2. ASSUME NEW e, tx' = [tx EXCEPT ![s].at = "publish", ![s].target = e,
                               ![s].holds = TRUE, ![s].write = NewRow]
        PROVE  tx'[s].op = tx[s].op /\ tx'[s].write = NewRow
    BY <2>2 DEF Tx
  <2> QED
    BY <1>1, <1>2, <2>1, <2>2 DEF Insert, NewRow, WriteOf
<1>3. CASE Update(s)
  <2> DEFINE row == entry[tx[s].target]
  <2>1. ASSUME NEW new, Write(s, new)
        PROVE  /\ tx'[s].op = tx[s].op /\ tx'[s].client = tx[s].client
               /\ tx'[s].target = tx[s].target /\ tx'[s].write = new
    BY <2>1 DEF Write, Tx
  <2>2. tx[s].op # "punchIn" /\ (tx[s].op = "edit" => row.status # "deleted")
    BY <1>3 DEF Update, RequestOK, StageOf, HeldRow
  <2>3. EndTx(s) \/ (tx'[s].op = tx[s].op /\ tx'[s].target = tx[s].target
                     /\ Outcome(tx'[s].op, tx'[s].client, tx'[s].write, row))
    <3>1. CASE tx[s].op = "punchOut" /\ CloseRow(s, row)
      BY <3>1, <2>1 DEF CloseRow, Outcome
    <3>2. CASE tx[s].op = "sweep" /\ SweepRow(s, row)
      BY <3>2, <2>1 DEF SweepRow, Outcome
    <3>3. CASE tx[s].op = "remove" /\ RemoveRow(s, row)
      BY <3>3, <2>1 DEF RemoveRow, Outcome
    <3>4. CASE tx[s].op = "edit" /\ EditRow(s, row)
      BY <3>4, <2>1, <2>2 DEF EditRow, Outcome
    <3> QED
      BY <1>3, <3>1, <3>2, <3>3, <3>4 DEF Update
  <2> QED
    BY <1>1, <2>2, <2>3 DEF WriteOf
<1> QED
  BY <1>2, <1>3

(* However long ago its UPDATE ran: a request that has written is about to *)
(* commit what it makes of the row as it is now.                           *)
THEOREM WritesStayCurrent == Spec => []WriteInv
<1>1. Init => WriteInv
  BY InitIInv DEF WriteInv, Init, Idle, WriteOf, Written
<1>2. ASSUME WriteInv, [Next]_ptVars PROVE WriteInv'
  <2>1. IInv'
    BY <1>2, NextIInv DEF WriteInv
  <2>2. ASSUME NEW s \in Session, Begin(s) \/ Statements(s) \/ Lose(s) PROVE WriteOf(s)'
    <3>1. CASE tx'[s].write = None
      BY <3>1 DEF WriteOf, Written
    <3>2. CASE Written(s) /\ SameWrite(s) /\ UNCHANGED entry
      BY <1>2, <3>2 DEF WriteInv, WriteOf, Written, SameWrite
    <3>3. CASE Insert(s) \/ Update(s)
      BY <1>2, <3>3, StatementWrites DEF WriteInv
    <3> QED
      BY <1>2, <2>2, <3>1, <3>2, <3>3, WriteIsKept DEF WriteInv
  <2>3. ASSUME NEW r \in Session, Begin(r) \/ Statements(r) \/ Lose(r),
               NEW s \in Session \ {r}
        PROVE  WriteOf(s)'
    <3>1. tx'[s] = tx[s]
      BY <1>2, <2>3, OthersKeepTheirs DEF WriteInv
    <3>2. CASE Written(s) /\ tx[s].op # "punchIn"
      <4>1. entry'[tx[s].target] = entry[tx[s].target]
        BY <1>2, <2>3, <3>2, HeldRowStays DEF WriteInv
      <4> QED
        BY <1>2, <3>1, <3>2, <4>1 DEF WriteInv, WriteOf
    <3>3. CASE Written(s) /\ tx[s].op = "punchIn"
      BY <1>2, <3>1, <3>3 DEF WriteInv, WriteOf
    <3> QED
      BY <3>1, <3>2, <3>3 DEF WriteOf, Written
  <2>4. ASSUME UNCHANGED ptVars, NEW s \in Session PROVE WriteOf(s)'
    BY <1>2, <2>4 DEF ptVars, WriteInv, WriteOf, Written
  <2>5. ASSUME NEW s \in Session PROVE WriteOf(s)'
    <3>1. CASE UNCHANGED ptVars
      BY <2>4, <3>1
    <3>2. ASSUME NEW r \in Session, Begin(r) \/ Statements(r) \/ Lose(r)
          PROVE  WriteOf(s)'
      BY <2>2, <2>3, <3>2
    <3> QED
      BY <1>2, <3>1, <3>2 DEF Next
  <2> QED
    BY <2>1, <2>5 DEF WriteInv
<1> QED
  BY <1>1, <1>2, PTL DEF Spec

(* A commit puts its row into the table, and its event into the log unless *)
(* the log has one for its client id.                                      *)
LEMMA CommitPublishes ==
    ASSUME IInv, NEW s \in Session, Commit(s)
    PROVE  /\ Atomic!Put(tx[s].target, tx[s].write)
           /\ Atomic!Publish(EventType(tx[s].op), tx[s].target, tx[s].client)
<1> DEFINE ev == [type |-> EventType(tx[s].op), entry |-> tx[s].target,
                  client |-> tx[s].client]
<1>1. /\ tx[s] \in Tx /\ RequestOK(s) /\ tx[s].at = "commit"
      /\ events' = events \cup ({tx[s].log} \ {None})
  BY DEF IInv, TypeOK, Commit
<1>2. Atomic!Put(tx[s].target, tx[s].write)
  BY DEF Commit, Atomic!Put
<1>3. CASE tx[s].log = None
  <2>1. events' = events /\ tx[s].client # None /\ Processed(tx[s].client)
    BY <1>1, <1>3 DEF RequestOK, LogOf
  <2> QED
    BY <1>2, <2>1 DEF Processed, Atomic!Publish
<1>4. CASE tx[s].log # None
  <2>1. tx[s].log = ev
    BY <1>1, <1>4 DEF Tx, LogRow, RequestOK, LogOf
  <2>2. tx[s].client # None => ~Processed(tx[s].client)
    BY <1>1, <1>4 DEF RequestOK, LogOf
  <2>3. events' = events \cup {ev}
    BY <1>1, <1>4, <2>1
  <2> HIDE DEF ev
  <2>4. events' = IF tx[s].client # None /\ Processed(tx[s].client) THEN events
                  ELSE events \cup {ev}
    BY <2>2, <2>3
  <2> QED
    BY <1>2, <2>4 DEF Atomic!Publish, Processed, ev
<1> QED
  BY <1>2, <1>3, <1>4

(* One commit is one request, of one of the five kinds.                    *)
LEMMA CommitIsARequest ==
    ASSUME IInv, NEW s \in Session, WriteOf(s), Commit(s)
    PROVE  Atomic!Next
<1> DEFINE e == tx[s].target
           c == tx[s].client
<1>1. /\ tx[s] \in Tx /\ RequestOK(s) /\ Written(s) /\ e \in EntryId
      /\ tx[s].op # "punchIn" => e \in DOMAIN entry
  BY NoneIsNoRow DEF IInv, TypeOK, Commit, RequestOK, StageOf, Tx
<1>2. /\ Atomic!Put(e, tx[s].write)
      /\ Atomic!Publish(EventType(tx[s].op), e, c)
  BY CommitPublishes
<1>3. CASE tx[s].op = "punchIn"
  <2>1. /\ e \notin DOMAIN entry /\ c \in PunchInId /\ OpenEntries = {}
        /\ tx[s].write = NewRow
    BY <1>1, <1>3 DEF RequestOK, StageOf, InsertOf, WriteOf
  <2>2. Atomic!PunchIn(e, c)
    BY <1>2, <1>3, <2>1 DEF Atomic!PunchIn, Atomic!IsOpen, OpenEntries, IsOpen, EventType,
       NewRow
  <2> QED
    BY <1>1, <2>1, <2>2 DEF Atomic!Next
<1>4. CASE tx[s].op # "punchIn"
  <2>1. e \in DOMAIN entry /\ Outcome(tx[s].op, c, tx[s].write, entry[e])
    BY <1>1, <1>4 DEF WriteOf
  <2>2. CASE tx[s].op = "punchOut"
    <3>1. c \in PunchOutId
      BY <1>1, <2>2 DEF RequestOK, StageOf
    <3>2. Atomic!PunchOut(e, c)
      BY <1>2, <2>1, <2>2 DEF Outcome, Atomic!PunchOut, EventType
    <3> QED
      BY <2>1, <3>1, <3>2 DEF Atomic!Next
  <2>3. tx[s].op \in {"sweep", "remove", "edit"} => c = None
    BY <1>1 DEF RequestOK, StageOf
  <2>4. CASE tx[s].op = "sweep"
    <3>1. Atomic!Sweep(e)
      BY <1>2, <2>1, <2>3, <2>4 DEF Outcome, Atomic!Sweep, Atomic!IsOpen, EventType
    <3> QED
      BY <2>1, <3>1 DEF Atomic!Next
  <2>5. CASE tx[s].op = "remove"
    <3>1. Atomic!Remove(e)
      BY <1>2, <2>1, <2>3, <2>5 DEF Outcome, Atomic!Remove, EventType
    <3> QED
      BY <2>1, <3>1 DEF Atomic!Next
  <2>6. CASE tx[s].op = "edit"
    <3>1. Atomic!Publish("entry_edited", e, None) /\ entry[e].status # "deleted"
      BY <1>2, <2>1, <2>3, <2>6 DEF Outcome, EventType
    <3>2. ASSUME tx[s].write = entry[e] PROVE UNCHANGED entry
      BY <1>2, <2>1, <3>2 DEF Atomic!Put, IInv, TypeOK
    <3>3. Atomic!Edit(e)
      BY <1>2, <2>1, <2>6, <3>1, <3>2 DEF Outcome, Atomic!Edit, Atomic!IsOpen
    <3> QED
      BY <2>1, <3>3 DEF Atomic!Next
  <2> QED
    BY <1>1, <1>4, <2>2, <2>4, <2>5, <2>6 DEF Tx, Operation
<1> QED
  BY <1>3, <1>4

(* ImplementsAtomicRequests: for any number of sessions, rows and client   *)
(* ids, overlapping requests have the effects of requests that run one     *)
(* after another in the order of their commits.                            *)
THEOREM RequestsAreAtomic == Spec => ImplementsAtomicRequests
<1>1. Init => Atomic!Init
  BY DEF Init, Atomic!Init
<1>2. ASSUME WriteInv, [Next]_ptVars PROVE [Atomic!Next]_<<entry, events>>
  <2>1. CASE UNCHANGED <<entry, events>>
    BY <2>1
  <2>2. ASSUME NEW s \in Session, Commit(s) PROVE Atomic!Next
    BY <1>2, <2>2, CommitIsARequest DEF WriteInv
  <2>3. UNCHANGED <<entry, events>> \/ \E s \in Session : Commit(s)
    BY <1>2 DEF Next, ptVars, Begin, Statements, Lose, Rollback, Lookup, FindOpen, Insert,
       FindStale, ReadTimes, LockRow, Update, PublishLookup, Append
  <2> QED
    BY <2>1, <2>2, <2>3
<1> QED
  BY <1>1, <1>2, WritesStayCurrent, PTL
     DEF Spec, ImplementsAtomicRequests, Atomic!Spec, Atomic!tables
=============================================================================
