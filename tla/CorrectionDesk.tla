--------------------------- MODULE CorrectionDesk ---------------------------
(***************************************************************************)
(* Time corrections from the dashboard: what the pages of workers and      *)
(* managers show, what is clicked on them, and the statements by which the *)
(* API files, withdraws and decides a request while others do the same.    *)
(*                                                                         *)
(*   request  time_correction_requests, as committed;                      *)
(*   changed  the requests whose change of the time record is committed;   *)
(*   locked   the pay period all this is about is locked;                  *)
(*   tx       each session's mutation on its way, with its transaction;    *)
(*   list     the query cache of each session: what each list shows as     *)
(*            pending, and how its fetch stands;                           *)
(*   told     the outcomes each session was told of.                       *)
(*                                                                         *)
(* A session is a browser tab; one user may have several.  The buttons are *)
(* disabled while a mutation runs, so a session has at most one.  Nothing  *)
(* is pushed to the corrections pages: a list changes when it is fetched,  *)
(* on opening a page or after an own success.  PostgreSQL is at READ       *)
(* COMMITTED: a statement sees what is committed when it starts and waits  *)
(* for a row another transaction has locked or written.                    *)
(*                                                                         *)
(* Editing and removing an entry are both a "fix" here, and what the       *)
(* appliers write is left to TimeCorrections.  The statements after a      *)
(* mutation's last write (audit, names for the e-mail) change nothing.     *)
(***************************************************************************)
EXTENDS Naturals, FiniteSets

CONSTANTS
    Session, User,      \* browser sessions and the users signed in to them
    UserOf,             \* whose session it is
    Approver,           \* the users who may decide requests
    Filer,              \* bound: the users who file requests
    Entry,              \* time entries
    OwnerOf,            \* whose entry it is
    RequestId,          \* ids a request may get
    MaxLoads,           \* bound: openings of a page and failed fetches
    None

ASSUME CorrectionDeskAssumption ==
    /\ UserOf \in [Session -> User]
    /\ OwnerOf \in [Entry -> User]
    /\ Approver \subseteq User /\ Filer \subseteq User
    /\ MaxLoads \in Nat
    /\ None \notin Entry \cup RequestId \cup User

VARIABLES request, changed, locked, tx, list, told, loads

deskTables == <<request, changed, locked>>
deskVars == <<deskTables, tx, list, told, loads>>

\* About None: a shift that was never clocked, the same one in every claim.
RequestRow ==
    [ by     : User,
      about  : Entry \cup {None},
      status : {"pending", "approved", "rejected", "cancelled"},
      judge  : User \cup {None} ]

\* changes: the applier has written.  wasOpen and wasFree are for the
\* properties: since the click, the period was open once, and when it came
\* the claimed shift did not exist.
Mutation ==
    [ op      : {"none", "file", "withdraw", "approve", "reject"},
      at      : {"idle", "invalid", "look", "insert", "update", "lock",
                 "check", "apply", "add", "write", "commit"},
      id      : RequestId \cup {None},
      row     : RequestRow \cup {None},
      about   : Entry \cup {None},
      changes : BOOLEAN,
      wasOpen : BOOLEAN,
      wasFree : BOOLEAN ]

Idle == [op |-> "none", at |-> "idle", id |-> None, row |-> None,
         about |-> None, changes |-> FALSE, wasOpen |-> TRUE, wasFree |-> TRUE]

\* ['me', 'corrections'] and ['admin', 'corrections', 'pending']
Key == {"mine", "queue"}

\* DashboardShell keeps both mounted, the queue for approvers.  The own list
\* of a user who files nothing is empty and left out.
Mounted(s) == {k \in Key : UserOf[s] \in (IF k = "queue" THEN Approver ELSE Filer)}

\* loaded: the query has data.  missed, for the properties: the requests the
\* session acted on since the answer on its way, or the list shown, was read.
QueryState ==
    [ loaded : BOOLEAN,
      shown  : SUBSET RequestId,
      fetch  : {"idle", "sent", "answered", "failed"},
      rows   : SUBSET RequestId,
      missed : SUBSET RequestId ]

Unloaded == [loaded |-> FALSE, shown |-> {}, fetch |-> "idle", rows |-> {}, missed |-> {}]

DeskTypeOK ==
    /\ DOMAIN request \subseteq RequestId
    /\ request \in [DOMAIN request -> RequestRow]
    /\ changed \subseteq DOMAIN request
    /\ locked \in BOOLEAN
    /\ tx \in [Session -> Mutation]
    /\ list \in [Session -> [Key -> QueryState]]
    /\ told \in [Session -> SUBSET (RequestId \X {"pending", "approved", "rejected", "cancelled"})]
    /\ loads \in 0..MaxLoads

-----------------------------------------------------------------------------
(***************************************************************************)
(* The pages.                                                              *)
(***************************************************************************)
Pending == {r \in DOMAIN request : request[r].status = "pending"}

\* listMyCorrections and listCorrectionQueue, as far as the pages act on it.
Rows(s, k) ==
    {r \in Pending : k = "mine" => request[r].by = UserOf[s]}

\* A page is opened after its list has gone stale.
Load(s, k) ==
    /\ k \in Mounted(s)
    /\ list[s][k].fetch \in {"idle", "failed"}
    /\ loads < MaxLoads
    /\ loads' = loads + 1
    /\ list' = [list EXCEPT ![s][k].fetch = "sent"]
    /\ UNCHANGED <<deskTables, tx, told>>

\* The API reads the list; the answer is on its way.
Serve(s, k) ==
    /\ list[s][k].fetch = "sent"
    /\ list' = [list EXCEPT ![s][k].fetch = "answered", ![s][k].rows = Rows(s, k),
                             ![s][k].missed = {}]
    /\ UNCHANGED <<deskTables, tx, told, loads>>

\* The answer replaces what was shown.
Show(s, k) ==
    /\ list[s][k].fetch = "answered"
    /\ list' = [list EXCEPT ![s][k] = [list[s][k] EXCEPT !.loaded = TRUE,
                                !.shown = list[s][k].rows, !.fetch = "idle", !.rows = {}]]
    /\ UNCHANGED <<deskTables, tx, told, loads>>

\* The fetch and its retries fail: the list stays, with an error below it.
FailFetch(s, k) ==
    /\ list[s][k].fetch = "sent"
    /\ loads < MaxLoads
    /\ loads' = loads + 1
    /\ list' = [list EXCEPT ![s][k].fetch = "failed"]
    /\ UNCHANGED <<deskTables, tx, told>>

FirstLoad(q) == ~q.loaded /\ q.fetch \in {"sent", "answered"}

Resent(q) == [q EXCEPT !.fetch = "sent", !.rows = {}]

\* The older answer of a first load will be shown although the session has
\* acted on request r since.
LeftAlone(q, r) == IF q.fetch = "answered" THEN [q EXCEPT !.missed = @ \cup {r}] ELSE q

\* Mutant of Invalidated: every fetch on its way is left to finish.
InvalidatedIfIdle(s, keys, r) ==
    [k \in Key |->
        LET q == list[s][k]
        IN  IF k \notin keys \cap Mounted(s) THEN q
            ELSE IF FirstLoad(q) THEN LeftAlone(q, r)
            ELSE IF q.fetch \in {"sent", "answered"} THEN q
            ELSE Resent(q)]

\* invalidateQueries, after an action on request r: a fetch on its way is
\* cancelled and sent again.  The first load of a query goes on (Query.fetch
\* cancels only when there is data), and counts as fresh when it is shown.
Invalidated(s, keys, r) ==
    [k \in Key |->
        LET q == list[s][k]
        IN  IF k \notin keys \cap Mounted(s) THEN q
            ELSE IF FirstLoad(q) THEN LeftAlone(q, r)
            ELSE Resent(q)]

Click(s, mutation) ==
    /\ tx[s] = Idle
    /\ tx' = [tx EXCEPT ![s] = mutation]
    /\ UNCHANGED <<deskTables, list, told, loads>>

\* The modals of My Timesheet.  The Fix button is hidden for an entry the
\* list shows as pending, but the modal may have been opened before.
SubmitRequest(s, e) ==
    /\ UserOf[s] \in Filer
    /\ e # None => OwnerOf[e] = UserOf[s]
    /\ Click(s, [Idle EXCEPT !.op = "file", !.at = "look", !.about = e])

Withdraw(s, r) ==
    /\ r \in list[s]["mine"].shown
    /\ Click(s, [Idle EXCEPT !.op = "withdraw", !.at = "look", !.id = r])

\* The shift that a claim by u asks for, once it is in the time record.
AddedShifts(u) ==
    {r \in changed : request[r].about = None /\ request[r].by = u}

\* The schema takes times with an offset only, the fields of the Adjust
\* panel have none: with a time typed in, the approval is refused at once.
ClickApprove(s, r, timesTyped) ==
    /\ r \in list[s]["queue"].shown
    /\ Click(s, [Idle EXCEPT !.op = "approve", !.id = r,
                    !.at = IF timesTyped THEN "invalid" ELSE "lock",
                    !.wasOpen = ~locked,
                    !.wasFree = AddedShifts(request[r].by) = {}])

ClickReject(s, r) ==
    /\ r \in list[s]["queue"].shown
    /\ Click(s, [Idle EXCEPT !.op = "reject", !.at = "lock", !.id = r])

-----------------------------------------------------------------------------
(***************************************************************************)
(* The statements of the handlers.                                         *)
(***************************************************************************)
Step(s, t) ==
    /\ tx' = [tx EXCEPT ![s] = t]
    /\ UNCHANGED <<deskTables, list, told, loads>>

\* An AppError: rolled back, and no list is fetched again.
Refuse(s) == Step(s, Idle)

\* s's transaction holds the row lock of request r.
HasLocked(s, r) ==
    /\ tx[s].id = r
    /\ tx[s].at \in {"check", "apply", "add", "write", "commit"}

Unlocked(s, r) == \A o \in Session \ {s} : ~HasLocked(o, r)

PendingAbout(e) == {r \in Pending : e # None /\ request[r].about = e}

\* createCorrectionRequest up to its INSERT.  Its checks of owner, status
\* and age of the entry only refuse.
CheckNew(s) ==
    /\ tx[s].op = "file" /\ tx[s].at = "look"
    /\ IF locked \/ PendingAbout(tx[s].about) # {}
       THEN Refuse(s)
       ELSE Step(s, [tx[s] EXCEPT !.at = "insert"])

\* The INSERT.  uniq_corrections_one_pending_per_entry makes it wait for a
\* transaction that has written such a row, and fail if one is pending.
InsertRequest(s) ==
    /\ tx[s].at = "insert"
    /\ \A o \in Session \ {s} :
          tx[s].about # None /\ tx[o].at = "commit" => tx[o].row.about # tx[s].about
    /\ IF PendingAbout(tx[s].about) # {}
       THEN Refuse(s)
       ELSE \E r \in RequestId \ (DOMAIN request \cup {tx[o].id : o \in Session}) :
               Step(s, [tx[s] EXCEPT !.at = "commit", !.id = r,
                           !.row = [by |-> UserOf[s], about |-> tx[s].about,
                                    status |-> "pending", judge |-> None]])

\* cancelCorrectionRequest: the SELECT, which takes no lock.
LookUp(s) ==
    LET row == request[tx[s].id]
    IN  /\ tx[s].op = "withdraw" /\ tx[s].at = "look"
        /\ IF row.by = UserOf[s] /\ row.status = "pending"
           THEN Step(s, [tx[s] EXCEPT !.at = "update"])
           ELSE Refuse(s)

Cancelled(row) == [row EXCEPT !.status = "cancelled"]

\* Mutant of CancelRow: the UPDATE does not look at the status.
CancelAnyRow(s) ==
    /\ tx[s].at = "update"
    /\ Unlocked(s, tx[s].id)
    /\ Step(s, [tx[s] EXCEPT !.at = "commit", !.row = Cancelled(request[tx[s].id])])

\* Its UPDATE ... WHERE status = 'pending'.
CancelRow(s) ==
    /\ tx[s].at = "update"
    /\ Unlocked(s, tx[s].id)
    /\ IF request[tx[s].id].status = "pending"
       THEN Step(s, [tx[s] EXCEPT !.at = "commit", !.row = Cancelled(request[tx[s].id])])
       ELSE Refuse(s)

\* decideCorrectionRequest: SELECT ... FOR UPDATE.
LockRequest(s) ==
    LET row == request[tx[s].id]
    IN  /\ tx[s].at = "lock"
        /\ Unlocked(s, tx[s].id)
        /\ IF row.status = "pending" /\ row.by # UserOf[s]
           THEN Step(s, [tx[s] EXCEPT !.at = IF tx[s].op = "approve" THEN "check" ELSE "write"])
           ELSE Refuse(s)

\* Mutant of CheckPeriod: the lock is not looked up again.
SkipPeriod(s) ==
    /\ tx[s].at = "check"
    /\ Step(s, [tx[s] EXCEPT !.at = "apply"])

\* assertNotInLockedPeriod
CheckPeriod(s) ==
    /\ tx[s].at = "check"
    /\ IF locked THEN Refuse(s) ELSE Step(s, [tx[s] EXCEPT !.at = "apply"])

\* The applier.  For a missing shift this is its query for overlaps.  A fix
\* may refuse what has become of its entry: removed since, or with times that
\* do not fit; the entry has no other pending request, so no one else holds it.
Apply(s) ==
    LET row == request[tx[s].id]
    IN  /\ tx[s].at = "apply"
        /\ IF row.about # None
           THEN Refuse(s) \/ Step(s, [tx[s] EXCEPT !.at = "write", !.changes = TRUE])
           ELSE IF AddedShifts(row.by) # {}
                THEN Refuse(s)
                ELSE Step(s, [tx[s] EXCEPT !.at = "add"])

\* ... and its INSERT.
AddShift(s) ==
    /\ tx[s].at = "add"
    /\ Step(s, [tx[s] EXCEPT !.at = "write", !.changes = TRUE])

\* The guarded UPDATE of the request; its row is locked and still pending.
WriteDecision(s) ==
    /\ tx[s].at = "write"
    /\ Step(s, [tx[s] EXCEPT !.at = "commit",
                   !.row = [request[tx[s].id] EXCEPT
                       !.status = IF tx[s].op = "approve" THEN "approved" ELSE "rejected",
                       !.judge  = UserOf[s]]])

\* The keys whose lists the page of the mutation fetches again.
Touched(op) == IF op = "file" THEN {"mine"} ELSE Key

\* COMMIT, the answer, and onSuccess.
Commit(s) ==
    LET t == tx[s]
    IN  /\ t.at = "commit"
        /\ request' = [r \in DOMAIN request \cup {t.id} |->
                          IF r = t.id THEN t.row ELSE request[r]]
        /\ changed' = IF t.changes THEN changed \cup {t.id} ELSE changed
        /\ told' = [told EXCEPT ![s] = @ \cup {<<t.id, t.row.status>>}]
        /\ list' = [list EXCEPT ![s] = Invalidated(s, Touched(t.op), t.id)]
        /\ tx' = [tx EXCEPT ![s] = Idle]
        /\ UNCHANGED <<locked, loads>>

\* The schema's refusal, before any statement.
RefuseInvalid(s) == tx[s].at = "invalid" /\ Refuse(s)

\* An owner locks the period, or opens it again.
LockPeriod ==
    /\ ~locked
    /\ locked' = TRUE
    /\ UNCHANGED <<request, changed, tx, list, told, loads>>

UnlockPeriod ==
    /\ locked
    /\ locked' = FALSE
    /\ tx' = [s \in Session |-> [tx[s] EXCEPT !.wasOpen = TRUE]]
    /\ UNCHANGED <<request, changed, list, told, loads>>

-----------------------------------------------------------------------------
DeskInit ==
    /\ request = [r \in {} |-> Idle]
    /\ changed = {}
    /\ locked = FALSE
    /\ tx = [s \in Session |-> Idle]
    /\ list = [s \in Session |-> [k \in Key |-> Unloaded]]
    /\ told = [s \in Session |-> {}]
    /\ loads = 0

Clicks(s) ==
    \/ \E e \in Entry \cup {None} : SubmitRequest(s, e)
    \/ \E r \in RequestId :
          \/ Withdraw(s, r)
          \/ \E timesTyped \in BOOLEAN : ClickApprove(s, r, timesTyped)
          \/ ClickReject(s, r)

Statement(s) ==
    \/ RefuseInvalid(s)
    \/ CheckNew(s) \/ InsertRequest(s)
    \/ LookUp(s) \/ CancelRow(s)
    \/ LockRequest(s) \/ CheckPeriod(s) \/ Apply(s) \/ AddShift(s) \/ WriteDecision(s)
    \/ Commit(s)

DeskNext ==
    \/ \E s \in Session : Clicks(s) \/ Statement(s)
    \/ \E s \in Session, k \in Key :
          Load(s, k) \/ Serve(s, k) \/ Show(s, k) \/ FailFetch(s, k)
    \/ LockPeriod \/ UnlockPeriod

DeskSpec == DeskInit /\ [][DeskNext]_deskVars

-----------------------------------------------------------------------------
Verdicts == {"approved", "rejected", "cancelled"}

(***************************************************************************)
(* Whoever is told that a request was approved, rejected or withdrawn is   *)
(* right, and stays right: the request bears that verdict for ever, the    *)
(* time record carries its change exactly if it was approved, and so no    *)
(* two sessions are told different things (time-correction.service.ts:343  *)
(* and the guards of the UPDATEs).                                         *)
(***************************************************************************)
OneAnswerStands ==
    /\ \A s \in Session : \A answer \in told[s] :
          answer[2] \in Verdicts => request[answer[1]].status = answer[2]
    /\ changed = {r \in DOMAIN request : request[r].status = "approved"}

(***************************************************************************)
(* A page whose lists are at rest and without an error never denies what   *)
(* its own user did on it: a request decided or withdrawn there is in none *)
(* of its lists, one filed there is among the user's own until settled.    *)
(* This takes COMMIT before the answer, the invalidation of both keys, and *)
(* the cancelling of fetches that were on their way.  The exception is an  *)
(* action before the list's first answer is shown, read before the COMMIT: *)
(* that fetch is not cancelled, so the dialogs of My Timesheet, which open *)
(* before ['me', 'corrections'] has loaded, may file a request the page    *)
(* does not know of; the next fetch of the list makes up for it.           *)
(***************************************************************************)
PagesKnowOwnActions ==
    \A s \in Session : \A answer \in told[s] : \A k \in Mounted(s) :
        list[s][k].fetch = "idle" /\ answer[1] \notin list[s][k].missed =>
            /\ answer[2] \in Verdicts => answer[1] \notin list[s][k].shown
            /\ answer[2] = "pending" /\ k = "mine" /\ answer[1] \in Pending
                  => answer[1] \in list[s][k].shown

(***************************************************************************)
(* However stale the queue an approver acts on, the approval sees what was *)
(* committed before the click: it changes no hours of a period that was    *)
(* locked then and has not been opened since, and adds no shift the worker *)
(* had been given by then.  (An approval on its way while the lock or the  *)
(* other shift is committed may still do both.)                            *)
(***************************************************************************)
ApprovalsSeeThePast ==
    \A s \in Session : tx[s].changes =>
        /\ tx[s].wasOpen
        /\ request[tx[s].id].about = None => tx[s].wasFree
=============================================================================
