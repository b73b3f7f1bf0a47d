-------------------------- MODULE Dashboard_proofs --------------------------
(***************************************************************************)
(* Proofs about the dashboard: the settings stay as chosen, links work     *)
(* once and sign-ins are current, and corrections get one answer that the  *)
(* pages agree with.  The three components share nothing, so each has an   *)
(* inductive invariant of its own.                                         *)
(***************************************************************************)
EXTENDS CorrectionDesk, Accounts, Settings, TLAPS

-----------------------------------------------------------------------------
(***************************************************************************)
(* Corrections.                                                            *)
(***************************************************************************)
\* The status a mutation of this kind leads to.
Outcome == [file |-> "pending", withdraw |-> "cancelled",
            approve |-> "approved", reject |-> "rejected"]

\* The mutation holds the row lock of its request, or has inserted it.
Holds(t) == t.at \in {"check", "apply", "add", "write", "commit"}

\* Which statements a mutation comes to, and what it carries there.
Shaped(t) ==
    /\ t.op = "none" => t.at = "idle"
    /\ t.op = "file" => t.at \in {"look", "insert", "commit"}
    /\ t.op = "withdraw" => t.at \in {"look", "update", "commit"}
    /\ t.op = "approve" =>
          t.at \in {"invalid", "lock", "check", "apply", "add", "write", "commit"}
    /\ t.op = "reject" => t.at \in {"lock", "write", "commit"}
    /\ t.changes <=> (t.op = "approve" /\ t.at \in {"write", "commit"})
    /\ t.at = "commit" =>
          /\ t.id \in RequestId /\ t.row \in RequestRow
          /\ t.row.status = Outcome[t.op]

\* The row a mutation holds is pending, and what it will commit keeps the
\* parties; one that is filed is new.
Grounded(s, t) ==
    /\ t.op \in {"withdraw", "approve", "reject"} => t.id \in DOMAIN request
    /\ Holds(t) /\ t.op # "file" => request[t.id].status = "pending"
    /\ t.at = "commit" /\ t.op # "file" =>
          t.row.by = request[t.id].by /\ t.row.about = request[t.id].about
    /\ t.at = "commit" /\ t.op = "file" =>
          t.id \notin DOMAIN request /\ t.row.by = UserOf[s]

\* What an approval has seen of the period and of the time record.
SeesThePast(t) ==
    /\ ~locked => t.wasOpen
    /\ t.op = "approve" =>
          /\ t.at \in {"apply", "add", "write", "commit"} => t.wasOpen
          /\ AddedShifts(request[t.id].by) = {} => t.wasFree
          /\ t.at \in {"add", "write", "commit"} /\ request[t.id].about = None
                => t.wasFree

Sound(s, t) == t \in Mutation /\ Shaped(t) /\ Grounded(s, t) /\ SeesThePast(t)

\* No request is held by two mutations.
HeldOnce ==
    \A s, o \in Session :
        s # o /\ Holds(tx[s]) /\ Holds(tx[o]) => tx[s].id # tx[o].id

\* The answers are about requests that are there, and true.
AnswersAreTrue ==
    \A s \in Session : \A answer \in told[s] :
        /\ answer[1] \in DOMAIN request
        /\ answer[2] \in Verdicts => request[answer[1]].status = answer[2]
        /\ answer[2] = "pending" => request[answer[1]].by = UserOf[s]

ChangesAreApproved == changed = {r \in DOMAIN request : request[r].status = "approved"}

\* Rows that agree with what the session's user was told, but for the requests
\* missed.
Agrees(s, k, rows, missed) ==
    \A answer \in told[s] : answer[1] \notin missed =>
        /\ answer[2] \in Verdicts => answer[1] \notin rows
        /\ answer[2] = "pending" /\ k = "mine" /\ answer[1] \in Pending => answer[1] \in rows

\* A list shows requests that are there; what was read and not cancelled
\* since, and what is shown at rest, agrees with the answers.
GoodList(s, k, q) ==
    /\ q \in QueryState
    /\ q.shown \subseteq DOMAIN request
    /\ q.rows \subseteq DOMAIN request
    /\ k \in Mounted(s) /\ q.fetch = "answered" => Agrees(s, k, q.rows, q.missed)
    /\ k \in Mounted(s) /\ q.fetch = "idle" => Agrees(s, k, q.shown, q.missed)

DeskInv ==
    /\ DeskTypeOK
    /\ \A s \in Session : Sound(s, tx[s])
    /\ HeldOnce
    /\ AnswersAreTrue
    /\ ChangesAreApproved
    /\ \A s \in Session, k \in Key : GoodList(s, k, list[s][k])

(* A session at rest is sound, whatever the tables hold.                   *)
LEMMA IdleIsSound ==
    /\ \A s \in Session : Sound(s, Idle)
    /\ ~Holds(Idle) /\ Idle.op = "none" /\ Idle.id = None
BY DEF Idle, Sound, Mutation, Shaped, Grounded, SeesThePast, Holds

(* The desk starts empty and at rest.                                      *)
LEMMA DeskInitInv == DeskInit => DeskInv
<1> SUFFICES ASSUME DeskInit PROVE DeskInv
  OBVIOUS
<1> USE CorrectionDeskAssumption
<1>1. \A s \in Session : tx[s] = Idle
  BY DEF DeskInit
<1>2. /\ request = [r \in {} |-> Idle] /\ changed = {} /\ locked = FALSE /\ loads = 0
      /\ tx = [s \in Session |-> Idle]
      /\ told = [s \in Session |-> {}]
      /\ list = [s \in Session |-> [k \in Key |-> Unloaded]]
  BY DEF DeskInit
<1>3. Idle \in Mutation /\ Unloaded \in QueryState
      /\ Unloaded.shown = {} /\ Unloaded.rows = {}
  BY DEF Idle, Mutation, Unloaded, QueryState
<1>4. DeskTypeOK
  <2>1. DOMAIN request = {} /\ request \in [{} -> RequestRow]
    BY <1>2
  <2>2. tx \in [Session -> Mutation] /\ list \in [Session -> [Key -> QueryState]]
    BY <1>2, <1>3
  <2>3. told \in [Session ->
                    SUBSET (RequestId \X {"pending", "approved", "rejected", "cancelled"})]
    BY <1>2
  <2>4. /\ DOMAIN request \subseteq RequestId /\ request \in [DOMAIN request -> RequestRow]
        /\ changed \subseteq DOMAIN request /\ locked \in BOOLEAN
    BY <1>2, <2>1
  <2>5. loads \in 0..MaxLoads
    BY <1>2
  <2>6. QED
    BY <2>2, <2>3, <2>4, <2>5 DEF DeskTypeOK
<1>5. (\A s \in Session : Sound(s, tx[s])) /\ HeldOnce
  BY <1>1, IdleIsSound DEF HeldOnce
<1>6. AnswersAreTrue /\ ChangesAreApproved
  BY <1>2 DEF AnswersAreTrue, ChangesAreApproved
<1>7. \A s \in Session, k \in Key : GoodList(s, k, list[s][k])
  BY <1>2, <1>3 DEF GoodList, Agrees
<1>8. QED
  BY <1>4, <1>5, <1>6, <1>7 DEF DeskInv

\* The step turns the mutation of s into t, which holds what it held before
\* or what nobody else holds; the rest is left alone.
MutatesTo(s, t) ==
    /\ tx' = [tx EXCEPT ![s] = t]
    /\ UNCHANGED <<request, changed, locked, told, list, loads>>
    /\ Holds(t) => \/ Holds(tx[s]) /\ t.id = tx[s].id
                   \/ \A o \in Session \ {s} : Holds(tx[o]) => tx[o].id # t.id

(* A step that turns one mutation into a sound one keeps the invariant.    *)
LEMMA MutationKeeps ==
    ASSUME DeskInv, NEW s \in Session, NEW t, Sound(s, t), MutatesTo(s, t)
    PROVE  DeskInv'
<1> USE DEF MutatesTo
<1>1. \A o \in Session : tx'[o] = IF o = s THEN t ELSE tx[o]
  BY DEF DeskInv, DeskTypeOK
<1>2. DeskTypeOK'
  BY DEF DeskInv, DeskTypeOK, Sound
<1>3. ASSUME NEW o \in Session PROVE Sound(o, tx[o])'
  <2>1. Sound(o, tx'[o])
    BY <1>1 DEF DeskInv
  <2>2. QED
    BY <2>1 DEF Sound, Grounded, SeesThePast, AddedShifts
<1>4. HeldOnce'
  BY <1>1 DEF DeskInv, HeldOnce
<1>5. AnswersAreTrue' /\ ChangesAreApproved'
  BY DEF DeskInv, AnswersAreTrue, ChangesAreApproved
<1>6. \A o \in Session, k \in Key : GoodList(o, k, list[o][k])'
  BY DEF DeskInv, GoodList, Agrees, Pending
<1>7. QED
  BY <1>2, <1>3, <1>4, <1>5, <1>6 DEF DeskInv

(* A refused mutation leaves nothing behind.                               *)
LEMMA RefusalKeeps ==
    ASSUME DeskInv, NEW s \in Session, Refuse(s)
    PROVE  DeskInv'
<1>1. MutatesTo(s, Idle)
  BY IdleIsSound DEF Refuse, Step, MutatesTo, deskTables
<1>2. QED
  BY <1>1, IdleIsSound, MutationKeeps

(* Whatever is clicked, the mutation is sound when it is sent: it is about *)
(* a request a list showed, and knows what the tables hold by then.        *)
LEMMA ClickKeeps ==
    ASSUME DeskInv, NEW s \in Session, Clicks(s)
    PROVE  DeskInv'
<1> USE CorrectionDeskAssumption
<1>1. ASSUME NEW t, Sound(s, t), ~Holds(t), Click(s, t)
      PROVE  DeskInv'
  <2>1. MutatesTo(s, t)
    BY <1>1 DEF Click, MutatesTo, deskTables
  <2>2. QED
    BY <1>1, <2>1, MutationKeeps
<1>2. \A k \in Key : list[s][k].shown \subseteq DOMAIN request \cap RequestId
  BY DEF DeskInv, GoodList, DeskTypeOK
<1> USE DEF Sound, Mutation, Shaped, Grounded, SeesThePast, Holds, Idle
<1>3. ASSUME NEW e \in Entry \cup {None}, SubmitRequest(s, e)
      PROVE  DeskInv'
  <2> DEFINE t == [Idle EXCEPT !.op = "file", !.at = "look", !.about = e]
  <2>1. Sound(s, t) /\ ~Holds(t)
    OBVIOUS
  <2>2. Click(s, t)
    BY <1>3 DEF SubmitRequest
  <2> HIDE DEF t, Sound, Holds
  <2>3. QED
    BY <1>1, <2>1, <2>2
<1>4. ASSUME NEW r \in RequestId, Withdraw(s, r)
      PROVE  DeskInv'
  <2> DEFINE t == [Idle EXCEPT !.op = "withdraw", !.at = "look", !.id = r]
  <2>1. r \in DOMAIN request /\ Click(s, t)
    BY <1>2, <1>4 DEF Withdraw, Key
  <2>2. Sound(s, t) /\ ~Holds(t)
    BY <2>1
  <2> HIDE DEF t, Sound, Holds
  <2>3. QED
    BY <1>1, <2>1, <2>2
<1>5. ASSUME NEW r \in RequestId, NEW timesTyped \in BOOLEAN, ClickApprove(s, r, timesTyped)
      PROVE  DeskInv'
  <2> DEFINE at == IF timesTyped THEN "invalid" ELSE "lock"
             open == ~locked
             free == AddedShifts(request[r].by) = {}
             t == [Idle EXCEPT !.op = "approve", !.id = r, !.at = at,
                               !.wasOpen = open, !.wasFree = free]
  <2>1. r \in DOMAIN request /\ Click(s, t)
    BY <1>2, <1>5 DEF ClickApprove, Key
  <2>2. /\ at \in {"invalid", "lock"}
        /\ open \in BOOLEAN /\ (open <=> ~locked)
        /\ free \in BOOLEAN /\ (free <=> AddedShifts(request[r].by) = {})
    BY DEF DeskInv, DeskTypeOK
  <2> HIDE DEF at, open, free
  <2>3. Sound(s, t) /\ ~Holds(t)
    BY <2>1, <2>2
  <2> HIDE DEF t, Sound, Holds
  <2>4. QED
    BY <1>1, <2>1, <2>3
<1>6. ASSUME NEW r \in RequestId, ClickReject(s, r)
      PROVE  DeskInv'
  <2> DEFINE t == [Idle EXCEPT !.op = "reject", !.at = "lock", !.id = r]
  <2>1. r \in DOMAIN request /\ Click(s, t)
    BY <1>2, <1>6 DEF ClickReject, Key
  <2>2. Sound(s, t) /\ ~Holds(t)
    BY <2>1
  <2> HIDE DEF t, Sound, Holds
  <2>3. QED
    BY <1>1, <2>1, <2>2
<1>7. QED
  BY <1>3, <1>4, <1>5, <1>6 DEF Clicks

(* Filing: a request is inserted under an id that is nobody else's.        *)
LEMMA FileKeeps ==
    ASSUME DeskInv, NEW s \in Session, CheckNew(s) \/ InsertRequest(s)
    PROVE  DeskInv'
<1> USE CorrectionDeskAssumption
<1> DEFINE q == tx[s]
<1>1. Sound(s, q) /\ q \in Mutation
  BY DEF DeskInv, Sound
<1>2. CASE CheckNew(s) /\ Step(s, [q EXCEPT !.at = "insert"])
  <2> DEFINE t == [q EXCEPT !.at = "insert"]
  <2>1. Sound(s, t) /\ ~Holds(t)
    BY <1>1, <1>2 DEF CheckNew, Sound, Mutation, Shaped, Grounded, SeesThePast, Holds
  <2>2. MutatesTo(s, t)
    BY <1>2, <2>1 DEF Step, MutatesTo, deskTables
  <2> HIDE DEF t
  <2>3. QED
    BY <2>1, <2>2, MutationKeeps
<1>3. ASSUME NEW r \in RequestId \ (DOMAIN request \cup {tx[o].id : o \in Session}),
             InsertRequest(s),
             Step(s, [q EXCEPT !.at = "commit", !.id = r,
                         !.row = [by |-> UserOf[s], about |-> q.about,
                                  status |-> "pending", judge |-> None]])
      PROVE  DeskInv'
  <2> DEFINE row == [by |-> UserOf[s], about |-> q.about,
                     status |-> "pending", judge |-> None]
             t == [q EXCEPT !.at = "commit", !.id = r, !.row = row]
  <2>1. row \in RequestRow /\ row.status = "pending" /\ row.by = UserOf[s]
    BY <1>1 DEF Mutation, RequestRow
  <2> HIDE DEF row
  <2>2. q.at = "insert" /\ q.op = "file" /\ Outcome[q.op] = "pending"
    <3>1. q.at = "insert" /\ Shaped(q)
          /\ q.op \in {"none", "file", "withdraw", "approve", "reject"}
      BY <1>1, <1>3 DEF InsertRequest, Sound, Mutation
    <3>2. q.op = "file"
      BY <3>1 DEF Shaped
    <3>3. QED
      BY <3>1, <3>2 DEF Outcome
  <2>3. Sound(s, t) /\ t.id = r
    BY <1>1, <2>1, <2>2
       DEF Sound, Mutation, Shaped, Grounded, SeesThePast, Holds
  <2>4. MutatesTo(s, t)
    BY <1>3, <2>3 DEF Step, MutatesTo, deskTables, row
  <2> HIDE DEF t
  <2>5. QED
    BY <2>3, <2>4, MutationKeeps
<1>4. QED
  BY <1>2, <1>3, RefusalKeeps DEF CheckNew, InsertRequest

(* Withdrawing: the UPDATE finds the row pending, and nobody holds it.     *)
LEMMA WithdrawKeeps ==
    ASSUME DeskInv, NEW s \in Session, LookUp(s) \/ CancelRow(s)
    PROVE  DeskInv'
<1> USE CorrectionDeskAssumption
<1> DEFINE q == tx[s]
<1>1. Sound(s, q) /\ q \in Mutation
  BY DEF DeskInv, Sound
<1>2. CASE LookUp(s) /\ Step(s, [q EXCEPT !.at = "update"])
  <2> DEFINE t == [q EXCEPT !.at = "update"]
  <2>1. Sound(s, t) /\ ~Holds(t)
    BY <1>1, <1>2 DEF LookUp, Sound, Mutation, Shaped, Grounded, SeesThePast, Holds
  <2>2. MutatesTo(s, t)
    BY <1>2, <2>1 DEF Step, MutatesTo, deskTables
  <2> HIDE DEF t
  <2>3. QED
    BY <2>1, <2>2, MutationKeeps
<1>3. CASE /\ CancelRow(s) /\ request[q.id].status = "pending"
           /\ Step(s, [q EXCEPT !.at = "commit", !.row = Cancelled(request[q.id])])
  <2> DEFINE row == Cancelled(request[q.id])
             t == [q EXCEPT !.at = "commit", !.row = row]
  <2>1. q.at = "update" /\ q.op = "withdraw" /\ q.id \in DOMAIN request /\ q.id \in RequestId
    BY <1>1, <1>3 DEF CancelRow, Sound, Mutation, Shaped, Grounded, DeskInv, DeskTypeOK
  <2>2. /\ row \in RequestRow /\ row.status = Outcome[q.op]
        /\ row.by = request[q.id].by /\ row.about = request[q.id].about
    <3>1. request[q.id] \in RequestRow /\ Outcome[q.op] = "cancelled"
      BY <2>1 DEF DeskInv, DeskTypeOK, Outcome
    <3>2. QED
      BY <3>1 DEF Cancelled, RequestRow
  <2> HIDE DEF row
  <2>3. Sound(s, t) /\ t.id = q.id
    BY <1>1, <1>3, <2>1, <2>2
       DEF Sound, Mutation, Shaped, Grounded, SeesThePast, Holds
  <2>4. \A o \in Session \ {s} : Holds(tx[o]) => tx[o].id # t.id
    BY <1>3, <2>3 DEF CancelRow, Unlocked, HasLocked, Holds
  <2>5. MutatesTo(s, t)
    BY <1>3, <2>4 DEF Step, MutatesTo, deskTables, row
  <2> HIDE DEF t
  <2>6. QED
    BY <2>3, <2>5, MutationKeeps
<1>4. QED
  BY <1>2, <1>3, RefusalKeeps DEF LookUp, CancelRow

(* Deciding, up to the applier: the row is locked, still pending, and      *)
(* nobody else's; the period was open at some moment since the click.      *)
LEMMA DecideKeeps ==
    ASSUME DeskInv, NEW s \in Session, LockRequest(s) \/ CheckPeriod(s)
    PROVE  DeskInv'
<1> USE CorrectionDeskAssumption
<1> DEFINE q == tx[s]
<1>1. Sound(s, q) /\ q \in Mutation
  BY DEF DeskInv, Sound
<1>2. CASE /\ LockRequest(s) /\ request[q.id].status = "pending"
           /\ Step(s, [q EXCEPT !.at = IF q.op = "approve" THEN "check" ELSE "write"])
  <2> DEFINE at == IF q.op = "approve" THEN "check" ELSE "write"
             t == [q EXCEPT !.at = at]
  <2>1. q.at = "lock" /\ q.op \in {"approve", "reject"} /\ q.id \in DOMAIN request
    BY <1>1, <1>2 DEF LockRequest, Sound, Mutation, Shaped, Grounded
  <2>2. at \in {"check", "write"} /\ (q.op = "approve" <=> at = "check")
    OBVIOUS
  <2> HIDE DEF at
  <2>3. Sound(s, t) /\ t.id = q.id
    BY <1>1, <1>2, <2>1, <2>2
       DEF Sound, Mutation, Shaped, Grounded, SeesThePast, Holds
  <2>4. \A o \in Session \ {s} : Holds(tx[o]) => tx[o].id # t.id
    BY <1>2, <2>3 DEF LockRequest, Unlocked, HasLocked, Holds
  <2>5. MutatesTo(s, t)
    BY <1>2, <2>4 DEF Step, MutatesTo, deskTables, at
  <2> HIDE DEF t
  <2>6. QED
    BY <2>3, <2>5, MutationKeeps
<1>3. CASE CheckPeriod(s) /\ ~locked /\ Step(s, [q EXCEPT !.at = "apply"])
  <2> DEFINE t == [q EXCEPT !.at = "apply"]
  <2>1. Sound(s, t) /\ t.id = q.id /\ Holds(q)
    BY <1>1, <1>3 DEF CheckPeriod, Sound, Mutation, Shaped, Grounded, SeesThePast, Holds
  <2>2. MutatesTo(s, t)
    BY <1>3, <2>1 DEF Step, MutatesTo, deskTables
  <2> HIDE DEF t
  <2>3. QED
    BY <2>1, <2>2, MutationKeeps
<1>4. QED
  BY <1>2, <1>3, RefusalKeeps DEF LockRequest, CheckPeriod

(* The applier and the guarded UPDATE: a shift is added only where none    *)
(* had come by the click, and the verdict keeps the parties.               *)
LEMMA ApplyKeeps ==
    ASSUME DeskInv, NEW s \in Session, Apply(s) \/ AddShift(s) \/ WriteDecision(s)
    PROVE  DeskInv'
<1> USE CorrectionDeskAssumption
<1> DEFINE q == tx[s]
<1>1. Sound(s, q) /\ q \in Mutation
  BY DEF DeskInv, Sound
<1>2. CASE /\ Apply(s) /\ request[q.id].about # None
           /\ Step(s, [q EXCEPT !.at = "write", !.changes = TRUE])
  <2> DEFINE t == [q EXCEPT !.at = "write", !.changes = TRUE]
  <2>1. Sound(s, t) /\ t.id = q.id /\ Holds(q)
    BY <1>1, <1>2 DEF Apply, Sound, Mutation, Shaped, Grounded, SeesThePast, Holds
  <2>2. MutatesTo(s, t)
    BY <1>2, <2>1 DEF Step, MutatesTo, deskTables
  <2> HIDE DEF t
  <2>3. QED
    BY <2>1, <2>2, MutationKeeps
<1>3. CASE /\ Apply(s) /\ AddedShifts(request[q.id].by) = {}
           /\ Step(s, [q EXCEPT !.at = "add"])
  <2> DEFINE t == [q EXCEPT !.at = "add"]
  <2>1. Sound(s, t) /\ t.id = q.id /\ Holds(q)
    BY <1>1, <1>3 DEF Apply, Sound, Mutation, Shaped, Grounded, SeesThePast, Holds
  <2>2. MutatesTo(s, t)
    BY <1>3, <2>1 DEF Step, MutatesTo, deskTables
  <2> HIDE DEF t
  <2>3. QED
    BY <2>1, <2>2, MutationKeeps
<1>4. CASE AddShift(s)
  <2> DEFINE t == [q EXCEPT !.at = "write", !.changes = TRUE]
  <2>1. Sound(s, t) /\ t.id = q.id /\ Holds(q)
    BY <1>1, <1>4 DEF AddShift, Sound, Mutation, Shaped, Grounded, SeesThePast, Holds
  <2>2. MutatesTo(s, t)
    BY <1>4, <2>1 DEF AddShift, Step, MutatesTo, deskTables
  <2> HIDE DEF t
  <2>3. QED
    BY <2>1, <2>2, MutationKeeps
<1>5. CASE WriteDecision(s)
  <2> DEFINE verdict == IF q.op = "approve" THEN "approved" ELSE "rejected"
             row == [request[q.id] EXCEPT !.status = verdict, !.judge = UserOf[s]]
             t == [q EXCEPT !.at = "commit", !.row = row]
  <2>1. /\ q.at = "write" /\ q.op \in {"approve", "reject"}
        /\ q.id \in DOMAIN request /\ q.id \in RequestId
    BY <1>1, <1>5 DEF WriteDecision, Sound, Mutation, Shaped, Grounded, DeskInv, DeskTypeOK
  <2>2. verdict \in {"approved", "rejected"} /\ verdict = Outcome[q.op]
    BY <2>1 DEF Outcome
  <2>3. Step(s, t)
    BY <1>5 DEF WriteDecision
  <2> HIDE DEF verdict
  <2>4. /\ row \in RequestRow /\ row.status = verdict
        /\ row.by = request[q.id].by /\ row.about = request[q.id].about
    <3>1. request[q.id] \in RequestRow /\ UserOf[s] \in User
      BY <2>1 DEF DeskInv, DeskTypeOK
    <3>2. QED
      BY <2>2, <3>1 DEF RequestRow
  <2> HIDE DEF row
  <2>5. Sound(s, t) /\ t.id = q.id /\ Holds(q)
    BY <1>1, <2>1, <2>2, <2>4
       DEF Sound, Mutation, Shaped, Grounded, SeesThePast, Holds
  <2>6. MutatesTo(s, t)
    BY <2>3, <2>5 DEF Step, MutatesTo, deskTables
  <2> HIDE DEF t
  <2>7. QED
    BY <2>5, <2>6, MutationKeeps
<1>6. QED
  BY <1>2, <1>3, <1>4, <1>5, RefusalKeeps DEF Apply

\* The step turns list k of s into q, and no other list.
ListTurnsTo(s, k, q) ==
    /\ list' = [list EXCEPT ![s] = [list[s] EXCEPT ![k] = q]]
    /\ UNCHANGED <<request, changed, locked, told, tx>>
    /\ loads' \in 0..MaxLoads

(* A step that turns one list into a good one keeps the invariant.         *)
LEMMA ListTurnKeeps ==
    ASSUME DeskInv, NEW s \in Session, NEW k \in Key, NEW q, GoodList(s, k, q),
           ListTurnsTo(s, k, q)
    PROVE  DeskInv'
<1> USE DEF ListTurnsTo
<1>1. list \in [Session -> [Key -> QueryState]] /\ q \in QueryState
  BY DEF DeskInv, DeskTypeOK, GoodList
<1>2. /\ list' \in [Session -> [Key -> QueryState]]
      /\ \A o \in Session, j \in Key :
            list'[o][j] = IF o = s /\ j = k THEN q ELSE list[o][j]
  BY <1>1
<1>3. DeskTypeOK'
  BY <1>2 DEF DeskInv, DeskTypeOK
<1>4. ASSUME NEW o \in Session, NEW j \in Key PROVE GoodList(o, j, list[o][j])'
  <2>1. GoodList(o, j, list'[o][j])
    BY <1>2 DEF DeskInv
  <2>2. QED
    BY <2>1 DEF GoodList, Agrees, Pending
<1>5. \A o \in Session : Sound(o, tx[o])'
  BY DEF DeskInv, Sound, Grounded, SeesThePast, AddedShifts
<1>6. HeldOnce' /\ AnswersAreTrue' /\ ChangesAreApproved'
  BY DEF DeskInv, HeldOnce, AnswersAreTrue, ChangesAreApproved
<1>7. QED
  BY <1>3, <1>4, <1>5, <1>6 DEF DeskInv

(* Lists are fetched, answered from what is committed, and shown: they     *)
(* agree with what the user was told on the page.                          *)
LEMMA ListsKeep ==
    ASSUME DeskInv, NEW s \in Session, NEW k \in Key,
           Load(s, k) \/ Serve(s, k) \/ Show(s, k) \/ FailFetch(s, k)
    PROVE  DeskInv'
<1> USE CorrectionDeskAssumption
<1> DEFINE q == list[s][k]
<1>1. GoodList(s, k, q) /\ q \in QueryState /\ list \in [Session -> [Key -> QueryState]]
      /\ loads \in 0..MaxLoads
  BY DEF DeskInv, GoodList, DeskTypeOK
<1>2. CASE Load(s, k)
  <2> DEFINE p == [q EXCEPT !.fetch = "sent"]
  <2>1. GoodList(s, k, p)
    BY <1>1 DEF GoodList, QueryState
  <2>2. ListTurnsTo(s, k, p)
    BY <1>1, <1>2 DEF Load, ListTurnsTo, deskTables
  <2> HIDE DEF p
  <2>3. QED
    BY <2>1, <2>2, ListTurnKeeps
<1>3. CASE FailFetch(s, k)
  <2> DEFINE p == [q EXCEPT !.fetch = "failed"]
  <2>1. GoodList(s, k, p)
    BY <1>1 DEF GoodList, QueryState
  <2>2. ListTurnsTo(s, k, p)
    BY <1>1, <1>3 DEF FailFetch, ListTurnsTo, deskTables
  <2> HIDE DEF p
  <2>3. QED
    BY <2>1, <2>2, ListTurnKeeps
<1>4. CASE Show(s, k)
  <2> DEFINE p == [q EXCEPT !.loaded = TRUE, !.shown = q.rows, !.fetch = "idle", !.rows = {}]
  <2>1. /\ p \in QueryState /\ p.shown = q.rows /\ p.rows = {} /\ p.fetch = "idle"
        /\ p.missed = q.missed
    BY <1>1 DEF QueryState
  <2>2. ListTurnsTo(s, k, p)
    BY <1>1, <1>4 DEF Show, ListTurnsTo, deskTables
  <2> HIDE DEF p
  <2>3. GoodList(s, k, p)
    BY <1>1, <1>4, <2>1 DEF Show, GoodList
  <2>4. QED
    BY <2>2, <2>3, ListTurnKeeps
<1>5. CASE Serve(s, k)
  <2> DEFINE rows == Rows(s, k)
             p == [q EXCEPT !.fetch = "answered", !.rows = rows, !.missed = {}]
  <2>1. rows \subseteq Pending /\ rows \subseteq DOMAIN request /\ rows \subseteq RequestId
    BY DEF Rows, Pending, DeskInv, DeskTypeOK
  <2>2. Agrees(s, k, rows, {})
    BY <2>1 DEF Agrees, Rows, Pending, Verdicts, DeskInv, AnswersAreTrue
  <2>3. ListTurnsTo(s, k, p)
    BY <1>1, <1>5 DEF Serve, ListTurnsTo, deskTables
  <2> HIDE DEF rows
  <2>4. /\ p \in QueryState /\ p.shown = q.shown /\ p.rows = rows /\ p.fetch = "answered"
        /\ p.missed = {}
    BY <1>1, <2>1 DEF QueryState
  <2> HIDE DEF p
  <2>5. GoodList(s, k, p)
    BY <1>1, <2>1, <2>2, <2>4 DEF GoodList
  <2>6. QED
    BY <2>3, <2>5, ListTurnKeeps
<1>6. QED
  BY <1>2, <1>3, <1>4, <1>5

(* Locking the period takes away, and opening it again is seen by every    *)
(* mutation on its way.                                                    *)
LEMMA PeriodKeeps ==
    ASSUME DeskInv, LockPeriod \/ UnlockPeriod
    PROVE  DeskInv'
<1>1. /\ UNCHANGED <<request, changed, told, list, loads>>
      /\ locked' \in BOOLEAN
  BY DEF LockPeriod, UnlockPeriod
<1>2. AnswersAreTrue' /\ ChangesAreApproved'
      /\ \A o \in Session, k \in Key : GoodList(o, k, list[o][k])'
  BY <1>1 DEF DeskInv, AnswersAreTrue, ChangesAreApproved, GoodList, Agrees, Pending
<1>3. CASE LockPeriod
  <2>1. locked' = TRUE /\ tx' = tx
    BY <1>3 DEF LockPeriod
  <2>2. \A o \in Session : Sound(o, tx[o])'
    BY <1>1, <2>1 DEF DeskInv, Sound, Grounded, SeesThePast, AddedShifts
  <2>3. DeskTypeOK' /\ HeldOnce'
    <3>1. DeskTypeOK'
      BY <1>1, <2>1 DEF DeskInv, DeskTypeOK
    <3>2. HeldOnce'
      BY <1>1, <2>1 DEF DeskInv, HeldOnce
    <3> QED
      BY <3>1, <3>2
  <2>4. QED
    BY <1>2, <2>2, <2>3 DEF DeskInv
<1>4. CASE UnlockPeriod
  <2>1. tx' = [o \in Session |-> [tx[o] EXCEPT !.wasOpen = TRUE]]
    BY <1>4 DEF UnlockPeriod
  <2>2. \A o \in Session : Sound(o, tx[o]) /\ tx[o] \in Mutation
    BY DEF DeskInv, Sound
  <2>3. ASSUME NEW o \in Session
        PROVE  /\ tx'[o] \in Mutation /\ tx'[o].wasOpen
               /\ tx'[o].op = tx[o].op /\ tx'[o].at = tx[o].at /\ tx'[o].id = tx[o].id
               /\ tx'[o].row = tx[o].row /\ tx'[o].changes = tx[o].changes
               /\ tx'[o].wasFree = tx[o].wasFree
    <3>1. tx'[o] = [tx[o] EXCEPT !.wasOpen = TRUE]
      BY <2>1, <2>3
    <3>2. tx[o] \in Mutation
      BY <2>2, <2>3
    <3> QED
      BY <3>1, <3>2 DEF Mutation
  <2>4. ASSUME NEW o \in Session PROVE Sound(o, tx[o])'
    <3>1. Shaped(tx[o])'
      BY <2>2, <2>3 DEF Sound, Shaped
    <3>2. Grounded(o, tx[o])'
      BY <1>1, <2>2, <2>3 DEF Sound, Grounded, Holds
    <3>3. SeesThePast(tx[o])'
      BY <1>1, <2>2, <2>3 DEF Sound, SeesThePast, AddedShifts
    <3>4. QED
      BY <2>3, <3>1, <3>2, <3>3 DEF Sound
  <2>5. HeldOnce'
    BY <2>3 DEF DeskInv, HeldOnce, Holds
  <2>6. DeskTypeOK'
    <3>1. tx' \in [Session -> Mutation]
      BY <2>1, <2>3
    <3>2. QED
      BY <1>1, <3>1 DEF DeskInv, DeskTypeOK
  <2>7. QED
    BY <1>2, <2>4, <2>5, <2>6 DEF DeskInv
<1>5. QED
  BY <1>3, <1>4

\* A commit by s: the mutation it had, and what becomes of its request.
Commits(s) ==
    LET t == tx[s]
    IN  /\ t.id \in RequestId /\ t.row \in RequestRow /\ t.row.status = Outcome[t.op]
        /\ t.op \in {"file", "withdraw", "approve", "reject"}
        /\ t.changes <=> t.op = "approve"
        /\ t.op = "file" => t.id \notin DOMAIN request /\ t.row.by = UserOf[s]
        /\ t.op # "file" => /\ t.id \in DOMAIN request /\ request[t.id].status = "pending"
                            /\ t.row.by = request[t.id].by /\ t.row.about = request[t.id].about
        /\ DOMAIN request' = DOMAIN request \cup {t.id}
        /\ request'[t.id] = t.row
        /\ \A r \in DOMAIN request \ {t.id} : request'[r] = request[r]
        /\ changed' = IF t.changes THEN changed \cup {t.id} ELSE changed
        /\ told' = [told EXCEPT ![s] = @ \cup {<<t.id, t.row.status>>}]
        /\ list' = [list EXCEPT ![s] = Invalidated(s, Touched(t.op), t.id)]
        /\ tx' = [tx EXCEPT ![s] = Idle]
        /\ UNCHANGED <<locked, loads>>

(* What the invariant says of a mutation that commits.                     *)
LEMMA CommitIs ==
    ASSUME DeskInv, NEW s \in Session, Commit(s)
    PROVE  Commits(s) /\ request' \in [DOMAIN request' -> RequestRow]
<1> DEFINE t == tx[s]
<1>1. Sound(s, t) /\ t.at = "commit"
  BY DEF DeskInv, Commit
<1>2. t.op \in {"none", "file", "withdraw", "approve", "reject"}
  BY <1>1 DEF Sound, Mutation
<1>3. /\ t.id \in RequestId /\ t.row \in RequestRow /\ t.row.status = Outcome[t.op]
      /\ t.op # "none" /\ (t.changes <=> t.op = "approve")
  BY <1>1 DEF Sound, Shaped
<1>4. /\ t.op = "file" => t.id \notin DOMAIN request /\ t.row.by = UserOf[s]
      /\ t.op # "file" => /\ t.id \in DOMAIN request /\ request[t.id].status = "pending"
                          /\ t.row.by = request[t.id].by /\ t.row.about = request[t.id].about
  BY <1>1, <1>2, <1>3 DEF Sound, Grounded, Holds
<1>5. request' = [r \in DOMAIN request \cup {t.id} |-> IF r = t.id THEN t.row ELSE request[r]]
  BY DEF Commit
<1>6. request \in [DOMAIN request -> RequestRow]
  BY DEF DeskInv, DeskTypeOK
<1> HIDE DEF t
<1>7. /\ DOMAIN request' = DOMAIN request \cup {t.id}
      /\ request'[t.id] = t.row
      /\ \A r \in DOMAIN request \ {t.id} : request'[r] = request[r]
      /\ request' \in [DOMAIN request' -> RequestRow]
  BY <1>3, <1>5, <1>6
<1>8. QED
  BY <1>2, <1>3, <1>4, <1>7 DEF Commits, Commit, t

(* A list that is fetched again, and one whose first load is left alone.   *)
LEMMA AfterwardsIs ==
    ASSUME NEW q \in QueryState, NEW r \in RequestId
    PROVE  /\ Resent(q) \in QueryState
           /\ Resent(q).shown = q.shown /\ Resent(q).rows = {} /\ Resent(q).fetch = "sent"
           /\ LeftAlone(q, r) \in QueryState
           /\ LeftAlone(q, r).shown = q.shown /\ LeftAlone(q, r).rows = q.rows
           /\ LeftAlone(q, r).fetch = q.fetch
           /\ LeftAlone(q, r).missed = IF q.fetch = "answered" THEN q.missed \cup {r}
                                       ELSE q.missed
<1>1. q.missed \cup {r} \in SUBSET RequestId
  BY DEF QueryState
<1>2. QED
  BY <1>1 DEF QueryState, Resent, LeftAlone

(* COMMIT: the one mutation that holds the request gives it its verdict,   *)
(* and the lists of its page that might deny it are fetched again.         *)
LEMMA CommitStep ==
    ASSUME DeskInv, NEW s \in Session, Commit(s)
    PROVE  DeskInv'
<1> USE CorrectionDeskAssumption
<1> DEFINE t == tx[s]
<1>1. Commits(s) /\ request' \in [DOMAIN request' -> RequestRow] /\ Holds(t)
  BY CommitIs DEF Commit, Holds
<1>2. /\ t.id \in RequestId /\ t.row \in RequestRow /\ t.row.status = Outcome[t.op]
      /\ t.op \in {"file", "withdraw", "approve", "reject"}
      /\ t.changes <=> t.op = "approve"
      /\ t.op = "file" => t.id \notin DOMAIN request /\ t.row.by = UserOf[s]
      /\ t.op # "file" => /\ t.id \in DOMAIN request /\ request[t.id].status = "pending"
                          /\ t.row.by = request[t.id].by /\ t.row.about = request[t.id].about
  BY <1>1 DEF Commits
<1>3. /\ DOMAIN request' = DOMAIN request \cup {t.id}
      /\ request'[t.id] = t.row
      /\ \A r \in DOMAIN request \ {t.id} : request'[r] = request[r]
      /\ changed' = IF t.changes THEN changed \cup {t.id} ELSE changed
      /\ UNCHANGED <<locked, loads>>
  BY <1>1 DEF Commits
<1>4. /\ t.op = "file" <=> t.row.status = "pending"
      /\ t.op = "approve" <=> t.row.status = "approved"
      /\ t.row.status \in {"pending", "approved", "rejected", "cancelled"}
  BY <1>2 DEF Outcome
<1>5. /\ told' \in [Session -> SUBSET (RequestId \X {"pending", "approved", "rejected", "cancelled"})]
      /\ told'[s] = told[s] \cup {<<t.id, t.row.status>>}
      /\ \A o \in Session \ {s} : told'[o] = told[o]
  <2>1. told \in [Session -> SUBSET (RequestId \X {"pending", "approved", "rejected", "cancelled"})]
    BY DEF DeskInv, DeskTypeOK
  <2>2. told' = [told EXCEPT ![s] = @ \cup {<<t.id, t.row.status>>}]
    BY <1>1 DEF Commits
  <2> HIDE DEF t
  <2>3. QED
    BY <1>2, <1>4, <2>1, <2>2
<1>6. /\ tx' \in [Session -> Mutation] /\ tx'[s] = Idle
      /\ \A o \in Session \ {s} : tx'[o] = tx[o]
  BY <1>1, IdleIsSound DEF Commits, Sound, DeskInv, DeskTypeOK
<1>7. /\ list' \in [Session -> [Key -> QueryState]]
      /\ \A o \in Session \ {s} : list'[o] = list[o]
      /\ \A k \in Key : list'[s][k] = IF k \notin Touched(t.op) \cap Mounted(s) THEN list[s][k]
                                      ELSE IF FirstLoad(list[s][k]) THEN LeftAlone(list[s][k], t.id)
                                      ELSE Resent(list[s][k])
  <2>1. list \in [Session -> [Key -> QueryState]]
    BY DEF DeskInv, DeskTypeOK
  <2>2. list' = [list EXCEPT ![s] = Invalidated(s, Touched(t.op), t.id)]
    BY <1>1 DEF Commits
  <2>3. \A q \in QueryState : Resent(q) \in QueryState /\ LeftAlone(q, t.id) \in QueryState
    BY <1>2, AfterwardsIs
  <2>4. Invalidated(s, Touched(t.op), t.id) \in [Key -> QueryState]
    BY <2>1, <2>3 DEF Invalidated
  <2>5. QED
    BY <2>1, <2>2, <2>4 DEF Invalidated
<1> HIDE DEF t
<1>8. DeskTypeOK'
  <2>1. DOMAIN request' \subseteq RequestId /\ changed' \subseteq DOMAIN request'
    BY <1>2, <1>3 DEF DeskInv, DeskTypeOK
  <2>2. QED
    BY <1>1, <1>3, <1>5, <1>6, <1>7, <2>1 DEF DeskInv, DeskTypeOK
<1>9. \A r \in DOMAIN request :
        request'[r].by = request[r].by /\ request'[r].about = request[r].about
  BY <1>2, <1>3
<1>10. \A u : AddedShifts(u) \subseteq AddedShifts(u)'
  BY <1>3, <1>9 DEF AddedShifts, DeskInv, DeskTypeOK
<1>11. ASSUME NEW o \in Session PROVE Sound(o, tx[o])'
  <2>1. CASE o = s
    <3>1. Sound(s, Idle)'
      BY DEF Idle, Sound, Mutation, Shaped, Grounded, SeesThePast, Holds
    <3>2. QED
      BY <1>6, <2>1, <3>1 DEF Sound, Shaped, Grounded, SeesThePast
  <2>2. CASE o # s
    <3>1. Sound(o, tx[o]) /\ tx'[o] = tx[o]
      BY <1>6, <2>2 DEF DeskInv
    <3>2. Holds(tx[o]) => tx[o].id # t.id
      BY <1>1, <2>2 DEF DeskInv, HeldOnce, t
    <3>3. Shaped(tx[o])'
      BY <3>1 DEF Sound, Shaped
    <3>4. Grounded(o, tx[o])'
      <4> DEFINE u == tx[o]
      <4>1. Grounded(o, u) /\ (Holds(u) => u.id # t.id) /\ (u.at = "commit" => Holds(u))
        BY <3>1, <3>2 DEF Sound, Holds
      <4>2. u.id \in DOMAIN request /\ Holds(u) => request'[u.id] = request[u.id]
        BY <1>3, <4>1
      <4> HIDE DEF u
      <4>3. /\ u.op \in {"withdraw", "approve", "reject"} => u.id \in DOMAIN request'
            /\ Holds(u) /\ u.op # "file" => request'[u.id].status = "pending"
            /\ u.at = "commit" /\ u.op # "file" =>
                  u.row.by = request'[u.id].by /\ u.row.about = request'[u.id].about
            /\ u.at = "commit" /\ u.op = "file" =>
                  u.id \notin DOMAIN request' /\ u.row.by = UserOf[o]
        <5>1. Holds(u) /\ u.op # "file" => u.id \in DOMAIN request
          BY <3>1 DEF Sound, Mutation, Shaped, Grounded, Holds, u
        <5>2. QED
          BY <1>3, <4>1, <4>2, <5>1 DEF Grounded
      <4>4. QED
        BY <3>1, <4>3 DEF Grounded, Holds, u
    <3>5. SeesThePast(tx[o])'
      BY <1>3, <1>9, <1>10, <3>1 DEF Sound, SeesThePast, Grounded
    <3>6. QED
      BY <3>1, <3>3, <3>4, <3>5 DEF Sound
  <2>3. QED
    BY <2>1, <2>2
<1>12. HeldOnce'
  BY <1>6, IdleIsSound DEF DeskInv, HeldOnce, Holds
<1>13. AnswersAreTrue'
  <2> SUFFICES ASSUME NEW o \in Session, NEW answer \in told'[o]
               PROVE  /\ answer[1] \in DOMAIN request'
                      /\ answer[2] \in Verdicts => request'[answer[1]].status = answer[2]
                      /\ answer[2] = "pending" => request'[answer[1]].by = UserOf[o]
    BY DEF AnswersAreTrue
  <2>1. CASE answer \in told[o]
    BY <1>2, <1>3, <1>9, <2>1 DEF DeskInv, AnswersAreTrue, Verdicts
  <2>2. CASE o = s /\ answer = <<t.id, t.row.status>>
    BY <1>2, <1>3, <1>4, <2>2
  <2>3. QED
    BY <1>5, <2>1, <2>2
<1>14. ChangesAreApproved'
  BY <1>2, <1>3, <1>4 DEF DeskInv, ChangesAreApproved
<1>15. \A r \in Pending' : r \in Pending \/ (r = t.id /\ t.op = "file")
  BY <1>3, <1>4 DEF Pending
<1>16. ASSUME NEW o \in Session, NEW k \in Key PROVE GoodList(o, k, list[o][k])'
  <2>1. GoodList(o, k, list[o][k])
    BY DEF DeskInv
  <2>2. \A answer \in told[o] : answer[1] \in DOMAIN request
    BY DEF DeskInv, AnswersAreTrue
  <2>3. \A rows, missed :
          Agrees(o, k, rows, missed) /\ told'[o] = told[o] => Agrees(o, k, rows, missed)'
    BY <1>2, <1>15, <2>2 DEF Agrees
  <2>4. \A rows, missed, more :
          o = s /\ Agrees(o, k, rows, missed) /\ more = missed \cup {t.id}
            => Agrees(o, k, rows, more)'
    BY <1>5, <1>15, <2>2 DEF Agrees
  <2>5. CASE o # s
    <3>1. told'[o] = told[o] /\ list'[o] = list[o]
      BY <1>5, <1>7, <2>5
    <3>2. \A rows, missed : Agrees(o, k, rows, missed) => Agrees(o, k, rows, missed)'
      BY <2>3, <3>1
    <3>3. DOMAIN request \subseteq DOMAIN request'
      BY <1>3
    <3> QED
      BY <2>1, <3>1, <3>2, <3>3 DEF GoodList
  <2>6. CASE o = s /\ k \in Touched(t.op) \cap Mounted(s)
    <3> DEFINE q == list[s][k]
               p == list'[s][k]
    <3>1. /\ q \in QueryState /\ q.shown \subseteq DOMAIN request
          /\ q.rows \subseteq DOMAIN request
          /\ q.fetch = "answered" => Agrees(s, k, q.rows, q.missed)
      BY <2>1, <2>6 DEF GoodList
    <3>2. p = IF FirstLoad(q) THEN LeftAlone(q, t.id) ELSE Resent(q)
      BY <1>7, <2>6
    <3>3. FirstLoad(q) => q.fetch \in {"sent", "answered"}
      BY DEF FirstLoad
    <3> HIDE DEF q, p
    <3>4. CASE FirstLoad(q)
      <4>1. /\ p \in QueryState /\ p.shown = q.shown /\ p.rows = q.rows /\ p.fetch = q.fetch
            /\ q.fetch = "answered" => p.missed = q.missed \cup {t.id}
        BY <1>2, <3>1, <3>2, <3>4, AfterwardsIs
      <4>2. /\ list'[o][k] \in QueryState
            /\ list'[o][k].shown \subseteq DOMAIN request'
            /\ list'[o][k].rows \subseteq DOMAIN request'
            /\ list'[o][k].fetch = "answered" =>
                 /\ q.fetch = "answered"
                 /\ list'[o][k].rows = q.rows
                 /\ list'[o][k].missed = q.missed \cup {t.id}
        BY <1>3, <2>6, <3>1, <4>1 DEF p
      <4>3. \A r, m : r = q.rows /\ m = q.missed \cup {t.id} /\ q.fetch = "answered"
                         => Agrees(o, k, r, m)'
        BY <2>6, <2>4, <3>1
      <4>4. list'[o][k].fetch = "answered" =>
              Agrees(o, k, list[o][k].rows, list[o][k].missed)'
        BY <4>2, <4>3
      <4>5. list'[o][k].fetch # "idle"
        BY <2>6, <3>3, <3>4, <4>1 DEF p
      <4>6. QED
        BY <4>2, <4>4, <4>5 DEF GoodList
    <3>5. CASE ~FirstLoad(q)
      <4>1. p \in QueryState /\ p.shown = q.shown /\ p.rows = {} /\ p.fetch = "sent"
        BY <1>2, <3>1, <3>2, <3>5, AfterwardsIs
      <4>2. QED
        BY <1>3, <2>6, <3>1, <4>1 DEF GoodList, p
    <3>6. QED
      BY <3>4, <3>5
  <2>7. CASE o = s /\ k \notin Touched(t.op) \cap Mounted(s)
    <3>1. list'[o][k] = list[o][k]
      BY <1>7, <2>7
    <3>2. ASSUME k \in Mounted(s), NEW rows, NEW missed, Agrees(s, k, rows, missed)
          PROVE  Agrees(s, k, rows, missed)'
      <4>1. t.op = "file" /\ k = "queue"
        BY <2>7, <3>2 DEF Touched, Key
      <4>2. t.row.status = "pending" /\ "pending" \notin Verdicts
        BY <1>4, <4>1 DEF Verdicts
      <4>3. QED
        BY <1>5, <3>2, <4>1, <4>2 DEF Agrees
    <3>3. QED
      BY <1>3, <2>1, <2>7, <3>1, <3>2 DEF GoodList
  <2>8. QED
    BY <2>5, <2>6, <2>7
<1>17. QED
  BY <1>8, <1>11, <1>12, <1>13, <1>14, <1>16 DEF DeskInv

(* Every step keeps the invariant.                                         *)
LEMMA DeskStep == DeskInv /\ [DeskNext]_deskVars => DeskInv'
<1> SUFFICES ASSUME DeskInv, [DeskNext]_deskVars PROVE DeskInv'
  OBVIOUS
<1>1. CASE UNCHANGED deskVars
  <2>1. UNCHANGED <<request, changed, locked, tx, list, told, loads>>
    BY <1>1 DEF deskVars, deskTables
  <2>2. DeskTypeOK' /\ HeldOnce' /\ AnswersAreTrue' /\ ChangesAreApproved'
    BY <2>1 DEF DeskInv, DeskTypeOK, HeldOnce, AnswersAreTrue, ChangesAreApproved
  <2>3. \A s \in Session : Sound(s, tx[s])'
    BY <2>1 DEF DeskInv, Sound, Grounded, SeesThePast, AddedShifts
  <2>4. \A s \in Session, k \in Key : GoodList(s, k, list[s][k])'
    BY <2>1 DEF DeskInv, GoodList, Agrees, Pending
  <2>5. QED
    BY <2>2, <2>3, <2>4 DEF DeskInv
<1>2. ASSUME NEW s \in Session, Statement(s) PROVE DeskInv'
  BY <1>2, RefusalKeeps, FileKeeps, WithdrawKeeps, DecideKeeps, ApplyKeeps, CommitStep
     DEF Statement, RefuseInvalid
<1>3. QED
  BY <1>1, <1>2, ClickKeeps, ListsKeep, PeriodKeeps DEF DeskNext

(* The requests, mutations and lists are well typed in every state.        *)
THEOREM DeskTypeCorrect == DeskSpec => []DeskTypeOK
<1>1. DeskInv => DeskTypeOK
  BY DEF DeskInv
<1>2. QED
  BY <1>1, DeskInitInv, DeskStep, PTL DEF DeskSpec

(* However many sessions file, withdraw and decide the same requests at    *)
(* once, each is told the verdict the request bears for ever, and the time *)
(* record carries its change exactly if it was approved.                   *)
THEOREM OneAnswer == DeskSpec => []OneAnswerStands
<1>1. DeskInv => OneAnswerStands
  BY DEF DeskInv, AnswersAreTrue, ChangesAreApproved, OneAnswerStands
<1>2. QED
  BY <1>1, DeskInitInv, DeskStep, PTL DEF DeskSpec

(* A page at rest never denies what its own user did on it, but for what   *)
(* was done while an older answer of a first load was on its way.          *)
THEOREM PagesKnow == DeskSpec => []PagesKnowOwnActions
<1>1. DeskInv => PagesKnowOwnActions
  <2> SUFFICES ASSUME DeskInv, NEW s \in Session, NEW answer \in told[s],
                      NEW k \in Mounted(s), list[s][k].fetch = "idle",
                      answer[1] \notin list[s][k].missed
               PROVE  /\ answer[2] \in Verdicts => answer[1] \notin list[s][k].shown
                      /\ answer[2] = "pending" /\ k = "mine" /\ answer[1] \in Pending
                            => answer[1] \in list[s][k].shown
    BY DEF PagesKnowOwnActions
  <2>1. k \in Key
    BY DEF Mounted
  <2>2. GoodList(s, k, list[s][k])
    BY <2>1 DEF DeskInv
  <2>3. QED
    BY <2>2 DEF GoodList, Agrees
<1>2. QED
  BY <1>1, DeskInitInv, DeskStep, PTL DEF DeskSpec

(* An approval changes no hours of a period that was locked by the click   *)
(* and not opened since, and adds no shift the worker had by then.         *)
THEOREM ApprovalsSee == DeskSpec => []ApprovalsSeeThePast
<1>1. DeskInv => ApprovalsSeeThePast
  <2> SUFFICES ASSUME DeskInv, NEW s \in Session, tx[s].changes
               PROVE  /\ tx[s].wasOpen
                      /\ request[tx[s].id].about = None => tx[s].wasFree
    BY DEF ApprovalsSeeThePast
  <2>1. Shaped(tx[s]) /\ SeesThePast(tx[s])
    BY DEF DeskInv, Sound
  <2>2. QED
    BY <2>1 DEF Shaped, SeesThePast
<1>2. QED
  BY <1>1, DeskInitInv, DeskStep, PTL DEF DeskSpec

-----------------------------------------------------------------------------
(***************************************************************************)
(* Accounts.                                                               *)
(***************************************************************************)
\* What a call holds at the statements it comes to.
CallHolds(t) ==
    /\ t.op = "none" => t.at = "idle"
    /\ t.op = "add" => t.at \in {"store", "commit"}
    /\ t.op = "invite" => t.at \in {"look", "store", "commit"}
    /\ t.op = "forgot" => t.at \in {"look", "store"}
    /\ t.op = "reset" => t.at \in {"look", "write"} /\ t.link \in LinkId
    /\ t.op = "login" => t.at \in {"look", "stamp"}
    /\ t.op \in {"add", "invite", "forgot", "login"} => t.who \in Person
    /\ t.op = "add" /\ t.at = "store" => t.link = Missing
    /\ t.at = "write" => t.who \in Person

\* The call is about to insert a row for a link it made up.
Issues(t) == t.at = "commit" /\ t.link # Missing

\* The call agrees with the tables: a late use of a link has nothing left to
\* do, and a sign-in that would succeed now has been marked.
GoodCall(t) ==
    /\ t \in Call
    /\ CallHolds(t)
    /\ Issues(t) => t.link \notin DOMAIN link
    /\ t.at = "write" => t.link \in DOMAIN link
    /\ t.op = "reset" /\ t.late => t.link \in worked /\ t.at # "write"
    /\ t.op = "login" =>
          /\ Admits(account[t.who], t.password) => t.good
          /\ t.at = "stamp" => t.good

\* A link that is issued is no other call's; one that worked is used.
LinksAreOwn ==
    /\ \A c, o \in Client :
          c # o /\ Issues(call[c]) /\ Issues(call[o]) => call[c].link # call[o].link
    /\ \A l \in worked : link[l].used

AccountsInv ==
    /\ AccountsTypeOK
    /\ \A c \in Client : GoodCall(call[c])
    /\ LinksAreOwn

(* The accounts start empty and at rest.                                   *)
LEMMA AccountsInitInv == AccountsInit => AccountsInv
<1> SUFFICES ASSUME AccountsInit PROVE AccountsInv
  OBVIOUS
<1> USE AccountsAssumption DEF AccountsInit
<1>1. AtRest \in Call /\ AtRest.op = "none" /\ AtRest.at = "idle"
  BY DEF AtRest, Call
<1>2. AccountsTypeOK
  BY <1>1 DEF AccountsTypeOK, AccountRow
<1>3. \A c \in Client : GoodCall(call[c])
  BY <1>1 DEF GoodCall, CallHolds, Issues
<1>4. LinksAreOwn
  BY <1>1 DEF LinksAreOwn, Issues
<1>5. QED
  BY <1>2, <1>3, <1>4 DEF AccountsInv

\* The step turns the call of c into t and leaves the tables alone; a link
\* it issues is new.
MovesTo(c, t) ==
    /\ call' = [call EXCEPT ![c] = t]
    /\ Issues(t) => \A o \in Client : call[o].link # t.link
    /\ UNCHANGED <<account, link, worked>>
    /\ held' \in SUBSET LinkId
    /\ calls' \in 0..MaxCalls

(* A step that turns one call into a good one keeps the invariant.         *)
LEMMA MoveKeeps ==
    ASSUME AccountsInv, NEW c \in Client, NEW t, GoodCall(t), MovesTo(c, t)
    PROVE  AccountsInv'
<1> USE DEF MovesTo
<1>1. \A o \in Client : call'[o] = IF o = c THEN t ELSE call[o]
  BY DEF AccountsInv, AccountsTypeOK
<1>2. AccountsTypeOK'
  BY DEF AccountsInv, AccountsTypeOK, GoodCall
<1>3. ASSUME NEW o \in Client PROVE GoodCall(call[o])'
  <2>1. GoodCall(call'[o])
    BY <1>1 DEF AccountsInv
  <2>2. QED
    BY <2>1 DEF GoodCall
<1>4. LinksAreOwn'
  BY <1>1 DEF AccountsInv, LinksAreOwn
<1>5. QED
  BY <1>2, <1>3, <1>4 DEF AccountsInv

(* A call at rest is good.                                                 *)
LEMMA RestIsGood == GoodCall(AtRest) /\ ~Issues(AtRest)
BY AccountsAssumption DEF AtRest, Call, GoodCall, CallHolds, Issues

(* A call that ends without an effect keeps the invariant.                 *)
LEMMA EndKeeps ==
    ASSUME AccountsInv, NEW c \in Client, Go(c, AtRest)
    PROVE  AccountsInv'
<1>1. MovesTo(c, AtRest)
  BY RestIsGood DEF Go, MovesTo, AccountsInv, AccountsTypeOK
<1>2. QED
  BY <1>1, RestIsGood, MoveKeeps

(* Whatever is clicked, the call is good when it is sent: a late use of a  *)
(* link and a sign-in that succeeds now are marked by then.                *)
LEMMA AskKeeps ==
    ASSUME AccountsInv, NEW c \in Client, Asked(c)
    PROVE  AccountsInv'
<1> USE AccountsAssumption
<1>1. ASSUME NEW t, GoodCall(t), ~Issues(t), Ask(c, t)
      PROVE  AccountsInv'
  <2>1. MovesTo(c, t)
    BY <1>1 DEF Ask, MovesTo, AccountsInv, AccountsTypeOK
  <2>2. QED
    BY <1>1, <2>1, MoveKeeps
<1> USE DEF AtRest, Call, GoodCall, CallHolds, Issues
<1>2. ASSUME NEW p \in Person, NEW w \in Password \cup {Missing}, AddUser(c, p, w)
      PROVE  AccountsInv'
  <2> DEFINE t == [AtRest EXCEPT !.op = "add", !.at = "store", !.who = p, !.password = w]
  <2>1. GoodCall(t) /\ ~Issues(t)
    OBVIOUS
  <2>2. Ask(c, t)
    BY <1>2 DEF AddUser
  <2> HIDE DEF t, AtRest, GoodCall, Issues
  <2>3. QED
    BY <1>1, <2>1, <2>2
<1>3. ASSUME NEW p \in Person, GetLink(c, p)
      PROVE  AccountsInv'
  <2> DEFINE t == [AtRest EXCEPT !.op = "invite", !.at = "look", !.who = p]
  <2>1. GoodCall(t) /\ ~Issues(t)
    OBVIOUS
  <2>2. Ask(c, t)
    BY <1>3 DEF GetLink
  <2> HIDE DEF t, AtRest, GoodCall, Issues
  <2>3. QED
    BY <1>1, <2>1, <2>2
<1>4. ASSUME NEW p \in Person, ForgotPassword(c, p)
      PROVE  AccountsInv'
  <2> DEFINE t == [AtRest EXCEPT !.op = "forgot", !.at = "look", !.who = p]
  <2>1. GoodCall(t) /\ ~Issues(t)
    OBVIOUS
  <2>2. Ask(c, t)
    BY <1>4 DEF ForgotPassword
  <2> HIDE DEF t, AtRest, GoodCall, Issues
  <2>3. QED
    BY <1>1, <2>1, <2>2
<1>5. ASSUME NEW p \in Person, NEW w \in Password, Login(c, p, w)
      PROVE  AccountsInv'
  <2> DEFINE t == [AtRest EXCEPT !.op = "login", !.at = "look", !.who = p,
                     !.password = w, !.good = Admits(account[p], w)]
  <2>1. GoodCall(t) /\ ~Issues(t)
    BY DEF Admits
  <2>2. Ask(c, t)
    BY <1>5 DEF Login
  <2> HIDE DEF t, AtRest, GoodCall, Issues
  <2>3. QED
    BY <1>1, <2>1, <2>2
<1>6. ASSUME NEW l \in LinkId, NEW w \in Password, ResetPassword(c, l, w)
      PROVE  AccountsInv'
  <2> DEFINE late == l \in worked
             t == [AtRest EXCEPT !.op = "reset", !.at = "look", !.link = l,
                     !.password = w, !.late = late]
  <2>0. late \in BOOLEAN /\ (late => l \in worked)
    OBVIOUS
  <2> HIDE DEF late
  <2>1. GoodCall(t) /\ ~Issues(t)
    BY <2>0
  <2> USE DEF late
  <2>2. Ask(c, t)
    BY <1>6 DEF ResetPassword
  <2> HIDE DEF t, AtRest, GoodCall, Issues
  <2>3. QED
    BY <1>1, <2>1, <2>2
<1>7. QED
  BY <1>2, <1>3, <1>4, <1>5, <1>6 DEF Asked

(* Looking things up: a link that worked is found used, and only the       *)
(* password the account has now gets any further.                          *)
LEMMA LookKeeps ==
    ASSUME AccountsInv, NEW c \in Client,
           CheckInvite(c) \/ FindUser(c) \/ CheckToken(c) \/ CheckPassword(c)
    PROVE  AccountsInv'
<1> USE AccountsAssumption
<1>1. GoodCall(call[c]) /\ call[c] \in Call
  BY DEF AccountsInv, GoodCall
<1>2. ASSUME NEW t, GoodCall(t), ~Issues(t), Go(c, t)
      PROVE  AccountsInv'
  <2>1. MovesTo(c, t)
    BY <1>2 DEF Go, MovesTo, AccountsInv, AccountsTypeOK
  <2>2. QED
    BY <1>2, <2>1, MoveKeeps
<1> DEFINE q == call[c]
<1>3. ASSUME CheckInvite(c) \/ FindUser(c), Go(c, [q EXCEPT !.at = "store"])
      PROVE  AccountsInv'
  <2> DEFINE t == [q EXCEPT !.at = "store"]
  <2>1. GoodCall(t) /\ ~Issues(t)
    BY <1>1, <1>3 DEF CheckInvite, FindUser, GoodCall, CallHolds, Issues, Call
  <2> HIDE DEF t
  <2>2. QED
    BY <1>2, <1>3, <2>1 DEF t
<1>4. ASSUME CheckToken(c), Usable(q.link),
             Go(c, [q EXCEPT !.at = "write", !.who = link[q.link].of])
      PROVE  AccountsInv'
  <2> DEFINE t == [q EXCEPT !.at = "write", !.who = link[q.link].of]
  <2>1. q.link \in DOMAIN link /\ ~link[q.link].used /\ link[q.link].of \in Person
    BY <1>4 DEF Usable, AccountsInv, AccountsTypeOK, LinkRow
  <2>2. q.link \notin worked
    BY <2>1 DEF AccountsInv, LinksAreOwn
  <2>3. GoodCall(t) /\ ~Issues(t)
    BY <1>1, <1>4, <2>1, <2>2 DEF CheckToken, GoodCall, CallHolds, Issues, Call
  <2> HIDE DEF t
  <2>4. QED
    BY <1>2, <1>4, <2>3 DEF t
<1>5. ASSUME CheckPassword(c), Admits(account[q.who], q.password),
             Go(c, [q EXCEPT !.at = "stamp"])
      PROVE  AccountsInv'
  <2> DEFINE t == [q EXCEPT !.at = "stamp"]
  <2>1. GoodCall(t) /\ ~Issues(t)
    BY <1>1, <1>5 DEF CheckPassword, GoodCall, CallHolds, Issues, Call
  <2> HIDE DEF t
  <2>2. QED
    BY <1>2, <1>5, <2>1 DEF t
<1>6. QED
  BY <1>3, <1>4, <1>5, EndKeeps DEF CheckInvite, FindUser, CheckToken, CheckPassword

(* A link that is made up is nobody else's.                                *)
LEMMA IssueKeeps ==
    ASSUME AccountsInv, NEW c \in Client, InsertUser(c) \/ StoreInvite(c)
    PROVE  AccountsInv'
<1> USE AccountsAssumption
<1> DEFINE q == call[c]
<1>1. GoodCall(q) /\ q \in Call
  BY DEF AccountsInv, GoodCall
<1>2. q.op \in {"add", "invite"} /\ q.at = "store"
  BY DEF InsertUser, StoreInvite
<1>3. ASSUME NEW l \in FreeLinks, NEW mails \in BOOLEAN, IssueInvite(c, l, mails)
      PROVE  AccountsInv'
  <2> DEFINE t == [q EXCEPT !.at = "commit", !.link = l]
  <2>1. l \in LinkId \ DOMAIN link /\ \A o \in Client : call[o].link # l
    BY DEF FreeLinks
  <2>2. GoodCall(t) /\ t.link = l
    BY <1>1, <1>2, <2>1 DEF GoodCall, CallHolds, Issues, Call
  <2>3. MovesTo(c, t)
    BY <1>3, <2>1, <2>2 DEF IssueInvite, MovesTo, AccountsInv, AccountsTypeOK
  <2> HIDE DEF t
  <2>4. QED
    BY <2>2, <2>3, MoveKeeps
<1>4. ASSUME q.op = "add", Go(c, [q EXCEPT !.at = "commit"])
      PROVE  AccountsInv'
  <2> DEFINE t == [q EXCEPT !.at = "commit"]
  <2>1. GoodCall(t) /\ ~Issues(t)
    BY <1>1, <1>2, <1>4 DEF GoodCall, CallHolds, Issues, Call
  <2>2. MovesTo(c, t)
    BY <1>4, <2>1 DEF Go, MovesTo, AccountsInv, AccountsTypeOK
  <2> HIDE DEF t
  <2>3. QED
    BY <2>1, <2>2, MoveKeeps
<1>5. QED
  BY <1>3, <1>4, EndKeeps DEF InsertUser, StoreInvite

\* The step changes the accounts to these, marks the sign-ins they admit,
\* and ends the call of c.
Applies(c, accounts) ==
    /\ account' = accounts
    /\ call' = Marked(accounts, [call EXCEPT ![c] = AtRest])

(* What that does to the calls: they keep everything but the mark, which a *)
(* sign-in the accounts admit gets.                                        *)
LEMMA MarkedCalls ==
    ASSUME AccountsInv, NEW c \in Client, NEW accounts, Applies(c, accounts)
    PROVE  /\ call' \in [Client -> Call]
           /\ call'[c] = AtRest
           /\ \A o \in Client \ {c} :
                 /\ call'[o].op = call[o].op /\ call'[o].at = call[o].at
                 /\ call'[o].who = call[o].who /\ call'[o].password = call[o].password
                 /\ call'[o].link = call[o].link /\ call'[o].late = call[o].late
                 /\ call[o].good => call'[o].good
                 /\ call[o].op = "login" /\ Admits(accounts[call[o].who], call[o].password)
                       => call'[o].good
<1> DEFINE cs == [call EXCEPT ![c] = AtRest]
<1>1. AtRest \in Call /\ AtRest.op = "none"
  BY AccountsAssumption DEF AtRest, Call
<1>2. call \in [Client -> Call] /\ cs \in [Client -> Call]
  BY <1>1 DEF AccountsInv, AccountsTypeOK
<1>3. cs[c] = AtRest /\ \A o \in Client \ {c} : cs[o] = call[o]
  BY <1>2
<1> HIDE DEF cs
<1>4. \A o \in Client :
        call'[o] = IF cs[o].op = "login" /\ Admits(accounts[cs[o].who], cs[o].password)
                   THEN [cs[o] EXCEPT !.good = TRUE] ELSE cs[o]
  BY DEF Applies, Marked, cs
<1>5. ASSUME NEW o \in Client
      PROVE  /\ call'[o] \in Call
             /\ call'[o].op = cs[o].op /\ call'[o].at = cs[o].at
             /\ call'[o].who = cs[o].who /\ call'[o].password = cs[o].password
             /\ call'[o].link = cs[o].link /\ call'[o].late = cs[o].late
             /\ cs[o].good => call'[o].good
             /\ cs[o].op = "login" /\ Admits(accounts[cs[o].who], cs[o].password)
                   => call'[o].good
  <2>1. cs[o] \in Call
    BY <1>2
  <2>2. CASE cs[o].op = "login" /\ Admits(accounts[cs[o].who], cs[o].password)
    <3>1. call'[o] = [cs[o] EXCEPT !.good = TRUE]
      BY <1>4, <2>2
    <3>2. QED
      BY <2>1, <3>1 DEF Call
  <2>3. CASE ~(cs[o].op = "login" /\ Admits(accounts[cs[o].who], cs[o].password))
    <3>1. call'[o] = cs[o]
      BY <1>4, <2>3
    <3>2. QED
      BY <2>1, <2>3, <3>1
  <2>4. QED
    BY <2>2, <2>3
<1>6. call' = [o \in Client |-> call'[o]]
  BY DEF Applies, Marked
<1>7. QED
  BY <1>1, <1>3, <1>4, <1>5, <1>6

\* A call the step leaves alone, but for its mark, while tables grow.
StaysGood(o) ==
    /\ call'[o] \in Call
    /\ call'[o].op = call[o].op /\ call'[o].at = call[o].at
    /\ call'[o].who = call[o].who /\ call'[o].password = call[o].password
    /\ call'[o].link = call[o].link /\ call'[o].late = call[o].late
    /\ call[o].good => call'[o].good
    /\ call[o].op = "login" /\ Admits(account'[call[o].who], call[o].password)
          => call'[o].good
    /\ Issues(call[o]) => call[o].link \notin DOMAIN link'
    /\ DOMAIN link \subseteq DOMAIN link'
    /\ worked \subseteq worked'

(* Such a call stays good.                                                 *)
LEMMA BystandersStayGood ==
    ASSUME AccountsInv, NEW o \in Client, StaysGood(o)
    PROVE  GoodCall(call[o])' /\ (Issues(call[o])' <=> Issues(call[o]))
BY DEF AccountsInv, StaysGood, GoodCall, CallHolds, Issues

\* The call of c is over, and every other one stays good.
EndsAlone(c) ==
    /\ call'[c] = AtRest
    /\ \A o \in Client \ {c} : StaysGood(o)

(* A step that ends one call, and adds to the tables, keeps the calls good *)
(* and their links apart.                                                  *)
LEMMA EndingKeeps ==
    ASSUME AccountsInv, NEW c \in Client, EndsAlone(c), AccountsTypeOK',
           \A l \in worked' : link'[l].used
    PROVE  AccountsInv'
<1>1. GoodCall(AtRest)' /\ ~Issues(AtRest)
  BY AccountsAssumption DEF AtRest, Call, GoodCall, CallHolds, Issues
<1>2. \A o \in Client \ {c} :
        /\ GoodCall(call[o])' /\ (Issues(call[o])' <=> Issues(call[o]))
        /\ call'[o].link = call[o].link
  BY BystandersStayGood DEF EndsAlone, StaysGood
<1>3. GoodCall(call[c])' /\ ~Issues(call[c])'
  BY <1>1 DEF EndsAlone, GoodCall, Issues
<1>4. \A o \in Client : GoodCall(call[o])'
  BY <1>2, <1>3
<1>5. LinksAreOwn'
  BY <1>2, <1>3 DEF AccountsInv, LinksAreOwn, Issues
<1>6. QED
  BY <1>4, <1>5 DEF AccountsInv

(* A row for a new link, and the ones that were there.                     *)
LEMMA WithLinkIs ==
    ASSUME AccountsTypeOK, NEW l \in LinkId \ DOMAIN link, NEW p \in Person
    PROVE  /\ DOMAIN WithLink(l, p) = DOMAIN link \cup {l}
           /\ WithLink(l, p) \in [DOMAIN link \cup {l} -> LinkRow]
           /\ \A k \in DOMAIN link : WithLink(l, p)[k] = link[k]
BY DEF WithLink, AccountsTypeOK, LinkRow

(* COMMIT of an added account or an invite.                                *)
LEMMA CommitKeeps ==
    ASSUME AccountsInv, NEW c \in Client, CommitCall(c)
    PROVE  AccountsInv'
<1> USE AccountsAssumption
<1> DEFINE t == call[c]
           accounts == IF t.op = "add"
                       THEN [account EXCEPT ![t.who] = [status |-> "active",
                                                        password |-> t.password]]
                       ELSE account
<1>1. GoodCall(t) /\ t \in Call /\ t.at = "commit" /\ AccountsTypeOK
  BY DEF AccountsInv, GoodCall, CommitCall
<1>2. t.who \in Person /\ t.link \in LinkId \cup {Missing} /\ t.password \in Password \cup {Missing}
  BY <1>1 DEF GoodCall, CallHolds, Call
<1>3. accounts \in [Person -> AccountRow]
  BY <1>1, <1>2 DEF AccountsTypeOK, AccountRow
<1>4. Applies(c, accounts) /\ UNCHANGED <<calls, worked>>
  BY DEF CommitCall, Applies
<1>5. \/ t.link = Missing /\ UNCHANGED <<link, held>>
      \/ /\ t.link \in LinkId \ DOMAIN link
         /\ link' = WithLink(t.link, t.who) /\ held' = held \cup {t.link}
  BY <1>1, <1>2 DEF CommitCall, GoodCall, Issues
<1> HIDE DEF accounts
<1>6. /\ call' \in [Client -> Call] /\ call'[c] = AtRest
      /\ \A o \in Client \ {c} :
            /\ call'[o].op = call[o].op /\ call'[o].at = call[o].at
            /\ call'[o].who = call[o].who /\ call'[o].password = call[o].password
            /\ call'[o].link = call[o].link /\ call'[o].late = call[o].late
            /\ call[o].good => call'[o].good
            /\ call[o].op = "login" /\ Admits(accounts[call[o].who], call[o].password)
                  => call'[o].good
  BY <1>4, MarkedCalls
<1>7. /\ DOMAIN link' \subseteq DOMAIN link \cup {t.link}
      /\ t.link = Missing => DOMAIN link' = DOMAIN link
      /\ DOMAIN link \subseteq DOMAIN link' /\ DOMAIN link' \subseteq LinkId
      /\ link' \in [DOMAIN link' -> LinkRow]
      /\ \A k \in DOMAIN link : link'[k] = link[k]
      /\ held' \subseteq LinkId
  <2>1. CASE t.link = Missing /\ UNCHANGED <<link, held>>
    BY <1>1, <2>1 DEF AccountsTypeOK
  <2>2. CASE /\ t.link \in LinkId \ DOMAIN link
             /\ link' = WithLink(t.link, t.who) /\ held' = held \cup {t.link}
    <3>1. AccountsTypeOK /\ t.link \in LinkId \ DOMAIN link /\ t.who \in Person
      BY <1>1, <1>2, <2>2
    <3>2. \A l \in LinkId \ DOMAIN link, p \in Person :
             /\ DOMAIN WithLink(l, p) = DOMAIN link \cup {l}
             /\ WithLink(l, p) \in [DOMAIN link \cup {l} -> LinkRow]
             /\ \A k \in DOMAIN link : WithLink(l, p)[k] = link[k]
      BY <3>1, WithLinkIs
    <3>3. /\ DOMAIN link' = DOMAIN link \cup {t.link}
          /\ link' \in [DOMAIN link \cup {t.link} -> LinkRow]
          /\ \A k \in DOMAIN link : link'[k] = link[k]
      BY <2>2, <3>1, <3>2
    <3>4. held' \subseteq LinkId /\ DOMAIN link \subseteq LinkId /\ t.link # Missing
      BY <1>1, <2>2 DEF AccountsTypeOK
    <3> HIDE DEF t
    <3>5. QED
      BY <2>2, <3>3, <3>4
  <2>3. QED
    BY <1>5, <2>1, <2>2
<1>8. \A o \in Client \ {c} : Issues(call[o]) => call[o].link \notin DOMAIN link'
  <2> SUFFICES ASSUME NEW o \in Client \ {c}, Issues(call[o])
               PROVE  call[o].link \notin DOMAIN link'
    OBVIOUS
  <2>1. call[o].link \notin DOMAIN link
    BY DEF AccountsInv, GoodCall
  <2>2. t.link # Missing => call[o].link # t.link
    BY <1>1 DEF AccountsInv, LinksAreOwn, Issues
  <2>3. QED
    BY <1>7, <2>1, <2>2
<1>9. account' = accounts
  BY <1>4 DEF Applies
<1>10. EndsAlone(c)
  BY <1>4, <1>6, <1>7, <1>8, <1>9 DEF EndsAlone, StaysGood
<1>11. AccountsTypeOK'
  BY <1>1, <1>3, <1>4, <1>6, <1>7, <1>9 DEF AccountsTypeOK
<1>12. \A l \in worked' : link'[l].used
  BY <1>1, <1>4, <1>7 DEF AccountsInv, AccountsTypeOK, LinksAreOwn
<1>13. QED
  BY <1>10, <1>11, <1>12, EndingKeeps

(* A reset link is stored, and mailed or not.                              *)
LEMMA StoreResetKeeps ==
    ASSUME AccountsInv, NEW c \in Client, StoreReset(c)
    PROVE  AccountsInv'
<1> USE AccountsAssumption
<1>1. PICK l \in FreeLinks :
        link' = WithLink(l, call[c].who) /\ held' \in {held, held \cup {l}}
  BY DEF StoreReset
<1>2. GoodCall(call[c]) /\ AccountsTypeOK /\ call[c].op = "forgot"
  BY DEF AccountsInv, StoreReset
<1>3. call[c].who \in Person /\ l \in LinkId \ DOMAIN link /\ \A o \in Client : call[o].link # l
  BY <1>2 DEF GoodCall, CallHolds, FreeLinks
<1>4. call' = [call EXCEPT ![c] = AtRest] /\ UNCHANGED <<account, calls, worked>>
  BY DEF StoreReset
<1>5. /\ DOMAIN link' = DOMAIN link \cup {l}
      /\ link' \in [DOMAIN link' -> LinkRow]
      /\ \A k \in DOMAIN link : link'[k] = link[k]
  BY <1>1, <1>2, <1>3, WithLinkIs
<1>6. AtRest \in Call
  BY DEF AtRest, Call
<1>7. /\ call' \in [Client -> Call] /\ call'[c] = AtRest
      /\ \A o \in Client \ {c} : call'[o] = call[o] /\ GoodCall(call[o])
  BY <1>2, <1>4, <1>6 DEF AccountsInv, AccountsTypeOK
<1>8. EndsAlone(c)
  BY <1>3, <1>4, <1>5, <1>7 DEF EndsAlone, StaysGood, GoodCall
<1>9. AccountsTypeOK'
  BY <1>1, <1>2, <1>3, <1>4, <1>5, <1>7 DEF AccountsTypeOK
<1>10. \A k \in worked' : link'[k].used
  BY <1>2, <1>4, <1>5 DEF AccountsInv, AccountsTypeOK, LinksAreOwn
<1>11. QED
  BY <1>8, <1>9, <1>10, EndingKeeps

(* A password is set: the link is used from now on, and every sign-in the  *)
(* new password admits is marked.                                          *)
LEMMA ResetKeeps ==
    ASSUME AccountsInv, NEW c \in Client, ApplyReset(c)
    PROVE  AccountsInv'
<1> USE AccountsAssumption
<1> DEFINE t == call[c]
           accounts == [account EXCEPT ![t.who].password = t.password]
<1>1. GoodCall(t) /\ t \in Call /\ t.at = "write" /\ AccountsTypeOK
  BY DEF AccountsInv, GoodCall, ApplyReset
<1>2. t.who \in Person /\ t.link \in DOMAIN link /\ t.password \in Password \cup {Missing}
  BY <1>1 DEF GoodCall, CallHolds, Call
<1>3. accounts \in [Person -> AccountRow]
  BY <1>1, <1>2 DEF AccountsTypeOK, AccountRow
<1>4. Applies(c, accounts) /\ UNCHANGED <<held, calls>>
      /\ link' = UsedLink(t.link) /\ worked' = worked \cup {t.link}
  BY DEF ApplyReset, Applies
<1> HIDE DEF accounts
<1>5. /\ call' \in [Client -> Call] /\ call'[c] = AtRest
      /\ \A o \in Client \ {c} :
            /\ call'[o].op = call[o].op /\ call'[o].at = call[o].at
            /\ call'[o].who = call[o].who /\ call'[o].password = call[o].password
            /\ call'[o].link = call[o].link /\ call'[o].late = call[o].late
            /\ call[o].good => call'[o].good
            /\ call[o].op = "login" /\ Admits(accounts[call[o].who], call[o].password)
                  => call'[o].good
  BY <1>4, MarkedCalls
<1>6. /\ DOMAIN link' = DOMAIN link /\ link' \in [DOMAIN link -> LinkRow]
      /\ link'[t.link].used
      /\ \A k \in DOMAIN link \ {t.link} : link'[k] = link[k]
  BY <1>1, <1>2, <1>4 DEF UsedLink, AccountsTypeOK, LinkRow
<1>7. account' = accounts
  BY <1>4 DEF Applies
<1>8. \A o \in Client : Issues(call[o]) => call[o].link \notin DOMAIN link
  BY DEF AccountsInv, GoodCall
<1>9. EndsAlone(c)
  BY <1>4, <1>5, <1>6, <1>7, <1>8 DEF EndsAlone, StaysGood
<1>10. AccountsTypeOK'
  BY <1>1, <1>2, <1>3, <1>4, <1>5, <1>6, <1>7 DEF AccountsTypeOK
<1>11. \A l \in worked' : link'[l].used
  BY <1>1, <1>4, <1>6 DEF AccountsInv, AccountsTypeOK, LinksAreOwn
<1>12. QED
  BY <1>9, <1>10, <1>11, EndingKeeps

(* Archiving an account and the passing of time take away, they never give.*)
LEMMA WorldKeeps ==
    ASSUME AccountsInv,
           (\E p \in Person : Archive(p)) \/ (\E l \in LinkId : Expire(l))
    PROVE  AccountsInv'
<1> USE AccountsAssumption
<1>1. AccountsTypeOK /\ \A o \in Client : GoodCall(call[o]) /\ call[o] \in Call
  BY DEF AccountsInv, GoodCall
<1>2. CASE \E p \in Person : Archive(p)
  <2>1. PICK p \in Person : Archive(p)
    BY <1>2
  <2>2. /\ account' \in [Person -> AccountRow]
        /\ \A r \in Person : \A w : Admits(account'[r], w) => Admits(account[r], w)
    BY <1>1, <2>1 DEF Archive, AccountsTypeOK, AccountRow, Admits
  <2>3. UNCHANGED <<link, held, call, calls, worked>>
    BY <2>1 DEF Archive
  <2>4. AccountsTypeOK'
    BY <1>1, <2>2, <2>3 DEF AccountsTypeOK
  <2>5. \A o \in Client : GoodCall(call[o])'
    BY <1>1, <2>2, <2>3 DEF GoodCall, CallHolds
  <2>6. QED
    BY <2>3, <2>4, <2>5 DEF AccountsInv, LinksAreOwn
<1>3. CASE \E l \in LinkId : Expire(l)
  <2>1. PICK l \in LinkId : Expire(l)
    BY <1>3
  <2>2. /\ DOMAIN link' = DOMAIN link /\ link' \in [DOMAIN link -> LinkRow]
        /\ \A k \in DOMAIN link : link'[k].used = link[k].used
    <3>1. /\ l \in DOMAIN link
          /\ link' = [link EXCEPT ![l].expired = TRUE]
          /\ link \in [DOMAIN link -> LinkRow]
      BY <1>1, <2>1 DEF Expire, AccountsTypeOK
    <3>2. /\ [link[l] EXCEPT !.expired = TRUE] \in LinkRow
          /\ [link[l] EXCEPT !.expired = TRUE].used = link[l].used
      BY <3>1 DEF LinkRow
    <3>3. /\ DOMAIN link' = DOMAIN link
          /\ link'[l] = [link[l] EXCEPT !.expired = TRUE]
          /\ \A k \in DOMAIN link \ {l} : link'[k] = link[k]
      BY <3>1
    <3>4. \A k \in DOMAIN link : link'[k] \in LinkRow /\ link'[k].used = link[k].used
      BY <3>1, <3>2, <3>3
    <3>5. link' = [k \in DOMAIN link |-> link'[k]]
      BY <3>1
    <3> QED
      BY <3>3, <3>4, <3>5
  <2>3. UNCHANGED <<account, held, call, calls, worked>>
    BY <2>1 DEF Expire
  <2>4. AccountsTypeOK'
    BY <1>1, <2>2, <2>3 DEF AccountsTypeOK
  <2>5. \A o \in Client : GoodCall(call[o])'
    BY <1>1, <2>2, <2>3 DEF GoodCall
  <2>6. LinksAreOwn'
    BY <1>1, <2>2, <2>3 DEF AccountsInv, AccountsTypeOK, LinksAreOwn
  <2>7. QED
    BY <2>4, <2>5, <2>6 DEF AccountsInv
<1>4. QED
  BY <1>2, <1>3

(* Every step keeps the invariant.                                         *)
LEMMA AccountsStep == AccountsInv /\ [AccountsNext]_accountsVars => AccountsInv'
<1> SUFFICES ASSUME AccountsInv, [AccountsNext]_accountsVars PROVE AccountsInv'
  OBVIOUS
<1>1. CASE UNCHANGED accountsVars
  BY <1>1 DEF accountsVars, AccountsInv, AccountsTypeOK, GoodCall, LinksAreOwn
<1>2. ASSUME NEW c \in Client, Handled(c) PROVE AccountsInv'
  BY <1>2, LookKeeps, IssueKeeps, CommitKeeps, StoreResetKeeps, ResetKeeps, EndKeeps
     DEF Handled, Abandon, SignIn
<1>3. QED
  BY <1>1, <1>2, AskKeeps, WorldKeeps DEF AccountsNext

(* The accounts, links and calls are well typed in every state.            *)
THEOREM AccountsTypeCorrect == AccountsSpec => []AccountsTypeOK
<1>1. AccountsInv => AccountsTypeOK
  BY DEF AccountsInv
<1>2. QED
  BY <1>1, AccountsInitInv, AccountsStep, PTL DEF AccountsSpec

(* A setup or reset link works once: however uses of it overlap with other *)
(* calls, one that was sent after a password had been set by the link      *)
(* never gets to set another.                                              *)
THEOREM LinksWorkOnce == AccountsSpec => []LinkWorksOnce
<1>1. AccountsInv => LinkWorksOnce
  BY DEF AccountsInv, GoodCall, LinkWorksOnce
<1>2. QED
  BY <1>1, AccountsInitInv, AccountsStep, PTL DEF AccountsSpec

(* Whoever is signed in gave a password the account had while it was       *)
(* active, at some moment since the click, for any number of resets and    *)
(* archivings in between.                                                  *)
THEOREM SignInsStayCurrent == AccountsSpec => []SignInsAreCurrent
<1>1. AccountsInv => SignInsAreCurrent
  <2> SUFFICES ASSUME AccountsInv, NEW c \in Client, call[c].at = "stamp"
               PROVE  call[c].good
    BY DEF SignInsAreCurrent
  <2>1. GoodCall(call[c])
    BY DEF AccountsInv
  <2>2. call[c].op = "login"
    BY <2>1 DEF GoodCall, CallHolds, Call
  <2>3. QED
    BY <2>1, <2>2 DEF GoodCall
<1>2. QED
  BY <1>1, AccountsInitInv, AccountsStep, PTL DEF AccountsSpec

-----------------------------------------------------------------------------
(***************************************************************************)
(* Settings.                                                               *)
(***************************************************************************)
\* The payroll default cannot come from the page: it is not among what was
\* fetched, in a form that was filled, or on its way.
HoldsNoDefault(p) ==
    "payroll" \in Section =>
        /\ p.saving["payroll"] # Blank
        /\ p.data # Nothing => p.data["payroll"] # Blank
        /\ p.rows # Nothing => p.rows["payroll"] # Blank
        /\ p.open /\ p.data # Nothing => p.form["payroll"] # Blank

\* What page p of s has chosen for the section: on its way, or stored.
Chosen(p, sec) == IF p.saving[sec] # Nothing THEN p.saving[sec] ELSE org[sec]

\* s has a choice of its own there, and typed nothing since.
Stands(s, sec, p) ==
    /\ sec \in p.clean
    /\ p.saving[sec] # Nothing \/ saver[sec] = s

\* A page tells by its data when to copy, so this is about data and forms:
\* where the data has caught up with the choice, so has the form; a fetch
\* that was answered after the save brings the choice, except to a section
\* that a first load has missed.
Follows(s, sec, p) ==
    /\ sec \in p.clean => p.open
    /\ sec \in p.done => p.saving[sec] # Nothing
    /\ sec \in p.done /\ saver[sec] = s => org[sec] = p.saving[sec]
    /\ Stands(s, sec, p) /\ p.data # Nothing /\ p.data[sec] = Chosen(p, sec)
          => p.form[sec] = Chosen(p, sec)
    /\ Stands(s, sec, p) /\ sec \notin p.missed /\ p.saving[sec] = Nothing
       /\ p.fetch = "answered"
          => p.rows[sec] = org[sec]
    /\ Stands(s, sec, p) /\ sec \notin p.missed /\ p.saving[sec] = Nothing
       /\ p.fetch = "idle"
          => p.form[sec] = org[sec]

GoodPage(s, p) ==
    /\ p \in PageState
    /\ p.fetch = "answered" => p.rows # Nothing
    /\ HoldsNoDefault(p)
    /\ \A sec \in Section : Follows(s, sec, p)

SettingsInv ==
    /\ SettingsTypeOK
    /\ "payroll" \in Section => org["payroll"] # Blank
    /\ \A s \in Owner : GoodPage(s, page[s])

(* Nothing is chosen, fetched or on its way when the pages start.          *)
LEMMA SettingsInitInv == SettingsInit => SettingsInv
<1> SUFFICES ASSUME SettingsInit PROVE SettingsInv
  OBVIOUS
<1> USE SettingsAssumption DEF SettingsInit
<1>1. SettingsTypeOK
  BY DEF SettingsTypeOK, PageState, Row, BlankForm
<1>2. \A s \in Owner : page[s] \in PageState
  BY <1>1 DEF SettingsTypeOK
<1>3. \A s \in Owner : HoldsNoDefault(page[s])
  BY DEF HoldsNoDefault
<1>4. \A s \in Owner, sec \in Section : Follows(s, sec, page[s])
  BY DEF Follows, Stands
<1>5. QED
  BY <1>1, <1>2, <1>3, <1>4 DEF SettingsInv, GoodPage

\* The step turns the page of s into p, and leaves the organization alone.
TurnsTo(s, p) ==
    /\ page' = [page EXCEPT ![s] = p]
    /\ UNCHANGED <<org, saver>>
    /\ clicks' \in 0..MaxClicks /\ fetches' \in 0..MaxFetches

(* A step that turns one page into a good one, and leaves the organization *)
(* alone, keeps the invariant.                                             *)
LEMMA TurnKeeps ==
    ASSUME SettingsInv, NEW s \in Owner, NEW p, GoodPage(s, p), TurnsTo(s, p)
    PROVE  SettingsInv'
<1> USE DEF TurnsTo
<1>1. SettingsTypeOK'
  BY DEF SettingsInv, SettingsTypeOK, GoodPage
<1>2. ASSUME NEW o \in Owner PROVE GoodPage(o, page[o])'
  <2>1. page'[o] = IF o = s THEN p ELSE page[o]
    BY DEF SettingsInv, SettingsTypeOK
  <2>2. GoodPage(o, page'[o])
    BY <2>1 DEF SettingsInv
  <2>3. QED
    BY <2>2 DEF GoodPage, HoldsNoDefault, Follows, Stands, Chosen
<1>3. QED
  BY <1>1, <1>2 DEF SettingsInv

(* Fetching, or failing to: the pages stay good.                           *)
LEMMA FetchKeeps ==
    ASSUME SettingsInv, NEW s \in Owner,
           Prefetch(s) \/ ReadOrg(s) \/ FailReadOrg(s)
    PROVE  SettingsInv'
<1> USE SettingsAssumption
<1>1. GoodPage(s, page[s]) /\ SettingsTypeOK
  BY DEF SettingsInv
<1>2. CASE Prefetch(s)
  <2> DEFINE p == [page[s] EXCEPT !.fetch = "sent"]
  <2>1. GoodPage(s, p)
    BY <1>1 DEF GoodPage, PageState, HoldsNoDefault, Follows, Stands, Chosen
  <2>2. TurnsTo(s, p)
    BY <1>1, <1>2 DEF Prefetch, TurnsTo, SettingsTypeOK
  <2>3. QED
    BY <2>1, <2>2, TurnKeeps
<1>3. CASE FailReadOrg(s)
  <2> DEFINE p == [page[s] EXCEPT !.fetch = "failed"]
  <2>1. GoodPage(s, p)
    BY <1>1 DEF GoodPage, PageState, HoldsNoDefault, Follows, Stands, Chosen
  <2>2. TurnsTo(s, p)
    BY <1>1, <1>3 DEF FailReadOrg, TurnsTo, SettingsTypeOK
  <2>3. QED
    BY <2>1, <2>2, TurnKeeps
<1>4. CASE ReadOrg(s)
  <2> DEFINE p == [page[s] EXCEPT !.fetch = "answered", !.rows = org, !.missed = {}]
  <2>1. org \in Row /\ ("payroll" \in Section => org["payroll"] # Blank)
    BY DEF SettingsInv, SettingsTypeOK
  <2>2. p \in PageState /\ HoldsNoDefault(p) /\ p.rows # Nothing
    BY <1>1, <2>1 DEF GoodPage, PageState, HoldsNoDefault, Row
  <2>3. \A sec \in Section : Follows(s, sec, p)
    BY <1>1 DEF GoodPage, PageState, Follows, Stands, Chosen
  <2>4. TurnsTo(s, p)
    BY <1>1, <1>4 DEF ReadOrg, Turn, TurnsTo, SettingsTypeOK
  <2>5. QED
    BY <2>2, <2>3, <2>4, TurnKeeps DEF GoodPage
<1>5. QED
  BY <1>2, <1>3, <1>4

(* Opening the page copies what was fetched, and claims nothing yet.       *)
LEMMA OpenKeeps ==
    ASSUME SettingsInv, NEW s \in Owner, OpenSettings(s)
    PROVE  SettingsInv'
<1> USE SettingsAssumption
<1>1. GoodPage(s, page[s]) /\ SettingsTypeOK
  BY DEF SettingsInv
<1>2. PICK again \in BOOLEAN :
        Turn(s, [page[s] EXCEPT !.open = TRUE,
                   !.form = IF page[s].data = Nothing THEN BlankForm ELSE page[s].data,
                   !.fetch = IF again /\ page[s].fetch # "answered" THEN "sent"
                             ELSE page[s].fetch])
  BY DEF OpenSettings
<1> DEFINE p == [page[s] EXCEPT !.open = TRUE,
                   !.form = IF page[s].data = Nothing THEN BlankForm ELSE page[s].data,
                   !.fetch = IF again /\ page[s].fetch # "answered" THEN "sent"
                             ELSE page[s].fetch]
<1>3. page[s] \in PageState /\ ~page[s].open /\ BlankForm \in Row
  BY <1>1 DEF OpenSettings, GoodPage, BlankForm, Row
<1> DEFINE q == page[s]
           form == IF q.data = Nothing THEN BlankForm ELSE q.data
           fetch == IF again /\ q.fetch # "answered" THEN "sent" ELSE q.fetch
<1>4. form \in Row /\ fetch \in {"idle", "sent", "answered", "failed"}
  BY <1>3 DEF PageState
<1>5. /\ p \in PageState
      /\ p.open /\ p.form = form /\ p.fetch = fetch /\ p.data = q.data /\ p.rows = q.rows
      /\ p.saving = q.saving /\ p.done = q.done /\ p.clean = q.clean /\ p.missed = q.missed
  BY <1>3, <1>4 DEF PageState
<1>6. /\ HoldsNoDefault(q) /\ \A sec \in Section : Follows(s, sec, q)
      /\ q.fetch = "answered" => q.rows # Nothing
  BY <1>1 DEF GoodPage
<1>7. TurnsTo(s, p)
  BY <1>1, <1>2 DEF Turn, TurnsTo, SettingsTypeOK
<1> HIDE DEF p
<1>8. HoldsNoDefault(p)
  BY <1>5, <1>6 DEF HoldsNoDefault
<1>9. ASSUME NEW sec \in Section PROVE Follows(s, sec, p)
  BY <1>3, <1>5, <1>6 DEF Follows, Stands, Chosen
<1>10. QED
  BY <1>5, <1>6, <1>7, <1>8, <1>9, TurnKeeps DEF GoodPage

(* The answer of a fetch brings every form that stands its own choice, or  *)
(* finds it there already.                                                 *)
LEMMA ShowKeeps ==
    ASSUME SettingsInv, NEW s \in Owner, ShowOrg(s)
    PROVE  SettingsInv'
<1> USE SettingsAssumption
<1>1. GoodPage(s, page[s]) /\ SettingsTypeOK
  BY DEF SettingsInv
<1> DEFINE q == page[s]
           p == [q EXCEPT !.fetch = "idle", !.rows = Nothing, !.data = q.rows,
                          !.form = IF q.open /\ q.rows # q.data THEN q.rows ELSE q.form]
<1>2. q \in PageState /\ q.fetch = "answered" /\ q.rows # Nothing /\ q.rows \in Row
  BY <1>1 DEF ShowOrg, GoodPage, PageState
<1>3. p \in PageState
  BY <1>2 DEF PageState
<1>4. /\ p.open = q.open /\ p.saving = q.saving /\ p.done = q.done
      /\ p.clean = q.clean /\ p.missed = q.missed
      /\ p.fetch = "idle" /\ p.rows = Nothing /\ p.data = q.rows
      /\ q.open /\ q.rows # q.data => p.form = q.rows
      /\ ~(q.open /\ q.rows # q.data) => p.form = q.form
  BY <1>2 DEF PageState
<1>5. HoldsNoDefault(q) /\ \A sec \in Section : Follows(s, sec, q)
  BY <1>1 DEF GoodPage
<1>6. TurnsTo(s, p)
  BY <1>1 DEF ShowOrg, Turn, TurnsTo, SettingsTypeOK
<1> HIDE DEF p, q
<1>7. HoldsNoDefault(p)
  BY <1>2, <1>4, <1>5 DEF HoldsNoDefault
<1>8. ASSUME NEW sec \in Section PROVE Follows(s, sec, p)
  BY <1>2, <1>4, <1>5 DEF Follows, Stands, Chosen
<1>9. QED
  BY <1>3, <1>4, <1>6, <1>7, <1>8, TurnKeeps DEF GoodPage

(* Typing takes the section out of what stands.                            *)
LEMMA EditKeeps ==
    ASSUME SettingsInv, NEW s \in Owner, NEW sec \in Section, NEW v \in Value \ {Blank},
           Edit(s, sec, v)
    PROVE  SettingsInv'
<1> USE SettingsAssumption
<1>1. GoodPage(s, page[s]) /\ SettingsTypeOK
  BY DEF SettingsInv
<1> DEFINE q == page[s]
           p == [q EXCEPT !.form[sec] = v, !.clean = @ \ {sec}]
<1>2. q \in PageState
  BY <1>1 DEF GoodPage
<1>3. p \in PageState
  BY <1>2 DEF PageState, Row
<1>4. /\ p.open = q.open /\ p.saving = q.saving /\ p.done = q.done
      /\ p.fetch = q.fetch /\ p.rows = q.rows /\ p.data = q.data
      /\ p.clean = q.clean \ {sec} /\ p.missed = q.missed
      /\ p.form[sec] = v /\ \A x \in Section \ {sec} : p.form[x] = q.form[x]
  BY <1>2 DEF PageState, Row
<1>5. /\ HoldsNoDefault(q) /\ \A x \in Section : Follows(s, x, q)
      /\ q.fetch = "answered" => q.rows # Nothing
  BY <1>1 DEF GoodPage
<1>6. TurnsTo(s, p)
  BY <1>1 DEF Edit, TurnsTo, SettingsTypeOK
<1> HIDE DEF p, q
<1>7. HoldsNoDefault(p)
  BY <1>4, <1>5 DEF HoldsNoDefault
<1>8. ASSUME NEW x \in Section PROVE Follows(s, x, p)
  BY <1>4, <1>5 DEF Follows, Stands, Chosen
<1>9. QED
  BY <1>3, <1>4, <1>5, <1>6, <1>7, <1>8, TurnKeeps DEF GoodPage

(* Saving takes the choice from the form, which then agrees with it.       *)
LEMMA ClickSaveKeeps ==
    ASSUME SettingsInv, NEW s \in Owner, NEW sec \in Section, ClickSave(s, sec)
    PROVE  SettingsInv'
<1> USE SettingsAssumption
<1>1. GoodPage(s, page[s]) /\ SettingsTypeOK
  BY DEF SettingsInv
<1> DEFINE q == page[s]
           p == [q EXCEPT !.saving[sec] = q.form[sec], !.clean = @ \cup {sec}]
<1>2. /\ q \in PageState /\ q.form[sec] \in Value
      /\ q.open /\ q.saving[sec] = Nothing /\ (sec = "payroll" => q.data # Nothing)
  BY <1>1 DEF GoodPage, PageState, Row, ClickSave, MaySave
<1>3. p \in PageState
  BY <1>2 DEF PageState
<1>4. /\ p.open = q.open /\ p.form = q.form /\ p.done = q.done
      /\ p.fetch = q.fetch /\ p.rows = q.rows /\ p.data = q.data
      /\ p.clean = q.clean \cup {sec} /\ p.missed = q.missed
      /\ p.saving[sec] = q.form[sec]
      /\ \A x \in Section \ {sec} : p.saving[x] = q.saving[x]
  BY <1>2 DEF PageState
<1>5. /\ HoldsNoDefault(q) /\ \A x \in Section : Follows(s, x, q)
      /\ q.fetch = "answered" => q.rows # Nothing
  BY <1>1 DEF GoodPage
<1>6. TurnsTo(s, p)
  BY <1>1 DEF ClickSave, TurnsTo, SettingsTypeOK
<1> HIDE DEF p, q
<1>7. HoldsNoDefault(p)
  BY <1>2, <1>4, <1>5 DEF HoldsNoDefault
<1>8. ASSUME NEW x \in Section PROVE Follows(s, x, p)
  BY <1>2, <1>4, <1>5 DEF Follows, Stands, Chosen
<1>9. QED
  BY <1>3, <1>4, <1>5, <1>6, <1>7, <1>8, TurnKeeps DEF GoodPage

(* The answer to a save, good or bad: the organization is fetched anew, a  *)
(* first load is left alone and may miss the section, or the choice is     *)
(* given up.                                                               *)
LEMMA AnswerKeeps ==
    ASSUME SettingsInv, NEW s \in Owner, NEW sec \in Section,
           Saved(s, sec) \/ SaveFailed(s, sec)
    PROVE  SettingsInv'
<1> USE SettingsAssumption
<1>1. GoodPage(s, page[s]) /\ SettingsTypeOK
  BY DEF SettingsInv
<1> DEFINE q == page[s]
<1>2. q \in PageState
  BY <1>1 DEF GoodPage
<1>3. /\ HoldsNoDefault(q) /\ \A x \in Section : Follows(s, x, q)
      /\ q.fetch = "answered" => q.rows # Nothing
  BY <1>1 DEF GoodPage
<1>4. CASE Saved(s, sec)
  <2> DEFINE fetch == IF Loading(q) THEN q.fetch ELSE "sent"
             rows == IF Loading(q) THEN q.rows ELSE Nothing
             missed == q.missed \cup Missed(q, sec)
             p == [q EXCEPT !.saving[sec] = Nothing, !.done = @ \ {sec},
                            !.fetch = fetch, !.rows = rows, !.missed = missed]
  <2>1. p \in PageState
    <3>1. /\ fetch \in {"idle", "sent", "answered", "failed"}
          /\ rows \in Row \cup {Nothing} /\ missed \in SUBSET Section
      BY <1>2 DEF PageState, Missed
    <3> HIDE DEF fetch, rows, missed
    <3>2. QED
      BY <1>2, <3>1 DEF PageState
  <2>2. /\ p.open = q.open /\ p.form = q.form /\ p.data = q.data /\ p.clean = q.clean
        /\ p.fetch = fetch /\ p.rows = rows /\ p.missed = missed /\ p.done = q.done \ {sec}
        /\ p.saving[sec] = Nothing
        /\ \A x \in Section \ {sec} : p.saving[x] = q.saving[x]
    <3> HIDE DEF fetch, rows, missed
    <3>1. QED
      BY <1>2 DEF PageState
  <2>3. TurnsTo(s, p) /\ sec \in q.done
    BY <1>1, <1>4 DEF Saved, Turn, TurnsTo, SettingsTypeOK
  <2>4. /\ fetch = "answered" => /\ q.fetch = "answered" /\ rows = q.rows
                                 /\ missed = q.missed \cup {sec}
        /\ fetch # "idle"
        /\ rows = q.rows \/ rows = Nothing
    BY DEF Loading, Missed
  <2> HIDE DEF p, q, fetch, rows, missed
  <2>5. HoldsNoDefault(p)
    BY <1>3, <2>2, <2>4 DEF HoldsNoDefault
  <2>6. ASSUME NEW x \in Section PROVE Follows(s, x, p)
    BY <1>3, <2>2, <2>3, <2>4 DEF Follows, Stands, Chosen
  <2>7. p.fetch = "answered" => p.rows # Nothing
    BY <1>3, <2>2, <2>4
  <2>8. QED
    BY <2>1, <2>3, <2>5, <2>6, <2>7, TurnKeeps DEF GoodPage
<1>5. CASE SaveFailed(s, sec)
  <2> DEFINE p == [q EXCEPT !.saving[sec] = Nothing, !.done = @ \ {sec},
                            !.clean = @ \ {sec}]
  <2>1. p \in PageState
    BY <1>2 DEF PageState
  <2>2. /\ p.open = q.open /\ p.form = q.form /\ p.data = q.data
        /\ p.fetch = q.fetch /\ p.rows = q.rows
        /\ p.done = q.done \ {sec} /\ p.clean = q.clean \ {sec} /\ p.missed = q.missed
        /\ p.saving[sec] = Nothing
        /\ \A x \in Section \ {sec} : p.saving[x] = q.saving[x]
    BY <1>2 DEF PageState
  <2>3. TurnsTo(s, p)
    BY <1>1, <1>5 DEF SaveFailed, Turn, TurnsTo, SettingsTypeOK
  <2> HIDE DEF p, q
  <2>4. HoldsNoDefault(p)
    BY <1>3, <2>2 DEF HoldsNoDefault
  <2>5. ASSUME NEW x \in Section PROVE Follows(s, x, p)
    BY <1>3, <2>2 DEF Follows, Stands, Chosen
  <2>6. QED
    BY <1>3, <2>1, <2>2, <2>3, <2>4, <2>5, TurnKeeps DEF GoodPage
<1>6. QED
  BY <1>4, <1>5

(* A committed save changes its own section only, and is the last there:   *)
(* for the other pages nothing stands in it any more.                      *)
LEMMA SaveKeeps ==
    ASSUME SettingsInv, NEW s \in Owner, NEW sec \in Section, SaveSection(s, sec)
    PROVE  SettingsInv'
<1> USE SettingsAssumption
<1>1. SettingsTypeOK /\ \A o \in Owner : GoodPage(o, page[o])
  BY DEF SettingsInv
<1> DEFINE q == page[s]
           p == [q EXCEPT !.done = @ \cup {sec}]
           v == q.saving[sec]
<1>2. q \in PageState /\ v \in Value /\ v # Nothing /\ sec \notin q.done
  BY <1>1 DEF GoodPage, PageState, SaveSection
<1>3. p \in PageState
  BY <1>2 DEF PageState
<1>4. /\ p.open = q.open /\ p.form = q.form /\ p.saving = q.saving
      /\ p.fetch = q.fetch /\ p.rows = q.rows /\ p.data = q.data
      /\ p.clean = q.clean /\ p.missed = q.missed /\ p.done = q.done \cup {sec}
  BY <1>2 DEF PageState
<1>5. /\ org' \in Row /\ org'[sec] = v /\ \A x \in Section \ {sec} : org'[x] = org[x]
      /\ saver' \in [Section -> Owner \cup {Nothing}]
      /\ saver'[sec] = s /\ \A x \in Section \ {sec} : saver'[x] = saver[x]
  BY <1>1, <1>2 DEF SaveSection, Patched, SettingsTypeOK, Row
<1>6. page' = [page EXCEPT ![s] = p] /\ UNCHANGED <<clicks, fetches>>
  BY DEF SaveSection
<1>7. /\ page'[s] = p
      /\ \A o \in Owner \ {s} : page'[o] = page[o]
  BY <1>1, <1>6 DEF SettingsTypeOK
<1> HIDE DEF p
<1>8. SettingsTypeOK'
  BY <1>1, <1>3, <1>5, <1>6 DEF SettingsTypeOK
<1>9. \A o \in Owner :
        /\ page[o] \in PageState /\ HoldsNoDefault(page[o])
        /\ page[o].fetch = "answered" => page[o].rows # Nothing
        /\ \A x \in Section : Follows(o, x, page[o])
  BY <1>1 DEF GoodPage
<1>10. "payroll" \in Section => org'["payroll"] # Blank
  BY <1>2, <1>5, <1>9 DEF HoldsNoDefault, SettingsInv
<1>11. ASSUME NEW o \in Owner PROVE GoodPage(o, page[o])'
  <2>1. CASE o = s
    <3>1. HoldsNoDefault(p)
      BY <1>4, <1>9 DEF HoldsNoDefault
    <3>2. ASSUME NEW x \in Section PROVE Follows(s, x, page[s])'
      BY <1>2, <1>4, <1>5, <1>7, <1>9 DEF Follows, Stands, Chosen
    <3>3. QED
      BY <1>3, <1>4, <1>7, <1>9, <2>1, <3>1, <3>2 DEF GoodPage, HoldsNoDefault
  <2>2. CASE o # s
    <3>1. ASSUME NEW x \in Section PROVE Follows(o, x, page[o])'
      BY <1>5, <1>7, <1>9, <2>2 DEF Follows, Stands, Chosen
    <3>2. QED
      BY <1>7, <1>9, <2>2, <3>1 DEF GoodPage, HoldsNoDefault
  <2>3. QED
    BY <2>1, <2>2
<1>12. QED
  BY <1>8, <1>10, <1>11 DEF SettingsInv

(* Every step keeps the invariant.                                         *)
LEMMA SettingsStep == SettingsInv /\ [SettingsNext]_settingsVars => SettingsInv'
<1> SUFFICES ASSUME SettingsInv, [SettingsNext]_settingsVars PROVE SettingsInv'
  OBVIOUS
<1>1. CASE UNCHANGED settingsVars
  BY <1>1 DEF settingsVars, SettingsInv, SettingsTypeOK, GoodPage, HoldsNoDefault,
              Follows, Stands, Chosen
<1>2. CASE SettingsNext
  BY <1>2, FetchKeeps, OpenKeeps, ShowKeeps, EditKeeps, ClickSaveKeeps, AnswerKeeps,
     SaveKeeps DEF SettingsNext
<1>3. QED
  BY <1>1, <1>2

(* The organization and the pages are well typed in every state.           *)
THEOREM SettingsTypeCorrect == SettingsSpec => []SettingsTypeOK
<1>1. SettingsInv => SettingsTypeOK
  BY DEF SettingsInv
<1>2. QED
  BY <1>1, SettingsInitInv, SettingsStep, PTL DEF SettingsSpec

(* The settings stay what their owners chose: a page at rest shows what it *)
(* was the last to save, but for a section saved while the older answer of *)
(* its first load was on its way; and the payroll calendar never gets the  *)
(* form's defaults, for any number of owners who fetch, type and save at   *)
(* the same time.                                                          *)
THEOREM SettingsStayAsChosen == SettingsSpec => []SettingsAreAsChosen
<1>1. SettingsInv => SettingsAreAsChosen
  <2> SUFFICES ASSUME SettingsInv PROVE SettingsAreAsChosen
    OBVIOUS
  <2>1. \A s \in Owner :
          page[s].clean \subseteq Section /\ \A sec \in Section : Follows(s, sec, page[s])
    BY DEF SettingsInv, GoodPage, PageState
  <2>2. QED
    BY <2>1 DEF SettingsInv, SettingsAreAsChosen, Follows, Stands
<1>2. QED
  BY <1>1, SettingsInitInv, SettingsStep, PTL DEF SettingsSpec
=============================================================================
