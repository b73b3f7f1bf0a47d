----------------------------- MODULE SyncQueue -----------------------------
(***************************************************************************)
(* The offline-first punch of the mobile app: the attempt the clock screen *)
(* makes at once, the queue in the phone's database that takes over when   *)
(* it fails, the flushes that drain the queue, and the time clock of one   *)
(* worker on the server that answers them.                                 *)
(*                                                                         *)
(*   type[p]    what punch p is; punches are numbered as they are made, so *)
(*              p is client id, timestamp and queue order in one;          *)
(*   confirmed  the punches performPunch has returned for: the screen      *)
(*              told the worker they were made;                            *)
(*   service    whether the app has a sync service: none until the         *)
(*              database is open, and none if it does not open;            *)
(*   row        sync_queue, a partial function on Punch;                   *)
(*   work[s]    a run of flush, or the screen's attempt: the items left of *)
(*              its batch, the oldest of which is in hand;                 *)
(*   wire       the requests on their way or being served, each with the   *)
(*              sender that still waits for it, or Nobody (of those a      *)
(*              punch has one at each stage), how far the server is with   *)
(*              it, and the entry a punch-out has found open;              *)
(*   recorded   the client ids in time_entry_events;                       *)
(*   entry      the rows of time_entries in the order of their insertion,  *)
(*              each with the punches that made its ends (out = 0: open);  *)
(*   early      history: the punches made before there was a sync service; *)
(*   raced      history: the punches two of whose requests were past the   *)
(*              server's lookup at once;                                   *)
(*   served[p]  history: how often the server has answered p, up to        *)
(*              MaxRetries.                                                *)
(*                                                                         *)
(* Flushes overlap: the minute's tick does not wait for the one before,    *)
(* and the "Try again" button flushes beside it.  A request may be lost,   *)
(* served after the phone has given it up, or answered too late.  The      *)
(* server serves several at once, statement by statement: the lookup of    *)
(* the client id, a punch-out's search for the open entry, and the write,  *)
(* taken with its COMMIT.                                                  *)
(***************************************************************************)
EXTENDS Integers, Sequences, FiniteSets

CONSTANTS
    Flusher,        \* runs of flush() that may overlap
    Screen,         \* the sender of the immediate attempt
    Nobody,         \* in place of a sender that has given up
    MaxRetries,     \* attempts before an item is parked (DEFAULT_MAX_RETRIES)
    Field,          \* where a punch route returns the entry it made
    Refusal,        \* how the API turns down a punch for a reason of its own
    NumPunches,     \* bound: punches the worker makes
    MaxRevivals,    \* bound: parked items returned to the queue
    MaxRestarts     \* bound: restarts of the app

ASSUME SyncQueueAssumption ==
    /\ IsFiniteSet(Flusher)
    /\ Screen \notin Flusher
    /\ Nobody \notin Flusher \cup {Screen}
    /\ MaxRetries \in Nat \ {0}
    /\ Field \subseteq {"entry", "timeEntry"}
    /\ Refusal \subseteq {"refused", "conflict"}
    /\ NumPunches \in Nat /\ MaxRevivals \in Nat /\ MaxRestarts \in Nat

VARIABLES type, confirmed, service, row, work, wire, recorded, entry,
          early, raced, served, revivals, restarts

device == <<service, row, work, wire>>
clock == <<recorded, entry>>
server == <<clock, raced, served>>
bounds == <<revivals, restarts>>
vars == <<type, confirmed, device, server, early, bounds>>

Punch == 1..NumPunches
Sender == Flusher \cup {Screen}

\* What can come back: a punch that was taken, under the field that holds
\* the entry, or an error envelope.
Answer == Field \cup Refusal \cup {"refused"}

QueueItem ==
    [status : {"pending", "synced", "failed", "conflict"}, retryCount : Nat]

Request ==
    [ from  : Sender \cup {Nobody},
      punch : Punch,
      at    : {"sent", "looked", "found"},
      found : Nat ]

Entry == [in : Punch, out : Punch \cup {0}]

Work ==
    [ phase  : {"idle", "post", "wait", "answered", "park"},
      batch  : SUBSET Punch,
      answer : Answer \cup {Nobody} ]

\* listEligible sorts by priority, all alike, and then by queuedAt.
Oldest(batch) == CHOOSE p \in batch : \A q \in batch : p <= q

InHand(s) == Oldest(work[s].batch)

Idle == [phase |-> "idle", batch |-> {}, answer |-> Nobody]

SyncQueueTypeOK ==
    /\ type \in Seq({"in", "out"})
    /\ Len(type) <= NumPunches
    /\ confirmed \subseteq Punch
    /\ service \in BOOLEAN
    /\ DOMAIN row \subseteq Punch
    /\ row \in [DOMAIN row -> QueueItem]
    /\ work \in [Sender -> Work]
    /\ wire \subseteq Request
    /\ \A r \in wire : r.at = "found" => r.found \in DOMAIN entry
    /\ recorded \subseteq Punch
    /\ entry \in Seq(Entry)
    /\ early \subseteq Punch
    /\ raced \subseteq Punch
    /\ served \in [Punch -> 0..MaxRetries]
    /\ revivals \in 0..MaxRevivals
    /\ restarts \in 0..MaxRestarts

Init ==
    /\ type = <<>>
    /\ confirmed = {}
    /\ service = FALSE
    /\ row = <<>>
    /\ work = [s \in Sender |-> Idle]
    /\ wire = {}
    /\ recorded = {}
    /\ entry = <<>>
    /\ early = {}
    /\ raced = {}
    /\ served = [p \in Punch |-> 0]
    /\ revivals = 0
    /\ restarts = 0

-----------------------------------------------------------------------------
(* The queue in the phone's database.                                      *)

Pending == {p \in DOMAIN row : row[p].status = "pending"}
Failed == {p \in DOMAIN row : row[p].status = "failed"}

\* Idempotent: an item already queued is left as it is.
Enqueue(p) ==
    row' = IF p \in DOMAIN row THEN row
           ELSE [q \in DOMAIN row \cup {p} |->
                    IF q = p THEN [status |-> "pending", retryCount |-> 0]
                    ELSE row[q]]

\* The marks do not look at the status they replace.
Mark(p, status) == row' = [row EXCEPT ![p].status = status]

\* Mutant of RecordRetry: the attempt is not counted.
RetryUncounted(p) == row' = [row EXCEPT ![p].retryCount = @]

RecordRetry(p) == row' = [row EXCEPT ![p].retryCount = @ + 1]

-----------------------------------------------------------------------------
(* The server: the time clock of one worker.                               *)

OpenEntries == {e \in DOMAIN entry : entry[e].out = 0}

\* What the server is done with looking up and has not answered.
InProgress == {r \in wire : r.at # "sent"}

\* A request is answered.  The answer goes to a sender that still waits.
Handle(r, answer) ==
    /\ r \in wire
    /\ wire' = wire \ {r}
    /\ served' = [served EXCEPT ![r.punch] = IF @ < MaxRetries THEN @ + 1 ELSE @]
    /\ work' = IF r.from = Nobody THEN work
               ELSE [work EXCEPT ![r.from].phase = "answered",
                                 ![r.from].answer = answer]
    /\ UNCHANGED <<type, confirmed, service, row, raced, early, bounds>>

\* The server goes on with a request.
Proceed(r, next) ==
    /\ wire' = (wire \ {r}) \cup {next}
    /\ UNCHANGED <<type, confirmed, service, row, work, clock, served, early,
                   bounds>>

\* The client id has been processed: the answer is the entry it made.
Replay(r) ==
    /\ r.at = "sent" /\ r.punch \in recorded
    /\ \E field \in Field : Handle(r, field)
    /\ UNCHANGED clock

\* Mutant of LookUp: the answer of the lookup is ignored.
LookUpUnheeded(r) ==
    /\ r.at = "sent"
    /\ raced' = IF \E q \in InProgress : q.punch = r.punch
                THEN raced \cup {r.punch} ELSE raced
    /\ Proceed(r, [r EXCEPT !.at = "looked"])

\* It has not, so far.
LookUp(r) ==
    /\ r.at = "sent" /\ r.punch \notin recorded
    /\ raced' = IF \E q \in InProgress : q.punch = r.punch
                THEN raced \cup {r.punch} ELSE raced
    /\ Proceed(r, [r EXCEPT !.at = "looked"])

\* punchOut's getCurrentOpenEntry.
FindOpen(r) ==
    /\ r.at = "looked" /\ type[r.punch] = "out"
    /\ \E e \in OpenEntries : Proceed(r, [r EXCEPT !.at = "found", !.found = e])
    /\ UNCHANGED raced

\* punchIn's INSERT, which the index on open entries admits only while
\* there is none.
Insert(r) ==
    /\ r.at = "looked" /\ type[r.punch] = "in"
    /\ OpenEntries = {}
    /\ entry' = Append(entry, [in |-> r.punch, out |-> 0])

\* punchOut's UPDATE, by id: the entry may have been closed since.
Close(r) ==
    /\ r.at = "found" /\ entry[r.found].in < r.punch
    /\ entry' = [entry EXCEPT ![r.found].out = r.punch]

\* publishTimeEvent finds the event if another request has just logged it.
Take(r) ==
    /\ Insert(r) \/ Close(r)
    /\ recorded' = recorded \cup {r.punch}
    /\ \E field \in Field : Handle(r, field)

\* ALREADY_CLOCKED_IN, NOT_CLOCKED_IN, or a punch-out before its punch-in.
Refuse(r) ==
    /\ \/ r.at = "looked" /\ (type[r.punch] = "in") = (OpenEntries # {})
       \/ r.at = "found" /\ r.punch <= entry[r.found].in
    /\ Handle(r, "refused")
    /\ UNCHANGED clock

\* A geofence, a cap, an expired session, a failure of the server: nothing
\* is written.
TurnDown(r) ==
    /\ \E answer \in Refusal : Handle(r, answer)
    /\ UNCHANGED clock

Reply(r) == Replay(r) \/ Take(r) \/ Refuse(r) \/ TurnDown(r)

-----------------------------------------------------------------------------
(* The clock screen.  Its toggle is reset by a restart and by a refresh    *)
(* from the server, so that any punch may follow any other.                *)

\* initDatabase has opened the database; bootstrapSync and startAutoSync.
Bootstrap ==
    /\ ~ service
    /\ service' = TRUE
    /\ UNCHANGED <<type, confirmed, row, work, wire, server, early, bounds>>

Sent(s, p) == [from |-> s, punch |-> p, at |-> "sent", found |-> 0]

PerformPunch(t) ==
    /\ work[Screen].phase = "idle"
    /\ Len(type) < NumPunches
    /\ type' = Append(type, t)
    /\ work' = [work EXCEPT ![Screen] =
                   [Idle EXCEPT !.phase = "wait", !.batch = {Len(type) + 1}]]
    /\ wire' = wire \cup {Sent(Screen, Len(type) + 1)}
    /\ early' = IF service THEN early ELSE early \cup {Len(type) + 1}
    /\ UNCHANGED <<confirmed, service, row, server, bounds>>

\* performPunch returns; the screen says the punch is made.
Confirm ==
    /\ confirmed' = confirmed \cup {InHand(Screen)}
    /\ work' = [work EXCEPT ![Screen] = Idle]
    /\ UNCHANGED <<type, service, server, early, bounds>>

\* Without a sync service there is no queue to put the punch in.
Keep(p) == IF service THEN Enqueue(p) ELSE UNCHANGED row

\* Mutant of ScreenAnswered: only a network failure queues the punch.
ScreenAnsweredAnyhow ==
    /\ work[Screen].phase = "answered"
    /\ Confirm
    /\ UNCHANGED <<row, wire>>

\* Any answer that is not an error is enough here, with an id or without.
ScreenAnswered ==
    /\ work[Screen].phase = "answered"
    /\ IF work[Screen].answer \in Field THEN UNCHANGED row
       ELSE Keep(InHand(Screen))
    /\ Confirm
    /\ UNCHANGED wire

Left(r) == [r EXCEPT !.from = Nobody]

\* The sender stops waiting: its request dies with it, or is still on its
\* way; or the answer came too late.
GiveUp(s) ==
    /\ work[s].phase \in {"wait", "answered"}
    /\ LET mine == {r \in wire : r.from = s}
       IN \/ wire' = wire \ mine
          \/ wire' = (wire \ mine) \cup {Left(r) : r \in mine}

ScreenTimeout ==
    /\ GiveUp(Screen)
    /\ Keep(InHand(Screen))
    /\ Confirm

-----------------------------------------------------------------------------
(* flush.                                                                  *)

\* The batch is a snapshot of the eligible items, the oldest first; an item
\* that was retried may still be in its backoff.
StartFlush(f, waiting) ==
    /\ service /\ work[f].phase = "idle"
    /\ waiting \subseteq {p \in Pending : row[p].retryCount > 0}
    /\ Pending \ waiting # {}
    /\ work' = [work EXCEPT ![f] =
                   [Idle EXCEPT !.phase = "post",
                                !.batch = Pending \ waiting]]
    /\ UNCHANGED <<type, confirmed, service, row, wire, server, early, bounds>>

Post(f) ==
    /\ work[f].phase = "post"
    /\ work' = [work EXCEPT ![f].phase = "wait"]
    /\ wire' = wire \cup {Sent(f, InHand(f))}
    /\ UNCHANGED <<type, confirmed, service, row, server, early, bounds>>

\* On to the next item of the batch, if there is one.
Advance(f) ==
    work' = [work EXCEPT ![f] =
                IF @.batch = {InHand(f)} THEN Idle
                ELSE [Idle EXCEPT !.phase = "post",
                                  !.batch = work[f].batch \ {InHand(f)}]]

\* What makePoster makes of an answer: an id is looked for in `entry` alone.
Result(answer) ==
    CASE answer = "entry"    -> "ok"
      [] answer = "conflict" -> "conflict"
      [] OTHER               -> "transient"

FlushAnswered(f) ==
    LET p == InHand(f)
        result == Result(work[f].answer)
    IN  /\ work[f].phase = "answered"
        /\ \/ result = "ok" /\ Mark(p, "synced") /\ Advance(f)
           \/ result = "conflict" /\ Mark(p, "conflict") /\ Advance(f)
           \/ /\ result = "transient"
              /\ RecordRetry(p)
              /\ IF row'[p].retryCount >= MaxRetries
                 THEN work' = [work EXCEPT ![f].phase = "park"]
                 ELSE Advance(f)
        /\ UNCHANGED <<type, confirmed, service, wire, server, early, bounds>>

\* markFailed, a write of its own after recordRetry.
Park(f) ==
    /\ work[f].phase = "park"
    /\ Mark(InHand(f), "failed")
    /\ Advance(f)
    /\ UNCHANGED <<type, confirmed, service, wire, server, early, bounds>>

\* Mutant of FlushTimeout: an attempt that reached nobody is counted as well.
FlushTimeoutCounted(f) ==
    /\ GiveUp(f)
    /\ RecordRetry(InHand(f))
    /\ work' = [work EXCEPT ![f] =
                   IF row'[InHand(f)].retryCount < MaxRetries THEN Idle
                   ELSE [@ EXCEPT !.phase = "park"]]
    /\ UNCHANGED <<type, confirmed, service, server, early, bounds>>

\* Unreachable: this item and those behind it stay as they are.
FlushTimeout(f) ==
    /\ GiveUp(f)
    /\ work' = [work EXCEPT ![f] = Idle]
    /\ UNCHANGED <<type, confirmed, service, row, server, early, bounds>>

\* "Try again": requeue, for one of the failed items; the flush it is
\* followed by is a run of StartFlush.
Requeue(p) ==
    /\ service /\ revivals < MaxRevivals
    /\ p \in Failed
    /\ row' = [row EXCEPT ![p] = [status |-> "pending", retryCount |-> 0]]
    /\ revivals' = revivals + 1
    /\ UNCHANGED <<type, confirmed, service, work, wire, server, early, restarts>>

\* The app is closed, killed or restarted: only the database survives.
Restart ==
    /\ restarts < MaxRestarts
    /\ restarts' = restarts + 1
    /\ service' = FALSE
    /\ work' = [s \in Sender |-> Idle]
    /\ wire' = {Left(r) : r \in wire}
    /\ UNCHANGED <<type, confirmed, row, server, early, revivals>>

-----------------------------------------------------------------------------
Server == \E r \in wire : LookUp(r) \/ FindOpen(r) \/ Reply(r)

Flush(f) ==
    \/ \E waiting \in SUBSET Pending : StartFlush(f, waiting)
    \/ Post(f)
    \/ FlushAnswered(f)
    \/ Park(f)
    \/ FlushTimeout(f)

Next ==
    \/ Bootstrap
    \/ \E t \in {"in", "out"} : PerformPunch(t)
    \/ ScreenAnswered
    \/ ScreenTimeout
    \/ \E f \in Flusher : Flush(f)
    \/ \E p \in Punch : Requeue(p)
    \/ Restart
    \/ Server

\* The database opens in the end, the interval keeps starting flushes, a
\* flush keeps going, and backoffs end.  The network is strongly fair only:
\* it may fail any number of times, at any stage of a request, but not
\* always.
Fairness ==
    /\ WF_vars(Bootstrap)
    /\ \A f \in Flusher :
        LET Mine == {r \in wire : r.from = f}
        IN /\ SF_vars(StartFlush(f, {}))
           /\ WF_vars(Post(f))
           /\ WF_vars(Park(f))
           /\ SF_vars(FlushAnswered(f))
           /\ SF_vars(\E r \in Mine : LookUp(r))
           /\ SF_vars(\E r \in Mine : FindOpen(r))
           /\ SF_vars(\E r \in Mine : Reply(r))

Spec == Init /\ [][Next]_vars /\ Fairness

-----------------------------------------------------------------------------
(* Properties.                                                             *)

\* A punch made once the app has its sync service, and confirmed, is on the
\* server or in the queue, through lost answers, restarts and overlapping
\* flushes (performPunch and the marks of flush, which never drop an item).
ConfirmedPunchIsKept == confirmed \ early \subseteq recorded \cup DOMAIN row

\* An item is marked synced only when the server has the punch: what the
\* queue drops for good has been delivered.
SyncedIsRecorded ==
    \A p \in DOMAIN row : row[p].status = "synced" => p \in recorded

\* Time offline costs an item nothing: one that is parked has been answered
\* by the server as often as the budget allows, however often requests and
\* answers were lost on the way.
OutageCostsNothing == \A p \in Failed : served[p] = MaxRetries

Ends(e) == {entry[e].in, entry[e].out} \ {0}

\* Resent, delayed and duplicated requests do not clock twice: a punch makes
\* an end of one entry at most, but for those with two requests past the
\* lookup of punchIn or punchOut at once.
PunchCountsOnce ==
    \A d, e \in DOMAIN entry : d # e => Ends(d) \cap Ends(e) \subseteq raced

\* No item waits for ever: it is delivered, or put before the worker as
\* failed or as a conflict.
PendingSettles ==
    \A p \in Punch : p \in Pending ~> p \notin Pending

\* What the phone's tests promise of makePoster: an answer that the punch
\* was taken makes the item synced.  It holds for routes that answer with
\* `entry`.
AcceptedIsSynced ==
    [][\A f \in Flusher :
          work[f].answer \in Field /\ FlushAnswered(f)
          => row'[InHand(f)].status = "synced"]_vars
=============================================================================
