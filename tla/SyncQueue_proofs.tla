-------------------------- MODULE SyncQueue_proofs --------------------------
(***************************************************************************)
(* What TLAPS proves of the phone's queue, for any number of punches,      *)
(* overlapping flushes, retries and restarts.                              *)
(***************************************************************************)
EXTENDS SyncQueue, FiniteSetTheorems, WellFoundedInduction, TLAPS

-----------------------------------------------------------------------------
(* The inductive invariant.                                                *)

\* A sender at work has an item in hand, and a flush only items of the
\* queue; a request on its way is the one its sender waits for; an answer
\* that a punch was taken is true; and the screen has a sync service for
\* what it has in hand, unless that is an early punch.
OneEach ==
    \A q, r \in wire : q.from = r.from /\ q.from \in Sender => q = r

SendersOK ==
    /\ OneEach
    /\ \A s \in Sender : work[s].phase # "idle" => work[s].batch # {}
    /\ \A f \in Flusher : work[f].batch \subseteq DOMAIN row
    /\ \A r \in wire : r.from \in Sender =>
          work[r.from].phase = "wait" /\ r.punch = InHand(r.from)
    /\ \A s \in Sender : work[s].phase = "answered" =>
          /\ work[s].answer \in Answer
          /\ work[s].answer \in Field => InHand(s) \in recorded

ScreenOK ==
    work[Screen].phase # "idle" /\ InHand(Screen) \notin early => service

IInv ==
    /\ SyncQueueTypeOK
    /\ SendersOK
    /\ ScreenOK
    /\ ConfirmedPunchIsKept
    /\ SyncedIsRecorded

WireOK ==
    /\ wire \subseteq Request
    /\ \A r \in wire : r.at = "found" => r.found \in DOMAIN entry

-----------------------------------------------------------------------------
(* Lemmas.                                                                 *)

(* The parts of a request that is posted.                                  *)
LEMMA SentIs ==
    ASSUME NEW s \in Sender, NEW p \in Punch
    PROVE  /\ Sent(s, p) \in Request /\ Sent(s, p).from = s
           /\ Sent(s, p).punch = p /\ Sent(s, p).at = "sent"
  BY DEF Request, Sent

(* A request that was given up differs in its sender only.                 *)
LEMMA LeftIs ==
    ASSUME NEW r \in Request
    PROVE  /\ Left(r) \in Request /\ Left(r).from = Nobody
           /\ Left(r).punch = r.punch /\ Left(r).at = r.at
           /\ Left(r).found = r.found
  BY DEF Request, Left

(* What touches neither the screen nor its history leaves it right.        *)
LEMMA ScreenStands ==
    ASSUME ScreenOK, UNCHANGED <<service, early>>,
           \/ work'[Screen].phase = "idle"
           \/ /\ work[Screen].phase # "idle"
              /\ work'[Screen].batch = work[Screen].batch
    PROVE  ScreenOK'
  BY DEF ScreenOK, InHand

(* A batch that is not empty has an oldest item.                           *)
LEMMA OldestIsIn ==
    ASSUME NEW batch \in SUBSET Punch, batch # {}
    PROVE  Oldest(batch) \in batch
<1> DEFINE R == {ss \in Nat \X Nat : ss[1] < ss[2]}
<1>1. batch \subseteq Nat
  BY SyncQueueAssumption DEF Punch
<1>2. IsWellFoundedOn(R, Nat)
  BY NatLessThanWellFounded DEF OpToRel
<1>3. PICK p \in batch : \A q \in batch : ~ (<<q, p>> \in R)
  <2> HIDE DEF R
  <2> QED
    BY <1>1, <1>2, WFMin
<1>4. ASSUME NEW q \in batch
      PROVE  p <= q
  <2>1. ~ (<<q, p>> \in R)
    BY <1>3
  <2>2. p \in Nat /\ q \in Nat
    BY <1>1
  <2>3. ~ (q < p)
    BY <2>1, <2>2
  <2>4. QED
    BY <2>2, <2>3
<1>5. QED
  BY <1>4 DEF Oldest

(* Queueing a punch keeps the items that are there.                        *)
LEMMA Enqueued ==
    ASSUME SyncQueueTypeOK, NEW p \in Punch, Enqueue(p)
    PROVE  /\ DOMAIN row' = DOMAIN row \cup {p}
           /\ row' \in [DOMAIN row' -> QueueItem]
           /\ \A q \in DOMAIN row : row'[q] = row[q]
           /\ p \notin DOMAIN row => row'[p].status = "pending"
<1>1. CASE p \in DOMAIN row
  <2>1. row' = row
    BY <1>1 DEF Enqueue
  <2>2. QED
    BY <1>1, <2>1 DEF SyncQueueTypeOK
<1>2. CASE p \notin DOMAIN row
  <2>1. row' = [q \in DOMAIN row \cup {p} |->
                  IF q = p THEN [status |-> "pending", retryCount |-> 0] ELSE row[q]]
    BY <1>2 DEF Enqueue
  <2>2. row \in [DOMAIN row -> QueueItem]
    BY DEF SyncQueueTypeOK
  <2>3. [status |-> "pending", retryCount |-> 0] \in QueueItem
    BY DEF QueueItem
  <2>4. QED
    BY <1>2, <2>1, <2>2, <2>3
<1>3. QED
  BY <1>1, <1>2

(* A mark changes the status of its item only.                             *)
LEMMA Marked ==
    ASSUME SyncQueueTypeOK, NEW p \in DOMAIN row,
           NEW status \in {"pending", "synced", "failed", "conflict"},
           Mark(p, status)
    PROVE  /\ DOMAIN row' = DOMAIN row
           /\ row' \in [DOMAIN row' -> QueueItem]
           /\ row'[p].status = status
           /\ \A q \in DOMAIN row : q # p => row'[q] = row[q]
<1>1. row \in [DOMAIN row -> QueueItem]
  BY DEF SyncQueueTypeOK
<1>2. [row[p] EXCEPT !.status = status] \in QueueItem
  BY <1>1 DEF QueueItem
<1>3. row' = [row EXCEPT ![p] = [row[p] EXCEPT !.status = status]]
  BY <1>1 DEF Mark
<1>4. [row[p] EXCEPT !.status = status].status = status
  BY <1>1 DEF QueueItem
<1>5. QED
  BY <1>1, <1>2, <1>3, <1>4

(* So does counting a retry, but for the count.                            *)
LEMMA RetryRecorded ==
    ASSUME SyncQueueTypeOK, NEW p \in DOMAIN row, RecordRetry(p)
    PROVE  /\ DOMAIN row' = DOMAIN row
           /\ row' \in [DOMAIN row' -> QueueItem]
           /\ \A q \in DOMAIN row : row'[q].status = row[q].status
<1>1. row \in [DOMAIN row -> QueueItem]
  BY DEF SyncQueueTypeOK
<1>2. row[p].retryCount \in Nat
  BY <1>1 DEF QueueItem
<1> DEFINE item == [row[p] EXCEPT !.retryCount = row[p].retryCount + 1]
<1>3. item \in QueueItem /\ item.status = row[p].status
  BY <1>1, <1>2 DEF QueueItem
<1>4. row' = [row EXCEPT ![p] = item]
  BY <1>1 DEF RecordRetry
<1>5. QED
  BY <1>1, <1>3, <1>4

(* A flush that moves on is idle, or has an item of its batch in hand.     *)
LEMMA Advanced ==
    ASSUME SyncQueueTypeOK, NEW f \in Flusher, Advance(f)
    PROVE  /\ work' \in [Sender -> Work]
           /\ \A s \in Sender : s # f => work'[s] = work[s]
           /\ work'[f].phase \in {"idle", "post"}
           /\ work'[f].batch \subseteq work[f].batch
           /\ work[f].batch # {} /\ work'[f].phase # "idle" => work'[f].batch # {}
<1>1. f \in Sender /\ work \in [Sender -> Work] /\ work[f] \in Work
  BY DEF SyncQueueTypeOK, Sender
<1>2. Idle \in Work
  BY DEF Idle, Work
<1> DEFINE rest == work[f].batch \ {InHand(f)}
           next == IF work[f].batch = {InHand(f)} THEN Idle
                   ELSE [Idle EXCEPT !.phase = "post", !.batch = rest]
<1>3. work' = [work EXCEPT ![f] = next]
  BY <1>1 DEF Advance
<1>4. rest \in SUBSET Punch
  BY <1>1 DEF Work
<1>5. /\ next \in Work
      /\ next.phase \in {"idle", "post"}
      /\ next.batch \subseteq work[f].batch
      /\ work[f].batch # {} /\ next.phase # "idle" => next.batch # {}
  BY <1>4 DEF Idle, Work
<1>6. QED
  <2> HIDE DEF next
  <2> QED
    BY <1>1, <1>3, <1>5

-----------------------------------------------------------------------------
(* The steps.                                                              *)

(* A request is answered: the punch is recorded before its sender is told   *)
(* that it was taken.                                                      *)
LEMMA HandleStep ==
    ASSUME IInv, NEW req \in wire, NEW s, NEW p, s = req.from, p = req.punch,
           NEW answer \in Answer, Handle(req, answer),
           recorded \subseteq recorded', recorded' \subseteq Punch,
           entry' \in Seq(Entry), DOMAIN entry \subseteq DOMAIN entry',
           answer \in Field => p \in recorded'
    PROVE  IInv'
<1> USE DEF IInv
<1>1. /\ wire' = wire \ {req}
      /\ UNCHANGED <<type, confirmed, service, row, early, raced, revivals, restarts>>
      /\ s \in Sender \cup {Nobody} /\ p \in Punch
  BY DEF Handle, bounds, SyncQueueTypeOK, Request
<1>2. work \in [Sender -> Work]
  BY DEF SyncQueueTypeOK
<1>3. /\ work' \in [Sender -> Work]
      /\ \A r \in Sender : r # s => work'[r] = work[r]
      /\ s \in Sender => /\ work'[s].phase = "answered"
                         /\ work'[s].answer = answer
                         /\ work'[s].batch = work[s].batch
  <2>1. CASE s = Nobody
    BY <1>2, <2>1, SyncQueueAssumption DEF Handle, Sender
  <2>2. CASE s # Nobody
    <3> DEFINE w == [work[s] EXCEPT !.phase = "answered", !.answer = answer]
    <3>1. work[s] \in Work
      BY <1>1, <1>2, <2>2
    <3>2. w \in Work /\ w.phase = "answered" /\ w.answer = answer /\ w.batch = work[s].batch
      BY <3>1 DEF Work
    <3>3. work' = [work EXCEPT ![s] = w]
      BY <1>2, <2>2 DEF Handle
    <3>4. QED
      <4> HIDE DEF w
      <4> QED
        BY <1>2, <2>2, <3>2, <3>3
  <2>3. QED
    BY <2>1, <2>2
<1>4. SyncQueueTypeOK'
  <2>1. served' \in [Punch -> 0..MaxRetries]
    <3>1. served \in [Punch -> 0..MaxRetries]
      BY DEF SyncQueueTypeOK
    <3>2. (IF served[p] < MaxRetries THEN served[p] + 1 ELSE served[p]) \in 0..MaxRetries
      BY <1>1, <3>1, SyncQueueAssumption
    <3>3. QED
      BY <3>1, <3>2 DEF Handle
  <2>2. QED
    BY <1>1, <1>3, <2>1 DEF SyncQueueTypeOK
<1>5. SendersOK'
  <2>1. \A r \in Sender : work'[r].phase # "idle" => work'[r].batch # {}
    BY <1>1, <1>3 DEF SendersOK
  <2>2. \A f \in Flusher : work'[f].batch \subseteq DOMAIN row'
    BY <1>1, <1>3 DEF SendersOK, Sender
  <2>3. \A r \in wire' : r.from \in Sender =>
           work'[r.from].phase = "wait" /\ r.punch = Oldest(work'[r.from].batch)
    <3> SUFFICES ASSUME NEW r \in wire', r.from \in Sender
                 PROVE  work'[r.from].phase = "wait" /\ r.punch = Oldest(work'[r.from].batch)
      OBVIOUS
    <3>1. r \in wire /\ r # req /\ r.from # s
      BY <1>1 DEF SendersOK, OneEach
    <3>2. QED
      BY <1>3, <3>1 DEF SendersOK, InHand
  <2>4. \A r \in Sender : work'[r].phase = "answered" =>
           /\ work'[r].answer \in Answer
           /\ work'[r].answer \in Field => Oldest(work'[r].batch) \in recorded'
    <3>1. s \in Sender => p = Oldest(work[s].batch)
      BY <1>1 DEF SendersOK, InHand
    <3>2. QED
      BY <1>3, <3>1 DEF SendersOK, InHand
  <2>5. OneEach'
    BY <1>1 DEF SendersOK, OneEach
  <2>6. QED
    BY <2>1, <2>2, <2>3, <2>4, <2>5 DEF SendersOK, InHand
<1>6. ConfirmedPunchIsKept'
  BY <1>1 DEF ConfirmedPunchIsKept
<1>7. SyncedIsRecorded'
  BY <1>1 DEF SyncedIsRecorded
<1>9. ScreenOK'
  BY <1>1, <1>3, ScreenStands, SyncQueueAssumption DEF Sender, SendersOK
<1>8. QED
  BY <1>4, <1>5, <1>6, <1>7, <1>9


(* A request goes on at the server: its sender, its punch and the answer   *)
(* it waits for are the same.                                              *)
LEMMA ProceedStep ==
    ASSUME IInv, NEW req \in wire, NEW next \in Request, Proceed(req, next),
           next.from = req.from, next.punch = req.punch,
           next.at = "found" => next.found \in DOMAIN entry, raced' \subseteq Punch
    PROVE  IInv'
<1> USE DEF IInv
<1>1. /\ wire' = (wire \ {req}) \cup {next}
      /\ UNCHANGED <<type, confirmed, service, row, work, recorded, entry, served,
                     early, revivals, restarts>>
  BY DEF Proceed, clock, bounds
<1>2. SyncQueueTypeOK'
  <2>1. WireOK'
    BY <1>1 DEF SyncQueueTypeOK, WireOK
  <2>2. QED
    BY <1>1, <2>1 DEF SyncQueueTypeOK, WireOK
<1>3. SendersOK'
  <2>1. \A r \in wire' : r.from \in Sender =>
           work'[r.from].phase = "wait" /\ r.punch = Oldest(work'[r.from].batch)
    BY <1>1 DEF SendersOK, InHand
  <2>2. OneEach'
    BY <1>1 DEF SendersOK, OneEach
  <2>3. QED
    BY <1>1, <2>1, <2>2 DEF SendersOK, InHand
<1>4. ScreenOK'
  BY <1>1 DEF ScreenOK, InHand
<1>5. ConfirmedPunchIsKept' /\ SyncedIsRecorded'
  BY <1>1 DEF ConfirmedPunchIsKept, SyncedIsRecorded
<1>6. QED
  BY <1>2, <1>3, <1>4, <1>5

(* An INSERT adds a row at the end, an UPDATE keeps the row it gives an    *)
(* end to.                                                                 *)
LEMMA Written ==
    ASSUME SyncQueueTypeOK, NEW req \in wire, Insert(req) \/ Close(req)
    PROVE  entry' \in Seq(Entry) /\ DOMAIN entry \subseteq DOMAIN entry'
<1>1. req \in Request /\ entry \in Seq(Entry) /\ req.punch \in Punch
  BY DEF SyncQueueTypeOK, Request
<1>2. CASE Insert(req)
  <2>1. [in |-> req.punch, out |-> 0] \in Entry
    BY <1>1 DEF Entry
  <2>2. QED
    BY <1>1, <1>2, <2>1 DEF Insert
<1>3. CASE Close(req)
  <2> DEFINE e == req.found
             closed == [entry[e] EXCEPT !.out = req.punch]
  <2>1. e \in DOMAIN entry /\ entry[e] \in Entry
    BY <1>1, <1>3 DEF Close, SyncQueueTypeOK
  <2>2. closed \in Entry
    BY <1>1, <2>1 DEF Entry
  <2>3. entry' = [entry EXCEPT ![e] = closed]
    BY <1>3 DEF Close
  <2> HIDE DEF closed, e
  <2>4. QED
    BY <1>1, <2>1, <2>2, <2>3
<1>4. QED
  BY <1>2, <1>3

(* What the server does with a request disturbs no part of the invariant.  *)
LEMMA ServerStep ==
    ASSUME IInv, Server
    PROVE  IInv'
<1>1. PICK req \in wire : LookUp(req) \/ FindOpen(req) \/ Reply(req)
  BY DEF Server
<1>2. /\ SyncQueueTypeOK /\ req \in Request /\ req.punch \in Punch
      /\ entry \in Seq(Entry) /\ recorded \subseteq Punch
  BY DEF IInv, SyncQueueTypeOK, Request
<1>3. CASE LookUp(req)
  <2> DEFINE next == [req EXCEPT !.at = "looked"]
  <2>1. next \in Request /\ next.from = req.from /\ next.punch = req.punch /\ next.at # "found"
    BY <1>2 DEF Request
  <2>2. Proceed(req, next) /\ raced' \subseteq Punch
    BY <1>2, <1>3 DEF LookUp, SyncQueueTypeOK
  <2> HIDE DEF next
  <2>3. QED
    BY <2>1, <2>2, ProceedStep
<1>4. CASE FindOpen(req)
  <2>1. PICK e \in OpenEntries : Proceed(req, [req EXCEPT !.at = "found", !.found = e])
    BY <1>4 DEF FindOpen
  <2> DEFINE next == [req EXCEPT !.at = "found", !.found = e]
  <2>2. e \in DOMAIN entry /\ e \in Nat
    BY <1>2 DEF OpenEntries
  <2>3. next \in Request /\ next.from = req.from /\ next.punch = req.punch /\ next.found = e
    BY <1>2, <2>2 DEF Request
  <2>4. raced' \subseteq Punch
    BY <1>4 DEF FindOpen, IInv, SyncQueueTypeOK
  <2>5. Proceed(req, next)
    BY <2>1
  <2> HIDE DEF next
  <2>6. QED
    BY <2>2, <2>3, <2>4, <2>5, ProceedStep
<1>5. CASE Replay(req)
  <2>1. PICK field \in Field : Handle(req, field)
    BY <1>5 DEF Replay
  <2>2. UNCHANGED <<recorded, entry>> /\ req.punch \in recorded
    BY <1>5 DEF Replay, clock
  <2>3. QED
    BY <1>2, <2>1, <2>2, HandleStep DEF Answer
<1>6. CASE Take(req)
  <2>1. PICK field \in Field : Handle(req, field)
    BY <1>6 DEF Take
  <2>2. recorded' = recorded \cup {req.punch} /\ (Insert(req) \/ Close(req))
    BY <1>6 DEF Take
  <2>3. entry' \in Seq(Entry) /\ DOMAIN entry \subseteq DOMAIN entry'
    BY <1>2, <2>2, Written
  <2>4. QED
    BY <1>2, <2>1, <2>2, <2>3, HandleStep DEF Answer
<1>7. CASE Refuse(req) \/ TurnDown(req)
  <2>1. PICK answer \in Refusal \cup {"refused"} : Handle(req, answer)
    BY <1>7 DEF Refuse, TurnDown
  <2>2. UNCHANGED <<recorded, entry>>
    BY <1>7 DEF Refuse, TurnDown, clock
  <2>3. answer \in Answer /\ answer \notin Field
    BY SyncQueueAssumption DEF Answer
  <2>4. QED
    BY <1>2, <2>1, <2>2, <2>3, HandleStep
<1>8. QED
  BY <1>1, <1>3, <1>4, <1>5, <1>6, <1>7 DEF Reply
(* The screen has the new punch in hand, and nobody else.                  *)
LEMMA PunchStep ==
    ASSUME IInv, NEW t \in {"in", "out"}, PerformPunch(t)
    PROVE  IInv'
<1> DEFINE p == Len(type) + 1
           w == [Idle EXCEPT !.phase = "wait", !.batch = {p}]
<1> USE DEF IInv
<1>1. type \in Seq({"in", "out"}) /\ work \in [Sender -> Work] /\ Screen \in Sender
  BY DEF SyncQueueTypeOK, Sender
<1>2. p \in Punch
  BY <1>1, SyncQueueAssumption DEF PerformPunch, Punch
<1>3. type' \in Seq({"in", "out"}) /\ Len(type') = p /\ p <= NumPunches
  BY <1>1, <1>2 DEF PerformPunch, Punch
<1>4. w \in Work /\ w.phase = "wait" /\ w.batch = {p}
  BY <1>2 DEF Work, Idle
<1>5. work' = [work EXCEPT ![Screen] = w] /\ wire' = wire \cup {Sent(Screen, p)}
  BY DEF PerformPunch
<1>6. Oldest({p}) = p
  BY <1>2, OldestIsIn
<1>7. UNCHANGED <<confirmed, service, row, recorded, entry, raced, served, revivals, restarts>>
  BY DEF PerformPunch, server, clock, bounds
<1> HIDE DEF p, w
<1>8. work' \in [Sender -> Work] /\ \A s \in Sender : s # Screen => work'[s] = work[s]
  BY <1>1, <1>4, <1>5
<1>9. work'[Screen] = w
  BY <1>1, <1>5
<1>10. \A r \in wire : r.from # Screen
  BY <1>1 DEF PerformPunch, SendersOK
<1>11. Sent(Screen, p) \in Request /\ Sent(Screen, p).from = Screen /\ Sent(Screen, p).at = "sent"
  BY <1>1, <1>2, SentIs
<1>12. SyncQueueTypeOK'
  <2>1. WireOK'
    BY <1>5, <1>7, <1>11 DEF SyncQueueTypeOK, WireOK
  <2>2. early' \subseteq Punch
    BY <1>2 DEF PerformPunch, SyncQueueTypeOK, p
  <2>3. QED
    BY <1>3, <1>7, <1>8, <2>1, <2>2 DEF SyncQueueTypeOK, WireOK
<1>13. SendersOK'
  <2>1. \A s \in Sender : work'[s].phase # "idle" => work'[s].batch # {}
    BY <1>4, <1>8, <1>9 DEF SendersOK
  <2>2. \A f \in Flusher : work'[f].batch \subseteq DOMAIN row'
    BY <1>7, <1>8, SyncQueueAssumption DEF SendersOK, Sender
  <2>3. \A r \in wire' : r.from \in Sender =>
           work'[r.from].phase = "wait" /\ r.punch = Oldest(work'[r.from].batch)
    <3> SUFFICES ASSUME NEW r \in wire', r.from \in Sender
                 PROVE  work'[r.from].phase = "wait" /\ r.punch = Oldest(work'[r.from].batch)
      OBVIOUS
    <3>1. CASE r \in wire
      BY <1>8, <1>10, <3>1 DEF SendersOK, InHand
    <3>2. CASE r = Sent(Screen, p)
      <4>1. r.from = Screen /\ r.punch = p
        BY <1>1, <1>2, <3>2, SentIs
      <4>2. QED
        BY <1>4, <1>6, <1>9, <4>1
    <3>3. QED
      BY <1>5, <3>1, <3>2
  <2>4. \A s \in Sender : work'[s].phase = "answered" =>
           /\ work'[s].answer \in Answer
           /\ work'[s].answer \in Field => Oldest(work'[s].batch) \in recorded'
    BY <1>4, <1>7, <1>8, <1>9 DEF SendersOK, InHand
  <2>5. OneEach'
    BY <1>5, <1>10, <1>11 DEF SendersOK, OneEach
  <2>6. QED
    BY <2>1, <2>2, <2>3, <2>4, <2>5 DEF SendersOK, InHand
<1>14. ScreenOK'
  <2>1. InHand(Screen)' = p
    BY <1>4, <1>6, <1>9 DEF InHand
  <2>2. service \/ p \in early'
    BY DEF PerformPunch, p
  <2>3. QED
    BY <1>7, <2>1, <2>2 DEF ScreenOK
<1>15. ConfirmedPunchIsKept' /\ SyncedIsRecorded'
  <2>1. early \subseteq early'
    BY DEF PerformPunch
  <2>2. QED
    BY <1>7, <2>1 DEF ConfirmedPunchIsKept, SyncedIsRecorded
<1>16. QED
  BY <1>12, <1>13, <1>14, <1>15

(* A sender that becomes idle, with no request of its own left, leaves the *)
(* others as they were.                                                    *)
LEMMA SenderLeaves ==
    ASSUME IInv, NEW s \in Sender, work' = [work EXCEPT ![s] = Idle],
           \A r \in wire' : r.from \in Sender => r \in wire /\ r.from # s,
           recorded' = recorded, DOMAIN row \subseteq DOMAIN row'
    PROVE  work' \in [Sender -> Work] /\ SendersOK'
<1> USE DEF IInv
<1>1. work \in [Sender -> Work] /\ Idle \in Work
  BY DEF SyncQueueTypeOK, Work, Idle
<1>2. /\ work' \in [Sender -> Work]
      /\ work'[s] = Idle
      /\ \A r \in Sender : r # s => work'[r] = work[r]
  BY <1>1
<1>3. Idle.phase = "idle" /\ Idle.batch = {}
  BY DEF Idle
<1>4. \A r \in wire' : r.from \in Sender =>
           work'[r.from].phase = "wait" /\ r.punch = Oldest(work'[r.from].batch)
  BY <1>2 DEF SendersOK, InHand
<1>5. \A r \in Sender : work'[r].phase = "answered" =>
         /\ work'[r].answer \in Answer
         /\ work'[r].answer \in Field => Oldest(work'[r].batch) \in recorded'
  BY <1>2, <1>3 DEF SendersOK, InHand
<1>6. \A f \in Flusher : work'[f].batch \subseteq DOMAIN row'
  BY <1>2, <1>3 DEF SendersOK, Sender
<1>7. \A r \in Sender : work'[r].phase # "idle" => work'[r].batch # {}
  BY <1>2, <1>3 DEF SendersOK
<1>8. OneEach'
  BY DEF SendersOK, OneEach
<1>9. QED
  BY <1>2, <1>4, <1>5, <1>6, <1>7, <1>8 DEF SendersOK, InHand

(* A request whose sender has given up is nobody's.                        *)
LEMMA GivenUp ==
    ASSUME SyncQueueTypeOK, NEW s \in Sender, GiveUp(s), entry' = entry
    PROVE  /\ WireOK'
           /\ \A r \in wire' : r.from \in Sender => r \in wire /\ r.from # s
<1> DEFINE mine == {r \in wire : r.from = s}
<1>1. WireOK
  BY DEF SyncQueueTypeOK, WireOK
<1>2. wire' \subseteq (wire \ mine) \cup {Left(r) : r \in mine}
  BY DEF GiveUp
<1>3. Nobody \notin Sender
  BY SyncQueueAssumption DEF Sender
<1>4. ASSUME NEW r \in mine
      PROVE  /\ Left(r) \in Request /\ Left(r).from = Nobody
             /\ Left(r).at = "found" => Left(r).found \in DOMAIN entry
  <2>1. r \in Request
    BY <1>1 DEF WireOK
  <2>2. QED
    BY <1>1, <2>1, LeftIs DEF WireOK
<1>5. QED
  <2> HIDE DEF mine
  <2>1. mine \subseteq wire /\ \A r \in wire : r.from = s => r \in mine
    BY DEF mine
  <2>2. QED
    BY <1>1, <1>2, <1>3, <1>4, <2>1 DEF WireOK

(* performPunch returns: its punch has been taken, or is in the queue.     *)
LEMMA ScreenStep ==
    ASSUME IInv, ScreenAnswered \/ ScreenTimeout
    PROVE  IInv'
<1> DEFINE p == InHand(Screen)
<1> USE DEF IInv
<1>1. Screen \in Sender /\ Screen \notin Flusher
  BY SyncQueueAssumption DEF Sender
<1>2. /\ confirmed' = confirmed \cup {p}
      /\ work' = [work EXCEPT ![Screen] = Idle]
      /\ UNCHANGED <<type, service, recorded, entry, early, raced, served, revivals,
                     restarts>>
  BY DEF ScreenAnswered, ScreenTimeout, Confirm, server, clock, bounds
<1>3. p \in Punch
  <2>1. work[Screen].phase # "idle"
    BY DEF ScreenAnswered, ScreenTimeout, GiveUp
  <2>2. work[Screen].batch # {}
    BY <1>1, <2>1 DEF SendersOK
  <2>3. work[Screen].batch \in SUBSET Punch
    BY <1>1 DEF SyncQueueTypeOK, Work
  <2>4. QED
    BY <2>2, <2>3, OldestIsIn DEF InHand
<1>4. /\ WireOK'
      /\ \A r \in wire' : r.from \in Sender => r \in wire /\ r.from # Screen
  <2>1. CASE ScreenAnswered
    <3>1. \A r \in wire : r.from # Screen
      BY <1>1, <2>1 DEF ScreenAnswered, SendersOK
    <3>2. QED
      BY <1>2, <2>1, <3>1 DEF ScreenAnswered, SyncQueueTypeOK, WireOK
  <2>2. CASE ScreenTimeout
    BY <1>1, <1>2, <2>2, GivenUp DEF ScreenTimeout
  <2>3. QED
    BY <2>1, <2>2
<1>5. /\ DOMAIN row \subseteq DOMAIN row' /\ DOMAIN row' \subseteq Punch
      /\ row' \in [DOMAIN row' -> QueueItem]
      /\ \A q \in DOMAIN row : row'[q] = row[q]
      /\ \A q \in DOMAIN row' : q \notin DOMAIN row => row'[q].status = "pending"
      /\ p \in DOMAIN row' \cup recorded \cup early
  <2>1. CASE ScreenAnswered /\ work[Screen].answer \in Field
    <3>1. p \in recorded
      BY <1>1, <2>1 DEF ScreenAnswered, SendersOK
    <3>2. row' = row
      BY <2>1 DEF ScreenAnswered
    <3>3. QED
      BY <3>1, <3>2 DEF SyncQueueTypeOK
  <2>2. CASE Enqueue(p)
    <3> HIDE DEF p
    <3>1. /\ DOMAIN row' = DOMAIN row \cup {p}
          /\ row' \in [DOMAIN row' -> QueueItem]
          /\ \A q \in DOMAIN row : row'[q] = row[q]
          /\ p \notin DOMAIN row => row'[p].status = "pending"
      BY <1>3, <2>2, Enqueued
    <3>2. DOMAIN row \subseteq Punch
      BY DEF SyncQueueTypeOK
    <3>3. QED
      BY <1>3, <3>1, <3>2
  <2>3. CASE row' = row /\ ~ service
    <3>1. work[Screen].phase # "idle"
      BY DEF ScreenAnswered, ScreenTimeout, GiveUp
    <3>2. p \in early
      BY <2>3, <3>1 DEF ScreenOK
    <3>3. QED
      BY <2>3, <3>2 DEF SyncQueueTypeOK
  <2>4. QED
    BY <2>1, <2>2, <2>3 DEF ScreenAnswered, ScreenTimeout, Keep
<1> HIDE DEF p
<1>6. work' \in [Sender -> Work] /\ SendersOK'
  BY <1>1, <1>2, <1>4, <1>5, SenderLeaves
<1>7. SyncQueueTypeOK' /\ ScreenOK'
  <2>1. work'[Screen].phase = "idle"
    BY <1>1, <1>2 DEF SyncQueueTypeOK, Idle
  <2>2. QED
    BY <1>2, <1>3, <1>4, <1>5, <1>6, <2>1, ScreenStands DEF SyncQueueTypeOK, WireOK
<1>8. ConfirmedPunchIsKept'
  BY <1>2, <1>5 DEF ConfirmedPunchIsKept
<1>9. SyncedIsRecorded'
  BY <1>2, <1>5 DEF SyncedIsRecorded
<1>10. QED
  BY <1>6, <1>7, <1>8, <1>9

(* A flush takes its snapshot of the queue.                                *)
LEMMA StartFlushStep ==
    ASSUME IInv, NEW f \in Flusher, NEW waiting, StartFlush(f, waiting)
    PROVE  IInv'
<1> DEFINE w == [Idle EXCEPT !.phase = "post", !.batch = Pending \ waiting]
<1> USE DEF IInv
<1>1. f \in Sender /\ f # Screen /\ work \in [Sender -> Work] /\ Screen \in Sender
  BY SyncQueueAssumption DEF SyncQueueTypeOK, Sender
<1>2. Pending \subseteq DOMAIN row /\ DOMAIN row \subseteq Punch
  BY DEF Pending, SyncQueueTypeOK
<1>3. /\ w \in Work
      /\ w.phase = "post"
      /\ w.batch # {}
      /\ w.batch \subseteq DOMAIN row
  BY <1>2 DEF StartFlush, Work, Idle
<1>4. work' = [work EXCEPT ![f] = w] /\ work[f].phase = "idle"
  BY DEF StartFlush
<1>5. UNCHANGED <<type, confirmed, service, row, wire, recorded, entry, early, raced, served,
                  revivals, restarts>>
  BY DEF StartFlush, server, clock, bounds
<1> HIDE DEF w
<1>6. /\ work' \in [Sender -> Work]
      /\ work'[f] = w
      /\ \A s \in Sender : s # f => work'[s] = work[s]
  BY <1>1, <1>3, <1>4
<1>7. SendersOK'
  <2>1. \A r \in wire' : r.from \in Sender =>
           work'[r.from].phase = "wait" /\ r.punch = Oldest(work'[r.from].batch)
    BY <1>4, <1>5, <1>6 DEF SendersOK, InHand
  <2>2. \A s \in Sender : work'[s].phase = "answered" =>
           /\ work'[s].answer \in Answer
           /\ work'[s].answer \in Field => Oldest(work'[s].batch) \in recorded'
    BY <1>3, <1>5, <1>6 DEF SendersOK, InHand
  <2>3. \A g \in Flusher : work'[g].batch \subseteq DOMAIN row'
    BY <1>3, <1>5, <1>6 DEF SendersOK, Sender
  <2>4. \A s \in Sender : work'[s].phase # "idle" => work'[s].batch # {}
    BY <1>3, <1>6 DEF SendersOK
  <2>5. QED
    BY <1>5, <2>1, <2>2, <2>3, <2>4 DEF SendersOK, InHand, OneEach
<1>8. SyncQueueTypeOK' /\ ScreenOK'
  BY <1>1, <1>5, <1>6, ScreenStands DEF SyncQueueTypeOK
<1>9. ConfirmedPunchIsKept' /\ SyncedIsRecorded'
  BY <1>5 DEF ConfirmedPunchIsKept, SyncedIsRecorded
<1>10. QED
  BY <1>7, <1>8, <1>9

(* A flush posts the item it has in hand.                                  *)
LEMMA PostStep ==
    ASSUME IInv, NEW f \in Flusher, Post(f)
    PROVE  IInv'
<1> DEFINE p == InHand(f)
           w == [work[f] EXCEPT !.phase = "wait"]
<1> USE DEF IInv
<1>1. /\ f \in Sender /\ f # Screen /\ Screen \in Sender
      /\ work \in [Sender -> Work] /\ work[f] \in Work
  BY SyncQueueAssumption DEF SyncQueueTypeOK, Sender
<1>2. work[f].phase = "post" /\ work' = [work EXCEPT ![f] = w] /\ wire' = wire \cup {Sent(f, p)}
  BY <1>1 DEF Post
<1>3. work[f].batch # {} /\ work[f].batch \subseteq DOMAIN row /\ work[f].batch \in SUBSET Punch
  BY <1>1, <1>2 DEF SendersOK, Work
<1>4. p \in Punch
  BY <1>3, OldestIsIn DEF InHand
<1>5. w \in Work /\ w.phase = "wait" /\ w.batch = work[f].batch
  BY <1>1 DEF Work
<1>6. UNCHANGED <<type, confirmed, service, row, recorded, entry, early, raced, served,
                  revivals, restarts>>
  BY DEF Post, server, clock, bounds
<1>7. p = Oldest(w.batch)
  BY <1>5 DEF InHand
<1> HIDE DEF w, p
<1>13. /\ Sent(f, p) \in Request /\ Sent(f, p).from = f
       /\ Sent(f, p).punch = p /\ Sent(f, p).at = "sent"
  BY <1>1, <1>4, SentIs
<1>14. \A r \in wire : r.from # f
  BY <1>1, <1>2 DEF SendersOK
<1>8. /\ work' \in [Sender -> Work]
      /\ work'[f] = w
      /\ \A s \in Sender : s # f => work'[s] = work[s]
  BY <1>1, <1>2, <1>5
<1>9. SendersOK'
  <2>1. \A r \in wire' : r.from \in Sender =>
           work'[r.from].phase = "wait" /\ r.punch = Oldest(work'[r.from].batch)
    BY <1>2, <1>5, <1>7, <1>8, <1>13, <1>14 DEF SendersOK, InHand
  <2>2. \A s \in Sender : work'[s].phase = "answered" =>
           /\ work'[s].answer \in Answer
           /\ work'[s].answer \in Field => Oldest(work'[s].batch) \in recorded'
    BY <1>5, <1>6, <1>8 DEF SendersOK, InHand
  <2>3. \A g \in Flusher : work'[g].batch \subseteq DOMAIN row'
    BY <1>3, <1>5, <1>6, <1>8 DEF SendersOK, Sender
  <2>4. \A s \in Sender : work'[s].phase # "idle" => work'[s].batch # {}
    BY <1>3, <1>5, <1>8 DEF SendersOK
  <2>5. OneEach'
    BY <1>2, <1>13, <1>14 DEF SendersOK, OneEach
  <2>6. QED
    BY <2>1, <2>2, <2>3, <2>4, <2>5 DEF SendersOK, InHand
<1>10. SyncQueueTypeOK' /\ ScreenOK'
  <2>1. WireOK'
    BY <1>2, <1>6, <1>13 DEF SyncQueueTypeOK, WireOK
  <2>2. QED
    BY <1>1, <1>6, <1>8, <2>1, ScreenStands DEF SyncQueueTypeOK, WireOK
<1>11. ConfirmedPunchIsKept' /\ SyncedIsRecorded'
  BY <1>6 DEF ConfirmedPunchIsKept, SyncedIsRecorded
<1>12. QED
  BY <1>9, <1>10, <1>11

(* A flush that has dealt with an answer waits for none.                   *)
LEMMA FlushMoves ==
    ASSUME IInv, NEW f \in Flusher, work[f].phase \notin {"idle", "wait"},
           \A s \in Sender : s # f => work'[s] = work[s],
           work'[f].phase \in {"idle", "post", "park"},
           work'[f].batch \subseteq work[f].batch,
           work'[f].phase # "idle" => work'[f].batch # {},
           wire' = wire, recorded' = recorded, DOMAIN row' = DOMAIN row,
           UNCHANGED <<service, early>>
    PROVE  SendersOK' /\ ScreenOK'
<1> USE DEF IInv
<1>1. f \in Sender /\ f # Screen /\ Screen \in Sender
  BY SyncQueueAssumption DEF Sender
<1>2. \A r \in wire' : r.from \in Sender =>
           work'[r.from].phase = "wait" /\ r.punch = Oldest(work'[r.from].batch)
  BY <1>1 DEF SendersOK, InHand
<1>3. \A s \in Sender : work'[s].phase = "answered" =>
         /\ work'[s].answer \in Answer
         /\ work'[s].answer \in Field => Oldest(work'[s].batch) \in recorded'
  BY DEF SendersOK, InHand
<1>4. \A g \in Flusher : work'[g].batch \subseteq DOMAIN row'
  BY DEF SendersOK, Sender
<1>5. \A s \in Sender : work'[s].phase # "idle" => work'[s].batch # {}
  BY DEF SendersOK
<1>6. ScreenOK'
  BY <1>1, ScreenStands
<1>7. QED
  BY <1>2, <1>3, <1>4, <1>5, <1>6 DEF SendersOK, InHand, OneEach

(* An answer marks its item, and `synced` only a punch that was taken.     *)
LEMMA FlushAnsweredStep ==
    ASSUME IInv, NEW f \in Flusher, FlushAnswered(f)
    PROVE  IInv'
<1> DEFINE p == InHand(f)
           result == Result(work[f].answer)
<1> USE DEF IInv
<1>1. f \in Sender /\ work \in [Sender -> Work] /\ work[f] \in Work
  BY DEF SyncQueueTypeOK, Sender
<1>2. work[f].phase = "answered"
  BY DEF FlushAnswered
<1>3. p \in DOMAIN row
  <2>1. work[f].batch # {} /\ work[f].batch \subseteq DOMAIN row /\ work[f].batch \in SUBSET Punch
    BY <1>1, <1>2 DEF SendersOK, Work
  <2>2. QED
    BY <2>1, OldestIsIn DEF InHand
<1>4. UNCHANGED <<type, confirmed, service, wire, recorded, entry, early, raced, served,
                  revivals, restarts>>
  BY DEF FlushAnswered, server, clock, bounds
<1>5. result = "ok" => p \in recorded
  <2>1. result = "ok" => work[f].answer = "entry"
    BY DEF Result
  <2>2. work[f].answer \in Answer /\ (work[f].answer \in Field => p \in recorded)
    BY <1>1, <1>2 DEF SendersOK
  <2>3. "entry" \in Answer => "entry" \in Field
    BY SyncQueueAssumption DEF Answer
  <2>4. QED
    BY <2>1, <2>2, <2>3
<1>6. work[f].batch # {}
  BY <1>1, <1>2 DEF SendersOK
<1> HIDE DEF p, result
<1>7. /\ work' \in [Sender -> Work]
      /\ \A s \in Sender : s # f => work'[s] = work[s]
      /\ work'[f].phase \in {"idle", "post", "park"}
      /\ work'[f].batch \subseteq work[f].batch
      /\ work'[f].phase # "idle" => work'[f].batch # {}
  <2>1. CASE Advance(f)
    BY <1>6, <2>1, Advanced
  <2>2. CASE work' = [work EXCEPT ![f].phase = "park"]
    <3> DEFINE w == [work[f] EXCEPT !.phase = "park"]
    <3>1. w \in Work /\ w.phase = "park" /\ w.batch = work[f].batch
      BY <1>1 DEF Work
    <3>2. work' = [work EXCEPT ![f] = w]
      BY <1>1, <2>2
    <3> HIDE DEF w
    <3>3. QED
      BY <1>1, <1>6, <3>1, <3>2
  <2>3. QED
    BY <2>1, <2>2 DEF FlushAnswered
<1>8. /\ DOMAIN row' = DOMAIN row
      /\ row' \in [DOMAIN row' -> QueueItem]
      /\ SyncedIsRecorded'
  <2>1. CASE result = "ok" /\ Mark(p, "synced")
    <3>1. /\ DOMAIN row' = DOMAIN row
          /\ row' \in [DOMAIN row' -> QueueItem]
          /\ \A q \in DOMAIN row : q # p => row'[q] = row[q]
      BY <1>3, <2>1, Marked
    <3>2. QED
      BY <1>4, <1>5, <2>1, <3>1 DEF SyncedIsRecorded
  <2>2. CASE Mark(p, "conflict")
    <3>1. /\ DOMAIN row' = DOMAIN row
          /\ row' \in [DOMAIN row' -> QueueItem]
          /\ row'[p].status = "conflict"
          /\ \A q \in DOMAIN row : q # p => row'[q] = row[q]
      BY <1>3, <2>2, Marked
    <3>2. QED
      BY <1>4, <3>1 DEF SyncedIsRecorded
  <2>3. CASE RecordRetry(p)
    <3>1. /\ DOMAIN row' = DOMAIN row
          /\ row' \in [DOMAIN row' -> QueueItem]
          /\ \A q \in DOMAIN row : row'[q].status = row[q].status
      BY <1>3, <2>3, RetryRecorded
    <3>2. QED
      BY <1>4, <3>1 DEF SyncedIsRecorded
  <2>4. QED
    BY <2>1, <2>2, <2>3 DEF FlushAnswered, p, result
<1>9. SendersOK' /\ ScreenOK'
  BY <1>2, <1>4, <1>7, <1>8, FlushMoves
<1>10. SyncQueueTypeOK'
  BY <1>2, <1>3, <1>4, <1>7, <1>8 DEF SyncQueueTypeOK
<1>11. ConfirmedPunchIsKept'
  BY <1>4, <1>8 DEF ConfirmedPunchIsKept
<1>12. QED
  BY <1>8, <1>9, <1>10, <1>11

(* An item that used up its retries is parked, and stays in the queue.     *)
LEMMA ParkStep ==
    ASSUME IInv, NEW f \in Flusher, Park(f)
    PROVE  IInv'
<1> DEFINE p == InHand(f)
<1> USE DEF IInv
<1>1. f \in Sender /\ work[f] \in Work
  BY DEF SyncQueueTypeOK, Sender
<1>2. work[f].phase = "park" /\ Mark(p, "failed") /\ Advance(f)
  BY DEF Park
<1>3. work[f].batch # {} /\ work[f].batch \subseteq DOMAIN row /\ work[f].batch \in SUBSET Punch
  BY <1>1, <1>2 DEF SendersOK, Work
<1>4. p \in DOMAIN row
  BY <1>3, OldestIsIn DEF InHand
<1>5. UNCHANGED <<type, confirmed, service, wire, recorded, entry, early, raced, served,
                  revivals, restarts>>
  BY DEF Park, server, clock, bounds
<1> HIDE DEF p
<1>6. /\ work' \in [Sender -> Work]
      /\ \A s \in Sender : s # f => work'[s] = work[s]
      /\ work'[f].phase \in {"idle", "post"}
      /\ work'[f].batch \subseteq work[f].batch
      /\ work'[f].phase # "idle" => work'[f].batch # {}
  BY <1>2, <1>3, Advanced
<1>7. /\ DOMAIN row' = DOMAIN row
      /\ row' \in [DOMAIN row' -> QueueItem]
      /\ row'[p].status = "failed"
      /\ \A q \in DOMAIN row : q # p => row'[q] = row[q]
  BY <1>2, <1>4, Marked
<1>8. SendersOK' /\ ScreenOK'
  BY <1>2, <1>5, <1>6, <1>7, FlushMoves
<1>9. SyncQueueTypeOK'
  BY <1>5, <1>6, <1>7 DEF SyncQueueTypeOK
<1>10. ConfirmedPunchIsKept' /\ SyncedIsRecorded'
  BY <1>4, <1>5, <1>7 DEF ConfirmedPunchIsKept, SyncedIsRecorded
<1>11. QED
  BY <1>8, <1>9, <1>10

(* An unreachable server ends the flush and touches no item.               *)
LEMMA FlushTimeoutStep ==
    ASSUME IInv, NEW f \in Flusher, FlushTimeout(f)
    PROVE  IInv'
<1> USE DEF IInv
<1>1. f \in Sender /\ f # Screen /\ Screen \in Sender
  BY SyncQueueAssumption DEF Sender
<1>2. /\ UNCHANGED <<type, confirmed, service, row, recorded, entry, early, raced, served,
                     revivals, restarts>>
      /\ work' = [work EXCEPT ![f] = Idle]
  BY DEF FlushTimeout, server, clock, bounds
<1>3. /\ WireOK'
      /\ \A r \in wire' : r.from \in Sender => r \in wire /\ r.from # f
  BY <1>1, <1>2, GivenUp DEF FlushTimeout
<1>4. work' \in [Sender -> Work] /\ SendersOK'
  BY <1>1, <1>2, <1>3, SenderLeaves
<1>5. SyncQueueTypeOK' /\ ScreenOK'
  <2>1. work'[Screen] = work[Screen]
    BY <1>1, <1>2 DEF SyncQueueTypeOK
  <2>2. QED
    BY <1>2, <1>3, <1>4, <2>1, ScreenStands DEF SyncQueueTypeOK, WireOK
<1>6. ConfirmedPunchIsKept' /\ SyncedIsRecorded'
  BY <1>2 DEF ConfirmedPunchIsKept, SyncedIsRecorded
<1>7. QED
  BY <1>4, <1>5, <1>6

(* Try again revives failed items only.                                    *)
LEMMA RequeueStep ==
    ASSUME IInv, NEW p \in Punch, Requeue(p)
    PROVE  IInv'
<1> DEFINE item == [status |-> "pending", retryCount |-> 0]
<1> USE DEF IInv
<1>1. row \in [DOMAIN row -> QueueItem] /\ p \in DOMAIN row
  BY DEF SyncQueueTypeOK, Requeue, Failed
<1>2. item \in QueueItem /\ item.status = "pending"
  BY DEF QueueItem
<1>3. row' = [row EXCEPT ![p] = item]
  BY DEF Requeue
<1> HIDE DEF item
<1>4. /\ DOMAIN row' = DOMAIN row
      /\ row' \in [DOMAIN row' -> QueueItem]
      /\ row'[p] = item
      /\ \A q \in DOMAIN row : q # p => row'[q] = row[q]
  BY <1>1, <1>2, <1>3
<1>5. UNCHANGED <<type, confirmed, service, work, wire, recorded, entry, early, raced,
                  served, restarts>>
  BY DEF Requeue, server, clock
<1>6. revivals' \in 0..MaxRevivals
  BY SyncQueueAssumption DEF Requeue, SyncQueueTypeOK
<1>7. SyncQueueTypeOK'
  BY <1>4, <1>5, <1>6 DEF SyncQueueTypeOK
<1>8. SendersOK' /\ ScreenOK'
  BY <1>4, <1>5 DEF SendersOK, InHand, OneEach, ScreenOK
<1>9. ConfirmedPunchIsKept' /\ SyncedIsRecorded'
  BY <1>2, <1>4, <1>5 DEF ConfirmedPunchIsKept, SyncedIsRecorded
<1>10. QED
  BY <1>7, <1>8, <1>9

(* Once the database is open the screen has a queue for its punches.       *)
LEMMA BootstrapStep ==
    ASSUME IInv, Bootstrap
    PROVE  IInv'
<1>1. /\ service' = TRUE
      /\ UNCHANGED <<type, confirmed, row, work, wire, recorded, entry, early, raced, served,
                     revivals, restarts>>
  BY DEF Bootstrap, server, clock, bounds
<1>2. QED
  BY <1>1 DEF IInv, SyncQueueTypeOK, SendersOK, OneEach, InHand, ScreenOK,
              ConfirmedPunchIsKept, SyncedIsRecorded

(* A restart forgets the senders, never an item.                           *)
LEMMA RestartStep ==
    ASSUME IInv, Restart
    PROVE  IInv'
<1> USE DEF IInv
<1>1. UNCHANGED <<type, confirmed, row, recorded, entry, early, raced, served, revivals>>
  BY DEF Restart, server, clock
<1>2. Idle \in Work /\ Idle.phase = "idle" /\ Idle.batch = {}
  BY DEF Work, Idle
<1>3. work' \in [Sender -> Work] /\ \A s \in Sender : work'[s] = Idle
  BY <1>2 DEF Restart
<1>4. wire' = {Left(r) : r \in wire}
  BY DEF Restart
<1>5. WireOK' /\ \A r \in wire' : r.from = Nobody
  BY <1>1, <1>4, LeftIs DEF SyncQueueTypeOK, WireOK
<1>6. \A r \in wire' : r.from \notin Sender
  BY <1>5, SyncQueueAssumption DEF Sender
<1>7. restarts' \in 0..MaxRestarts
  BY SyncQueueAssumption DEF Restart, SyncQueueTypeOK
<1>8. SyncQueueTypeOK' /\ ScreenOK'
  <2>1. service' = FALSE /\ Screen \in Sender
    BY DEF Restart, Sender
  <2>2. QED
    BY <1>1, <1>2, <1>3, <1>5, <1>7, <2>1 DEF SyncQueueTypeOK, WireOK, ScreenOK
<1>9. SendersOK'
  BY <1>2, <1>3, <1>6 DEF SendersOK, Sender, OneEach
<1>10. ConfirmedPunchIsKept' /\ SyncedIsRecorded'
  BY <1>1 DEF ConfirmedPunchIsKept, SyncedIsRecorded
<1>11. QED
  BY <1>8, <1>9, <1>10

-----------------------------------------------------------------------------
(* The theorems.                                                           *)

\* The invariant holds in an empty queue.
LEMMA InitIInv == Init => IInv
<1> SUFFICES ASSUME Init PROVE IInv
  OBVIOUS
<1>1. Idle \in Work /\ Idle.phase = "idle" /\ Idle.batch = {}
  BY DEF Work, Idle
<1>2. SyncQueueTypeOK
  <2>1. type \in Seq({"in", "out"}) /\ Len(type) = 0 /\ entry \in Seq(Entry)
    BY DEF Init
  <2>2. DOMAIN row = {} /\ row \in [DOMAIN row -> QueueItem]
    BY DEF Init
  <2>3. served \in [Punch -> 0..MaxRetries] /\ work \in [Sender -> Work]
    BY <1>1, SyncQueueAssumption DEF Init
  <2>4. 0 \in 0..MaxRevivals /\ 0 \in 0..MaxRestarts /\ Len(type) <= NumPunches
    BY <2>1, SyncQueueAssumption
  <2>5. QED
    BY <2>1, <2>2, <2>3, <2>4 DEF Init, SyncQueueTypeOK
<1>3. SendersOK /\ ScreenOK
  BY <1>1 DEF Init, SendersOK, ScreenOK, OneEach, Sender
<1>4. ConfirmedPunchIsKept /\ SyncedIsRecorded
  BY DEF Init, ConfirmedPunchIsKept, SyncedIsRecorded
<1>5. QED
  BY <1>2, <1>3, <1>4 DEF IInv

\* The invariant is inductive.
LEMMA NextIInv == IInv /\ [Next]_vars => IInv'
<1> SUFFICES ASSUME IInv, [Next]_vars PROVE IInv'
  OBVIOUS
<1>1. CASE \E t \in {"in", "out"} : PerformPunch(t)
  BY <1>1, PunchStep
<1>2. CASE ScreenAnswered \/ ScreenTimeout
  BY <1>2, ScreenStep
<1>3. ASSUME NEW f \in Flusher, Flush(f)
      PROVE  IInv'
  <2>1. CASE \E waiting \in SUBSET Pending : StartFlush(f, waiting)
    BY <2>1, StartFlushStep
  <2>2. CASE Post(f)
    BY <2>2, PostStep
  <2>3. CASE FlushAnswered(f)
    BY <2>3, FlushAnsweredStep
  <2>4. CASE Park(f)
    BY <2>4, ParkStep
  <2>5. CASE FlushTimeout(f)
    BY <2>5, FlushTimeoutStep
  <2>6. QED
    BY <1>3, <2>1, <2>2, <2>3, <2>4, <2>5 DEF Flush
<1>4. CASE \E p \in Punch : Requeue(p)
  BY <1>4, RequeueStep
<1>5. CASE Restart
  BY <1>5, RestartStep
<1>6. CASE Server
  BY <1>6, ServerStep
<1>7. CASE UNCHANGED vars
  BY <1>7 DEF vars, device, server, clock, bounds, IInv, SyncQueueTypeOK, SendersOK, OneEach,
              ScreenOK, InHand,
              ConfirmedPunchIsKept, SyncedIsRecorded
<1>8. CASE Bootstrap
  BY <1>8, BootstrapStep
<1>9. QED
  BY <1>1, <1>2, <1>3, <1>4, <1>5, <1>6, <1>7, <1>8 DEF Next

(* Every reachable state is well typed: in particular a flush only marks   *)
(* items that are in the queue, and no item is dropped from it.            *)
THEOREM QueueTypeCorrect == Spec => []SyncQueueTypeOK
<1>1. IInv => SyncQueueTypeOK
  BY DEF IInv
<1>2. QED
  BY InitIInv, NextIInv, <1>1, PTL DEF Spec

(* No punch made with the sync service running is lost once the worker was *)
(* told of it: performPunch returns only when the server has the punch or  *)
(* the queue has it, and neither forgets.                                  *)
THEOREM NoPunchIsLost == Spec => []ConfirmedPunchIsKept
<1>1. IInv => ConfirmedPunchIsKept
  BY DEF IInv
<1>2. QED
  BY InitIInv, NextIInv, <1>1, PTL DEF Spec

(* What the queue considers done has been delivered, however flushes       *)
(* overlap and whatever gets lost.                                         *)
THEOREM SyncedWasDelivered == Spec => []SyncedIsRecorded
<1>1. IInv => SyncedIsRecorded
  BY DEF IInv
<1>2. QED
  BY InitIInv, NextIInv, <1>1, PTL DEF Spec

-----------------------------------------------------------------------------
(* Entries.                                                                *)

\* Of a punch that is not raced one request at most is past the lookup, and
\* none once it is recorded.
RacesSeen ==
    /\ \A q, r \in InProgress : q.punch = r.punch => q = r \/ q.punch \in raced
    /\ \A r \in InProgress : r.punch \in recorded => r.punch \in raced

\* The ends of the entries are recorded punches.
EntriesOK ==
    /\ RacesSeen
    /\ \A e \in DOMAIN entry : Ends(e) \subseteq recorded
    /\ PunchCountsOnce

(* Requests that only change hands, go on or leave do not race anew.       *)
LEMMA RacesStay ==
    ASSUME RacesSeen, UNCHANGED <<recorded, raced>>,
           NEW img, \A x \in wire' : \E r \in wire : x = img[r],
           \A r \in wire : img[r].punch = r.punch /\ (img[r].at = "sent" \/ r.at # "sent")
    PROVE  RacesSeen'
<1>1. ASSUME NEW x \in InProgress'
      PROVE  \E r \in InProgress : x = img[r] /\ x.punch = r.punch
  <2>1. x \in wire' /\ x.at # "sent"
    BY <1>1 DEF InProgress
  <2>2. PICK r \in wire : x = img[r]
    BY <2>1
  <2>3. r.at # "sent" /\ x.punch = r.punch
    BY <2>1, <2>2
  <2>4. QED
    BY <2>2, <2>3 DEF InProgress
<1>2. QED
  BY <1>1 DEF RacesSeen

(* The write of a request adds its punch to the ends of one entry, and     *)
(* takes away the end it replaces.                                         *)
LEMMA TakeStep ==
    ASSUME IInv, EntriesOK, NEW r \in wire, Take(r)
    PROVE  EntriesOK'
<1> DEFINE p == r.punch
<1>1. /\ p \in Punch /\ 0 \notin Punch /\ r \in InProgress
      /\ entry \in Seq(Entry) /\ recorded \subseteq Punch
      /\ r.at = "found" => r.found \in DOMAIN entry
  BY SyncQueueAssumption DEF IInv, SyncQueueTypeOK, Request, Punch, Take, Insert, Close, InProgress
<1>2. wire' = wire \ {r} /\ recorded' = recorded \cup {p} /\ raced' = raced
  BY DEF Take, Handle
<1>3. p \in recorded => p \in raced
  BY <1>1 DEF EntriesOK, RacesSeen
<1>4. RacesSeen'
  <2>1. InProgress' = InProgress \ {r}
    BY <1>2 DEF InProgress
  <2>2. \A q \in InProgress' : q \in InProgress /\ (q.punch = p => p \in raced)
    BY <1>1, <2>1 DEF EntriesOK, RacesSeen
  <2>3. QED
    BY <1>2, <2>2 DEF EntriesOK, RacesSeen
<1>5. ASSUME NEW e \in DOMAIN entry'
      PROVE  \/ e \in DOMAIN entry /\ Ends(e)' = Ends(e)
             \/ /\ \A q \in Ends(e)' : q # p => e \in DOMAIN entry /\ q \in Ends(e)
                /\ \A d \in DOMAIN entry' : d # e => d \in DOMAIN entry /\ Ends(d)' = Ends(d)
  <2>1. CASE Insert(r)
    <3>1. entry' = Append(entry, [in |-> p, out |-> 0])
      BY <2>1 DEF Insert
    <3>2. PICK n : n = Len(entry) + 1
      OBVIOUS
    <3>3. /\ \A d \in DOMAIN entry' : d # n => d \in DOMAIN entry /\ entry'[d] = entry[d]
          /\ entry'[n] = [in |-> p, out |-> 0]
      BY <1>1, <3>1, <3>2
    <3>4. \A d \in DOMAIN entry' : d # n => d \in DOMAIN entry /\ Ends(d)' = Ends(d)
      BY <3>3 DEF Ends
    <3>5. \A q \in Ends(n)' : q = p
      BY <3>3 DEF Ends
    <3> HIDE DEF p
    <3>6. QED
      BY <3>4, <3>5
  <2>2. CASE Close(r)
    <3> DEFINE f == r.found
               closed == [entry[f] EXCEPT !.out = p]
    <3>1. f \in DOMAIN entry /\ entry[f] \in Entry
      BY <1>1, <2>2 DEF Close
    <3>2. closed.in = entry[f].in /\ closed.out = p
      BY <3>1 DEF Entry
    <3>3. entry' = [entry EXCEPT ![f] = closed]
      BY <2>2 DEF Close
    <3> HIDE DEF closed, f, p
    <3>4. /\ DOMAIN entry' = DOMAIN entry /\ entry'[f] = closed
          /\ \A d \in DOMAIN entry : d # f => entry'[d] = entry[d]
      BY <1>1, <3>1, <3>3
    <3>5. \A d \in DOMAIN entry' : d # f => d \in DOMAIN entry /\ Ends(d)' = Ends(d)
      BY <3>4 DEF Ends
    <3>6. \A q \in Ends(f)' : q # p => f \in DOMAIN entry /\ q \in Ends(f)
      BY <3>1, <3>2, <3>4 DEF Ends
    <3>7. QED
      BY <3>5, <3>6
  <2>3. QED
    BY <2>1, <2>2 DEF Take
<1>6. ASSUME NEW e \in DOMAIN entry'
      PROVE  Ends(e)' \subseteq recorded'
  BY <1>2, <1>5, <1>6 DEF EntriesOK
<1>7. PunchCountsOnce'
  <2> SUFFICES ASSUME NEW d \in DOMAIN entry', NEW e \in DOMAIN entry', d # e,
                      NEW q \in Ends(d)', q \in Ends(e)'
               PROVE  q \in raced
    BY <1>2 DEF PunchCountsOnce
  <2>1. CASE d \in DOMAIN entry /\ Ends(d)' = Ends(d) /\ e \in DOMAIN entry /\ Ends(e)' = Ends(e)
    BY <2>1 DEF EntriesOK, PunchCountsOnce
  <2>2. CASE /\ \A x \in Ends(e)' : x # p => e \in DOMAIN entry /\ x \in Ends(e)
             /\ d \in DOMAIN entry /\ Ends(d)' = Ends(d)
    BY <1>3, <2>2 DEF EntriesOK, PunchCountsOnce
  <2>3. CASE /\ \A x \in Ends(d)' : x # p => d \in DOMAIN entry /\ x \in Ends(d)
             /\ e \in DOMAIN entry /\ Ends(e)' = Ends(e)
    BY <1>3, <2>3 DEF EntriesOK, PunchCountsOnce
  <2>4. QED
    BY <1>5, <2>1, <2>2, <2>3
<1>8. QED
  BY <1>4, <1>6, <1>7 DEF EntriesOK

(* A lookup that finds another request of its punch past the lookup has    *)
(* raced it.                                                               *)
LEMMA LookUpStep ==
    ASSUME EntriesOK, NEW r \in wire, LookUp(r)
    PROVE  RacesSeen' /\ UNCHANGED <<recorded, entry>> /\ raced \subseteq raced'
<1> DEFINE next == [r EXCEPT !.at = "looked"]
<1>1. /\ wire' = (wire \ {r}) \cup {next} /\ UNCHANGED <<recorded, entry>>
      /\ r.punch \notin recorded
      /\ raced' = IF \E q \in InProgress : q.punch = r.punch
                  THEN raced \cup {r.punch} ELSE raced
  BY DEF LookUp, Proceed, clock
<1>2. next.punch = r.punch
  OBVIOUS
<1>3. InProgress' \subseteq InProgress \cup {next}
  BY <1>1 DEF InProgress
<1> HIDE DEF next
<1>4. QED
  BY <1>1, <1>2, <1>3 DEF EntriesOK, RacesSeen

\* No step makes a punch an end of a second entry, but for raced ones.
LEMMA NextEntriesOK == IInv /\ EntriesOK /\ [Next]_vars => EntriesOK'
<1> SUFFICES ASSUME IInv, EntriesOK, [Next]_vars PROVE EntriesOK'
  OBVIOUS
<1>1. ASSUME RacesSeen', UNCHANGED <<recorded, entry>>, raced \subseteq raced'
      PROVE  EntriesOK'
  BY <1>1 DEF EntriesOK, PunchCountsOnce, Ends
<1>2. ASSUME wire' \subseteq wire, UNCHANGED <<recorded, entry, raced>>
      PROVE  EntriesOK'
  BY <1>1, <1>2 DEF EntriesOK, RacesSeen, InProgress
<1>3. CASE Server
  <2>1. PICK r \in wire : LookUp(r) \/ FindOpen(r) \/ Reply(r)
    BY <1>3 DEF Server
  <2>2. CASE LookUp(r)
    BY <1>1, <2>2, LookUpStep
  <2>3. CASE FindOpen(r)
    <3>1. PICK e \in OpenEntries : Proceed(r, [r EXCEPT !.at = "found", !.found = e])
      BY <2>3 DEF FindOpen
    <3> DEFINE next == [r EXCEPT !.at = "found", !.found = e]
               img == [q \in wire |-> IF q = r THEN next ELSE q]
    <3>2. /\ wire' = (wire \ {r}) \cup {next} /\ UNCHANGED <<recorded, entry, raced>>
          /\ r.at # "sent"
      BY <2>3, <3>1 DEF FindOpen, Proceed, clock
    <3>3. next.punch = r.punch
      OBVIOUS
    <3>4. /\ \A x \in wire' : \E q \in wire : x = img[q]
          /\ \A q \in wire : img[q].punch = q.punch /\ (img[q].at = "sent" \/ q.at # "sent")
      <4> HIDE DEF next
      <4> QED
        BY <3>2, <3>3
    <3> HIDE DEF img, next
    <3>5. RacesSeen'
      BY <3>2, <3>4, RacesStay DEF EntriesOK
    <3>6. QED
      BY <1>1, <3>2, <3>5
  <2>4. CASE Take(r)
    BY <2>4, TakeStep
  <2>5. CASE Replay(r) \/ Refuse(r) \/ TurnDown(r)
    <3>1. wire' \subseteq wire /\ UNCHANGED <<recorded, entry, raced>>
      BY <2>5 DEF Replay, Refuse, TurnDown, Handle, clock
    <3>2. QED
      BY <1>2, <3>1
  <2>6. QED
    BY <2>1, <2>2, <2>3, <2>4, <2>5 DEF Reply
<1>4. CASE \/ \E t \in {"in", "out"} : PerformPunch(t)
           \/ \E f \in Flusher : Post(f)
  <2>1. PICK s, p : wire' = wire \cup {Sent(s, p)} /\ UNCHANGED <<recorded, entry, raced>>
    BY <1>4 DEF PerformPunch, Post, server, clock
  <2>2. Sent(s, p).at = "sent"
    BY DEF Sent
  <2>3. InProgress' = InProgress
    BY <2>1, <2>2 DEF InProgress
  <2>4. QED
    BY <1>1, <2>1, <2>3 DEF EntriesOK, RacesSeen
<1>5. ASSUME NEW s \in Sender, GiveUp(s), UNCHANGED <<recorded, entry, raced>>
      PROVE  EntriesOK'
  <2> DEFINE img == [r \in wire |-> IF r.from = s THEN Left(r) ELSE r]
  <2>1. /\ \A x \in wire' : \E r \in wire : x = img[r]
        /\ \A r \in wire : img[r].punch = r.punch /\ (img[r].at = "sent" \/ r.at # "sent")
    BY <1>5, LeftIs DEF GiveUp, IInv, SyncQueueTypeOK
  <2> HIDE DEF img
  <2>2. QED
    BY <1>1, <1>5, <2>1, RacesStay DEF EntriesOK
<1>6. CASE Restart
  <2> DEFINE img == [r \in wire |-> Left(r)]
  <2>1. /\ \A x \in wire' : \E r \in wire : x = img[r]
        /\ \A r \in wire : img[r].punch = r.punch /\ (img[r].at = "sent" \/ r.at # "sent")
    BY <1>6, LeftIs DEF Restart, IInv, SyncQueueTypeOK
  <2>2. UNCHANGED <<recorded, entry, raced>>
    BY <1>6 DEF Restart, server, clock
  <2> HIDE DEF img
  <2>3. QED
    BY <1>1, <2>1, <2>2, RacesStay DEF EntriesOK
<1>7. CASE ScreenTimeout \/ \E f \in Flusher : FlushTimeout(f)
  BY <1>5, <1>7 DEF ScreenTimeout, FlushTimeout, Confirm, server, clock, Sender
<1>8. CASE \/ UNCHANGED vars \/ Bootstrap \/ ScreenAnswered
           \/ \E p \in Punch : Requeue(p)
           \/ \E f \in Flusher :
                 \/ \E waiting \in SUBSET Pending : StartFlush(f, waiting)
                 \/ FlushAnswered(f)
                 \/ Park(f)
  <2>1. wire' = wire /\ UNCHANGED <<recorded, entry, raced>>
    BY <1>8 DEF vars, device, server, clock, Bootstrap, ScreenAnswered, Confirm, Requeue,
                StartFlush, FlushAnswered, Park
  <2>2. QED
    BY <1>2, <2>1
<1>9. QED
  BY <1>3, <1>4, <1>6, <1>7, <1>8 DEF Next, Flush

(* No punch makes an end of two entries, whatever is resent, delayed or    *)
(* duplicated, unless two of its requests were past the lookup at once.    *)
THEOREM NoPunchCountsTwice == Spec => []PunchCountsOnce
<1>1. Init => EntriesOK
  BY DEF Init, EntriesOK, RacesSeen, InProgress, PunchCountsOnce
<1>2. EntriesOK => PunchCountsOnce
  BY DEF EntriesOK
<1>3. QED
  BY <1>1, <1>2, InitIInv, NextIInv, NextEntriesOK, PTL DEF Spec

-----------------------------------------------------------------------------
(* The retry budget.                                                       *)

\* The flushes that have an answer for p and have not dealt with it.
AnsweredFor(p) == {f \in Flusher : work[f].phase = "answered" /\ InHand(f) = p}

\* Every retry counted, and every answer about to be counted, is a request
\* that the server handled.
BudgetOK ==
    /\ \A p \in DOMAIN row :
          \/ served[p] = MaxRetries
          \/ row[p].retryCount + Cardinality(AnsweredFor(p)) <= served[p]
    /\ \A f \in Flusher : work[f].phase = "park" => served[InHand(f)] = MaxRetries
    /\ OutageCostsNothing

(* Subsets of the flushes are finite, and smaller ones have fewer members. *)
LEMMA CountFlushes ==
    ASSUME NEW S \in SUBSET Flusher, NEW T \in SUBSET S
    PROVE  /\ IsFiniteSet(S) /\ IsFiniteSet(T)
           /\ Cardinality(S) \in Nat /\ Cardinality(T) \in Nat
           /\ Cardinality(T) <= Cardinality(S)
<1>1. IsFiniteSet(S)
  BY SyncQueueAssumption, FS_Subset
<1>2. QED
  BY <1>1, FS_Subset, FS_CardinalityType

(* The item that a flush has in hand is in the queue.                      *)
LEMMA InHandIsQueued ==
    ASSUME IInv, NEW f \in Flusher, work[f].phase # "idle"
    PROVE  InHand(f) \in DOMAIN row /\ InHand(f) \in Punch
<1>1. f \in Sender /\ work[f] \in Work
  BY DEF IInv, SyncQueueTypeOK, Sender
<1>2. work[f].batch # {} /\ work[f].batch \subseteq DOMAIN row /\ work[f].batch \in SUBSET Punch
  BY <1>1 DEF IInv, SendersOK, Work
<1>3. QED
  BY <1>2, OldestIsIn DEF InHand

(* A step that hands out no answer, counts no retry and parks no item      *)
(* before its time leaves the budgets as they are.                         *)
LEMMA BudgetStands ==
    ASSUME IInv, IInv', BudgetOK, served' = served,
           \A f \in Flusher : work'[f].phase = "answered" =>
              work[f].phase = "answered" /\ InHand(f)' = InHand(f),
           \A f \in Flusher : work'[f].phase = "park" =>
              work[f].phase = "park" /\ InHand(f)' = InHand(f),
           \A p \in DOMAIN row' :
              \/ p \in DOMAIN row /\ row'[p].retryCount = row[p].retryCount
              \/ row'[p].retryCount = 0 /\ (p \notin DOMAIN row \/ served[p] = MaxRetries),
           \A p \in DOMAIN row' : row'[p].status = "failed" =>
              served[p] = MaxRetries \/ (p \in DOMAIN row /\ row[p].status = "failed")
    PROVE  BudgetOK'
<1>1. ASSUME NEW p \in DOMAIN row'
      PROVE  served'[p] = MaxRetries
             \/ row'[p].retryCount + Cardinality(AnsweredFor(p)') <= served'[p]
  <2>1. AnsweredFor(p) \in SUBSET Flusher /\ AnsweredFor(p)' \in SUBSET AnsweredFor(p)
    BY DEF AnsweredFor
  <2>2. /\ Cardinality(AnsweredFor(p)) \in Nat /\ Cardinality(AnsweredFor(p)') \in Nat
        /\ Cardinality(AnsweredFor(p)') <= Cardinality(AnsweredFor(p))
    BY <2>1, CountFlushes
  <2>3. p \in Punch /\ served[p] \in 0..MaxRetries /\ MaxRetries \in Nat
    BY SyncQueueAssumption DEF IInv, SyncQueueTypeOK
  <2>4. CASE p \in DOMAIN row /\ row'[p].retryCount = row[p].retryCount
    <3>1. row[p].retryCount \in Nat
      BY <2>4 DEF IInv, SyncQueueTypeOK, QueueItem
    <3>2. served[p] = MaxRetries
          \/ row[p].retryCount + Cardinality(AnsweredFor(p)) <= served[p]
      BY <2>4 DEF BudgetOK
    <3>3. QED
      BY <2>2, <2>3, <2>4, <3>1, <3>2
  <2>5. CASE row'[p].retryCount = 0 /\ p \notin DOMAIN row
    <3>1. AnsweredFor(p) = {}
      BY <2>5, InHandIsQueued DEF AnsweredFor
    <3>2. Cardinality(AnsweredFor(p)') = 0
      BY <2>1, <3>1, FS_EmptySet
    <3>3. QED
      BY <2>3, <2>5, <3>2
  <2>6. QED
    BY <2>4, <2>5
<1>2. ASSUME NEW f \in Flusher, work'[f].phase = "park"
      PROVE  served'[InHand(f)'] = MaxRetries
  BY <1>2 DEF BudgetOK
<1>3. OutageCostsNothing'
  BY DEF BudgetOK, OutageCostsNothing, Failed
<1>4. QED
  BY <1>1, <1>2, <1>3 DEF BudgetOK

(* A request that is handled adds to the budget what its answer may take.  *)
LEMMA BudgetServed ==
    ASSUME IInv, IInv', BudgetOK, NEW req \in wire, NEW s, NEW p, s = req.from,
           p = req.punch, NEW answer, Handle(req, answer)
    PROVE  BudgetOK'
<1>1. /\ served \in [Punch -> 0..MaxRetries] /\ work \in [Sender -> Work] /\ MaxRetries \in Nat
      /\ row' = row /\ Nobody \notin Sender
      /\ s \in Sender \cup {Nobody} /\ p \in Punch
  BY SyncQueueAssumption DEF IInv, SyncQueueTypeOK, Request, Handle, Sender
<1>2. /\ \A q \in Punch : q # p => served'[q] = served[q]
      /\ served'[p] = IF served[p] < MaxRetries THEN served[p] + 1 ELSE served[p]
  BY <1>1 DEF Handle
<1>3. /\ \A r \in Sender : r # s => work'[r] = work[r]
      /\ s \in Sender => work'[s].phase = "answered" /\ work'[s].batch = work[s].batch
  <2>1. CASE s = Nobody
    BY <1>1, <2>1 DEF Handle
  <2>2. CASE s # Nobody
    <3> DEFINE w == [work[s] EXCEPT !.phase = "answered", !.answer = answer]
    <3>1. work[s] \in Work
      BY <1>1, <2>2
    <3>2. w.phase = "answered" /\ w.batch = work[s].batch
      BY <3>1 DEF Work
    <3>3. work' = [work EXCEPT ![s] = w]
      BY <1>1, <2>2 DEF Handle
    <3>4. QED
      <4> HIDE DEF w
      <4> QED
        BY <1>1, <2>2, <3>2, <3>3
  <2>3. QED
    BY <2>1, <2>2
<1>4. s \in Sender => InHand(s) = p
  BY <1>1 DEF IInv, SendersOK
<1>5. \A f \in Flusher : f \in Sender /\ InHand(f)' = InHand(f)
  BY <1>3 DEF Sender, InHand
<1>6. ASSUME NEW q \in DOMAIN row'
      PROVE  served'[q] = MaxRetries
             \/ row'[q].retryCount + Cardinality(AnsweredFor(q)') <= served'[q]
  <2>1. q \in DOMAIN row /\ q \in Punch /\ row[q].retryCount \in Nat
    BY <1>1 DEF IInv, SyncQueueTypeOK, QueueItem
  <2>2. served[q] = MaxRetries
        \/ row[q].retryCount + Cardinality(AnsweredFor(q)) <= served[q]
    BY <2>1 DEF BudgetOK
  <2>3. CASE q = p
    <3>1. AnsweredFor(q) \in SUBSET Flusher /\ AnsweredFor(q)' \subseteq AnsweredFor(q) \cup {s}
      BY <1>3, <1>5 DEF AnsweredFor
    <3>2. IsFiniteSet(AnsweredFor(q)) /\ Cardinality(AnsweredFor(q)) \in Nat
      BY <3>1, CountFlushes
    <3>3. /\ Cardinality(AnsweredFor(q)') \in Nat
          /\ Cardinality(AnsweredFor(q)') <= Cardinality(AnsweredFor(q)) + 1
      <4>1. /\ IsFiniteSet(AnsweredFor(q) \cup {s})
            /\ Cardinality(AnsweredFor(q) \cup {s}) \in Nat
            /\ Cardinality(AnsweredFor(q) \cup {s}) <= Cardinality(AnsweredFor(q)) + 1
        <5> DEFINE A == AnsweredFor(q)
        <5> HIDE DEF A
        <5>1. IsFiniteSet(A) /\ Cardinality(A) \in Nat
          BY <3>2 DEF A
        <5>2. /\ IsFiniteSet(A \cup {s})
              /\ Cardinality(A \cup {s}) \in {Cardinality(A), Cardinality(A) + 1}
          BY <5>1, FS_AddElement
        <5>3. QED
          BY <5>1, <5>2 DEF A
      <4>2. /\ IsFiniteSet(AnsweredFor(q)')
            /\ Cardinality(AnsweredFor(q)') <= Cardinality(AnsweredFor(q) \cup {s})
        BY <3>1, <4>1, FS_Subset
      <4>3. Cardinality(AnsweredFor(q)') \in Nat
        BY <4>2, FS_CardinalityType
      <4>4. QED
        BY <3>2, <4>1, <4>2, <4>3
    <3>4. served[q] \in 0..MaxRetries
      BY <1>1, <2>1
    <3>5. QED
      BY <1>1, <1>2, <2>1, <2>2, <2>3, <3>2, <3>3, <3>4
  <2>4. CASE q # p
    <3>1. AnsweredFor(q)' = AnsweredFor(q)
      <4>1. ASSUME NEW f \in Flusher
            PROVE  work'[f].phase = "answered" /\ InHand(f)' = q
                     <=> work[f].phase = "answered" /\ InHand(f) = q
        BY <1>3, <1>4, <1>5, <2>4
      <4>2. QED
        BY <4>1 DEF AnsweredFor
    <3>2. QED
      BY <1>1, <1>2, <2>1, <2>2, <2>4, <3>1
  <2>5. QED
    BY <2>3, <2>4
<1>7. ASSUME NEW q \in Punch, served[q] = MaxRetries
      PROVE  served'[q] = MaxRetries
  BY <1>1, <1>2, <1>7
<1>8. ASSUME NEW f \in Flusher, work'[f].phase = "park"
      PROVE  served'[InHand(f)'] = MaxRetries
  <2>1. f # s /\ work[f].phase = "park" /\ InHand(f)' = InHand(f)
    BY <1>3, <1>5, <1>8
  <2>2. served[InHand(f)] = MaxRetries /\ InHand(f) \in Punch
    BY <2>1, InHandIsQueued DEF BudgetOK
  <2>3. QED
    BY <1>7, <2>1, <2>2
<1>9. OutageCostsNothing'
  <2>1. Failed' = Failed /\ Failed \subseteq Punch
    BY <1>1 DEF Failed, IInv, SyncQueueTypeOK
  <2>2. QED
    BY <1>7, <2>1 DEF BudgetOK, OutageCostsNothing
<1>10. QED
  BY <1>6, <1>8, <1>9 DEF BudgetOK

(* A retry is counted when its answer is dealt with; the last one allowed  *)
(* finds the budget used up.                                               *)
LEMMA BudgetAnswered ==
    ASSUME IInv, IInv', BudgetOK, NEW f \in Flusher, FlushAnswered(f),
           NEW p, p = InHand(f)
    PROVE  BudgetOK'
<1>1. /\ p \in DOMAIN row /\ p \in Punch /\ f \in Sender /\ work[f] \in Work
      /\ work[f].phase = "answered" /\ served' = served
      /\ row \in [DOMAIN row -> QueueItem] /\ served[p] \in 0..MaxRetries /\ MaxRetries \in Nat
      /\ work \in [Sender -> Work]
  BY InHandIsQueued, SyncQueueAssumption
     DEF FlushAnswered, IInv, SyncQueueTypeOK, Sender, server
<1>2. /\ \A g \in Flusher : g # f => work'[g] = work[g]
      /\ work'[f].phase \in {"idle", "post"}
         \/ /\ work'[f].phase = "park" /\ work'[f].batch = work[f].batch
            /\ RecordRetry(p) /\ row'[p].retryCount >= MaxRetries
  <2>1. CASE Advance(f)
    BY <2>1, Advanced DEF IInv, Sender
  <2>2. CASE /\ work' = [work EXCEPT ![f].phase = "park"]
             /\ RecordRetry(p) /\ row'[p].retryCount >= MaxRetries
    <3> DEFINE w == [work[f] EXCEPT !.phase = "park"]
    <3>1. w.phase = "park" /\ w.batch = work[f].batch
      BY <1>1 DEF Work
    <3>2. work' = [work EXCEPT ![f] = w]
      BY <1>1, <2>2
    <3> HIDE DEF w
    <3>3. QED
      BY <1>1, <2>2, <3>1, <3>2 DEF Sender
  <2>3. QED
    BY <2>1, <2>2 DEF FlushAnswered
<1>3. ASSUME NEW q \in DOMAIN row
      PROVE  /\ AnsweredFor(q) \in SUBSET Flusher /\ AnsweredFor(q)' \in SUBSET AnsweredFor(q)
             /\ Cardinality(AnsweredFor(q)) \in Nat /\ Cardinality(AnsweredFor(q)') \in Nat
             /\ Cardinality(AnsweredFor(q)') <= Cardinality(AnsweredFor(q))
  <2>1. AnsweredFor(q) \in SUBSET Flusher /\ AnsweredFor(q)' \in SUBSET AnsweredFor(q)
    BY <1>2 DEF AnsweredFor, InHand
  <2>2. QED
    BY <2>1, CountFlushes
<1>4. Cardinality(AnsweredFor(p)') + 1 <= Cardinality(AnsweredFor(p))
  <2>1. f \in AnsweredFor(p) /\ AnsweredFor(p)' \subseteq AnsweredFor(p) \ {f}
    <3>1. \A g \in Flusher : work'[g].phase = "answered" => g # f /\ work'[g] = work[g]
      BY <1>2
    <3>2. f \in AnsweredFor(p)
      BY <1>1 DEF AnsweredFor
    <3>3. QED
      BY <3>1, <3>2 DEF AnsweredFor, InHand
  <2>2. IsFiniteSet(AnsweredFor(p))
    BY <1>1, <1>3, CountFlushes
  <2>3. /\ IsFiniteSet(AnsweredFor(p) \ {f})
        /\ Cardinality(AnsweredFor(p) \ {f}) = Cardinality(AnsweredFor(p)) - 1
    BY <2>1, <2>2, FS_RemoveElement
  <2>4. Cardinality(AnsweredFor(p)') <= Cardinality(AnsweredFor(p) \ {f})
    BY <2>1, <2>3, FS_Subset
  <2>5. QED
    <3>1. Cardinality(AnsweredFor(p)) \in Nat /\ Cardinality(AnsweredFor(p)') \in Nat
      BY <1>1, <1>3
    <3>2. QED
      BY <2>3, <2>4, <3>1
<1>5. /\ DOMAIN row' = DOMAIN row
      /\ \A q \in DOMAIN row : q # p => row'[q] = row[q]
      /\ \/ row'[p].status \in {"synced", "conflict"} /\ row'[p].retryCount = row[p].retryCount
         \/ /\ RecordRetry(p)
            /\ row'[p].status = row[p].status /\ row'[p].retryCount = row[p].retryCount + 1
  <2>1. ASSUME NEW status \in {"synced", "conflict"}, Mark(p, status)
        PROVE  /\ DOMAIN row' = DOMAIN row
               /\ \A q \in DOMAIN row : q # p => row'[q] = row[q]
               /\ row'[p].status = status /\ row'[p].retryCount = row[p].retryCount
    <3> DEFINE item == [row[p] EXCEPT !.status = status]
    <3>1. item.status = status /\ item.retryCount = row[p].retryCount
      BY <1>1 DEF QueueItem
    <3>2. row' = [row EXCEPT ![p] = item]
      BY <1>1, <2>1 DEF Mark
    <3> HIDE DEF item
    <3>3. QED
      BY <1>1, <3>1, <3>2
  <2>2. ASSUME RecordRetry(p)
        PROVE  /\ DOMAIN row' = DOMAIN row
               /\ \A q \in DOMAIN row : q # p => row'[q] = row[q]
               /\ row'[p].status = row[p].status /\ row'[p].retryCount = row[p].retryCount + 1
    <3> DEFINE item == [row[p] EXCEPT !.retryCount = row[p].retryCount + 1]
    <3>1. item.status = row[p].status /\ item.retryCount = row[p].retryCount + 1
      BY <1>1 DEF QueueItem
    <3>2. row' = [row EXCEPT ![p] = item]
      BY <1>1, <2>2 DEF RecordRetry
    <3> HIDE DEF item
    <3>3. QED
      BY <1>1, <3>1, <3>2
  <2>3. QED
    BY <2>1, <2>2 DEF FlushAnswered
<1>6. \A q \in DOMAIN row : row[q].retryCount \in Nat
  BY <1>1 DEF QueueItem
<1>7. served[p] = MaxRetries
      \/ row[p].retryCount + Cardinality(AnsweredFor(p)) <= served[p]
  BY <1>1 DEF BudgetOK
<1>8. ASSUME NEW q \in DOMAIN row'
      PROVE  served'[q] = MaxRetries
             \/ row'[q].retryCount + Cardinality(AnsweredFor(q)') <= served'[q]
  <2>1. CASE q = p
    <3>1. /\ row[p].retryCount \in Nat /\ row'[p].retryCount \in {row[p].retryCount, row[p].retryCount + 1}
          /\ Cardinality(AnsweredFor(p)) \in Nat /\ Cardinality(AnsweredFor(p)') \in Nat
      BY <1>1, <1>3, <1>5, <1>6
    <3>2. served[p] = MaxRetries
          \/ row'[p].retryCount + Cardinality(AnsweredFor(p)') <= served[p]
      BY <1>1, <1>4, <1>7, <3>1
    <3>3. QED
      BY <1>1, <2>1, <3>2
  <2>2. CASE q # p
    <3>1. q \in DOMAIN row /\ row'[q] = row[q] /\ row[q].retryCount \in Nat
      BY <1>5, <1>6, <2>2
    <3>2. served[q] \in 0..MaxRetries
      BY <3>1 DEF IInv, SyncQueueTypeOK
    <3>3. served[q] = MaxRetries
          \/ row[q].retryCount + Cardinality(AnsweredFor(q)) <= served[q]
      BY <3>1 DEF BudgetOK
    <3>4. /\ Cardinality(AnsweredFor(q)) \in Nat /\ Cardinality(AnsweredFor(q)') \in Nat
          /\ Cardinality(AnsweredFor(q)') <= Cardinality(AnsweredFor(q))
      BY <1>3, <3>1
    <3>5. QED
      BY <1>1, <3>1, <3>2, <3>3, <3>4
  <2>3. QED
    BY <2>1, <2>2
<1>9. ASSUME NEW g \in Flusher, work'[g].phase = "park"
      PROVE  served'[InHand(g)'] = MaxRetries
  <2>1. CASE g # f
    <3>1. work[g].phase = "park" /\ InHand(g)' = InHand(g)
      BY <1>2, <1>9, <2>1 DEF InHand
    <3>2. QED
      BY <1>1, <3>1 DEF BudgetOK
  <2>2. CASE g = f
    <3>1. /\ InHand(g)' = p /\ RecordRetry(p) /\ row'[p].retryCount >= MaxRetries
      BY <1>2, <1>9, <2>2 DEF InHand
    <3>2. row'[p].retryCount = row[p].retryCount + 1
      BY <1>1, <3>1 DEF RecordRetry, QueueItem
    <3>3. Cardinality(AnsweredFor(p)) >= 1 /\ Cardinality(AnsweredFor(p)) \in Nat
      <4>1. Cardinality(AnsweredFor(p)) \in Nat /\ Cardinality(AnsweredFor(p)') \in Nat
        BY <1>1, <1>3
      <4>2. QED
        BY <1>4, <4>1
    <3>4. served[p] = MaxRetries
      BY <1>1, <1>6, <1>7, <3>1, <3>2, <3>3
    <3>5. QED
      BY <1>1, <3>1, <3>4
  <2>3. QED
    BY <2>1, <2>2
<1>10. OutageCostsNothing'
  <2>1. Failed' \subseteq Failed
    BY <1>5 DEF Failed
  <2>2. QED
    BY <1>1, <2>1 DEF BudgetOK, OutageCostsNothing
<1>11. QED
  BY <1>8, <1>9, <1>10 DEF BudgetOK

(* Each step of the queue keeps the budgets.                               *)
LEMMA NextBudgetOK ==
    ASSUME IInv, IInv', BudgetOK, [Next]_vars
    PROVE  BudgetOK'
<1>1. /\ work \in [Sender -> Work] /\ row \in [DOMAIN row -> QueueItem]
      /\ \A f \in Flusher : f \in Sender /\ f # Screen
      /\ Screen \in Sender
  BY SyncQueueAssumption DEF IInv, SyncQueueTypeOK, Sender
<1>2. CASE \E t \in {"in", "out"} : PerformPunch(t)
  <2>1. row' = row /\ served' = served
    BY <1>2 DEF PerformPunch, server
  <2>2. \A f \in Flusher : work'[f] = work[f]
    BY <1>1, <1>2 DEF PerformPunch
  <2>3. QED
    BY <2>1, <2>2, BudgetStands DEF InHand
<1>3. CASE ScreenAnswered \/ ScreenTimeout
  <2> DEFINE p == InHand(Screen)
  <2>1. served' = served /\ (row' = row \/ Enqueue(p))
    BY <1>3 DEF ScreenAnswered, ScreenTimeout, Confirm, Keep, server
  <2>2. \A f \in Flusher : work'[f] = work[f]
    BY <1>1, <1>3 DEF ScreenAnswered, ScreenTimeout, Confirm
  <2>3. \A q \in DOMAIN row' :
           \/ /\ q \in DOMAIN row
              /\ row'[q] = row[q]
           \/ /\ q \notin DOMAIN row
              /\ row'[q] = [status |-> "pending", retryCount |-> 0]
    <3>1. CASE row' = row
      BY <3>1
    <3>2. CASE /\ p \notin DOMAIN row
               /\ row' = [q \in DOMAIN row \cup {p} |->
                            IF q = p THEN [status |-> "pending", retryCount |-> 0] ELSE row[q]]
      <4> HIDE DEF p
      <4>1. QED
        BY <3>2
    <3>3. QED
      BY <2>1, <3>1, <3>2 DEF Enqueue
  <2>4. QED
    BY <2>1, <2>2, <2>3, BudgetStands DEF InHand
<1>4. ASSUME NEW f \in Flusher, \E waiting \in SUBSET Pending : StartFlush(f, waiting)
      PROVE  BudgetOK'
  <2>1. row' = row /\ served' = served
    BY <1>4 DEF StartFlush, server
  <2>2. /\ \A g \in Flusher : g # f => work'[g] = work[g]
        /\ work'[f].phase = "post"
    <3>1. PICK waiting \in SUBSET Pending : StartFlush(f, waiting)
      BY <1>4
    <3> DEFINE w == [Idle EXCEPT !.phase = "post", !.batch = Pending \ waiting]
    <3>2. w.phase = "post"
      BY DEF Idle
    <3>3. work' = [work EXCEPT ![f] = w]
      BY <3>1 DEF StartFlush
    <3> HIDE DEF w
    <3>4. QED
      BY <1>1, <3>2, <3>3
  <2>3. QED
    BY <2>1, <2>2, BudgetStands DEF InHand
<1>5. ASSUME NEW f \in Flusher, Post(f)
      PROVE  BudgetOK'
  <2>1. row' = row /\ served' = served
    BY <1>5 DEF Post, server
  <2>2. /\ \A g \in Flusher : g # f => work'[g] = work[g]
        /\ work'[f].phase = "wait"
    <3> DEFINE w == [work[f] EXCEPT !.phase = "wait"]
    <3>1. w.phase = "wait"
      BY <1>1 DEF Work
    <3>2. work' = [work EXCEPT ![f] = w]
      BY <1>1, <1>5 DEF Post
    <3> HIDE DEF w
    <3>3. QED
      BY <1>1, <3>1, <3>2
  <2>3. QED
    BY <2>1, <2>2, BudgetStands DEF InHand
<1>6. ASSUME NEW f \in Flusher, FlushAnswered(f)
      PROVE  BudgetOK'
  <2>1. PICK p : p = InHand(f)
    OBVIOUS
  <2>2. QED
    BY <1>6, <2>1, BudgetAnswered
<1>7. ASSUME NEW f \in Flusher, Park(f)
      PROVE  BudgetOK'
  <2>1. PICK p : p = InHand(f)
    OBVIOUS
  <2>2. work[f].phase = "park" /\ Mark(p, "failed") /\ Advance(f) /\ served' = served
    BY <1>7, <2>1 DEF Park, server
  <2>3. p \in DOMAIN row /\ served[p] = MaxRetries
    BY <2>1, <2>2, InHandIsQueued DEF BudgetOK
  <2>4. /\ \A g \in Flusher : g # f => work'[g] = work[g]
        /\ work'[f].phase \in {"idle", "post"}
    BY <1>1, <2>2, Advanced DEF IInv
  <2>5. \A q \in DOMAIN row' : /\ q \in DOMAIN row /\ row'[q].retryCount = row[q].retryCount
                               /\ q # p => row'[q] = row[q]
    <3> DEFINE item == [row[p] EXCEPT !.status = "failed"]
    <3>1. item.retryCount = row[p].retryCount
      BY <1>1, <2>3 DEF QueueItem
    <3>2. row' = [row EXCEPT ![p] = item]
      BY <1>1, <2>2, <2>3 DEF Mark
    <3> HIDE DEF item
    <3>3. QED
      BY <1>1, <2>3, <3>1, <3>2
  <2>6. QED
    BY <2>2, <2>3, <2>4, <2>5, BudgetStands DEF InHand
<1>8. ASSUME NEW f \in Flusher, FlushTimeout(f)
      PROVE  BudgetOK'
  <2>1. row' = row /\ served' = served
    BY <1>8 DEF FlushTimeout, server
  <2>2. /\ \A g \in Flusher : g # f => work'[g] = work[g]
        /\ work'[f].phase = "idle"
    <3>1. Idle.phase = "idle"
      BY DEF Idle
    <3>2. QED
      BY <1>1, <1>8, <3>1 DEF FlushTimeout
  <2>3. QED
    BY <2>1, <2>2, BudgetStands DEF InHand
<1>9. ASSUME NEW p \in Punch, Requeue(p)
      PROVE  BudgetOK'
  <2> DEFINE item == [status |-> "pending", retryCount |-> 0]
  <2>1. /\ served' = served /\ work' = work
        /\ p \in DOMAIN row /\ served[p] = MaxRetries
        /\ row' = [row EXCEPT ![p] = item]
    BY <1>9 DEF Requeue, server, Failed, BudgetOK, OutageCostsNothing
  <2>2. item.status = "pending" /\ item.retryCount = 0
    OBVIOUS
  <2> HIDE DEF item
  <2>3. \A q \in DOMAIN row' : /\ q \in DOMAIN row
                               /\ q = p => row'[q] = item
                               /\ q # p => row'[q] = row[q]
    BY <1>1, <2>1
  <2>4. QED
    BY <2>1, <2>2, <2>3, BudgetStands DEF InHand
<1>10. CASE Restart
  <2>1. row' = row /\ served' = served
    BY <1>10 DEF Restart, server
  <2>2. \A f \in Flusher : work'[f].phase = "idle"
    BY <1>1, <1>10 DEF Restart, Idle
  <2>3. QED
    BY <2>1, <2>2, BudgetStands
<1>11. CASE Server
  <2>1. PICK req \in wire : LookUp(req) \/ FindOpen(req) \/ Reply(req)
    BY <1>11 DEF Server
  <2>2. CASE Reply(req)
    <3>1. PICK answer : Handle(req, answer)
      BY <2>2 DEF Reply, Replay, Take, Refuse, TurnDown
    <3>2. QED
      BY <3>1, BudgetServed
  <2>3. CASE LookUp(req) \/ FindOpen(req)
    <3>1. UNCHANGED <<row, work, served>>
      BY <2>3 DEF LookUp, FindOpen, Proceed
    <3>2. QED
      BY <3>1, BudgetStands DEF InHand
  <2>4. QED
    BY <2>1, <2>2, <2>3
<1>12. CASE UNCHANGED vars \/ Bootstrap
  BY <1>12, BudgetStands DEF vars, device, server, Bootstrap, InHand
<1>13. QED
  BY <1>2, <1>3, <1>4, <1>5, <1>6, <1>7, <1>8, <1>9, <1>10, <1>11, <1>12 DEF Next, Flush

(* For any number of overlapping flushes, lost requests, late answers and  *)
(* restarts: an item is parked only when the server has handled it as      *)
(* often as the budget allows.                                             *)
THEOREM ParkedItemsHadTheirChance == Spec => []OutageCostsNothing
<1>1. Init => BudgetOK
  <2>1. ASSUME Init
        PROVE  DOMAIN row = {} /\ \A f \in Flusher : work[f].phase = "idle"
    BY <2>1 DEF Init, Sender, Idle
  <2>2. QED
    BY <2>1 DEF BudgetOK, OutageCostsNothing, Failed
<1>2. BudgetOK => OutageCostsNothing
  BY DEF BudgetOK
<1>3. QED
  BY <1>1, <1>2, InitIInv, NextIInv, NextBudgetOK, PTL DEF Spec
=============================================================================
