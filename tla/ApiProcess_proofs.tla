------------------------- MODULE ApiProcess_proofs -------------------------
(***************************************************************************)
(* What ApiProcess keeps true for any number of requests, passes and       *)
(* connections: the types, the lock that makes sweeps serial, the order of *)
(* shutdown, that an answer is sent after its commit, and how many         *)
(* connections keep the pool from locking up.                              *)
(*                                                                         *)
(* BaseInv is inductive whatever clients do.  CleanInv holds as long as no *)
(* handler has outlived its request: it says who owns each connection      *)
(* (OwnedIn), that an uncommitted write waits on the innermost connection  *)
(* of the request that made it (PendIn), and what a request has written at *)
(* each point of its life (Sound).  PoolInv holds whatever clients do: no  *)
(* connection is lost, and a request has at most one for each router.      *)
(* OwnerInv, too: each connection is in one place, once.                   *)
(***************************************************************************)
EXTENDS ApiProcess, FiniteSetTheorems, SequenceTheorems, TLAPS

------------------------------------------------------------------------------
(* The inductive invariants.                                               *)

ReqShape ==
    \A r \in Request :
        /\ req[r].pc \in {"none", "entering"} => req[r].layers < Layers(r) /\ req[r].next = 1
        /\ req[r].pc = "running" => req[r].next <= NumStatements /\ req[r].db \in Conn

PassShape ==
    \A p \in Pass :
        /\ pass[p].pc \in {"idle", "entering"} <=> pass[p].conn = None
        /\ pass[p].pc = "sweeping" => lock = p

BaseInv == ApiTypeOK /\ ReqShape /\ PassShape /\ PoolClosesAfterSweeps

\* The connection c is in the sequence s.
In(c, s) == \E i \in 1..Len(s) : s[i] = c

Distinct(s) == \A i, j \in 1..Len(s) : s[i] = s[j] => i = j

\* The statements of r that are in a set of writes.
Wrote(r, writes) == {i \in 1..NumStatements : <<r, i>> \in writes}

\* None of the request's connections is finalized yet.
Unsettled(q) ==
    q.pc \in {"running", "answering"} /\ q.held # <<>> /\ Len(q.held) = q.layers

\* No connection is in two places: F is the pool's sequence, R the requests,
\* A the passes.
OwnedIn(F, R, A) ==
    /\ Distinct(F)
    /\ \A r \in Request : Distinct(R[r].held)
    /\ \A r \in Request, c \in Conn : In(c, R[r].held) => ~In(c, F)
    /\ \A r, s \in Request, c \in Conn :
          In(c, R[r].held) /\ In(c, R[s].held) => r = s
    /\ \A p \in Pass : A[p].conn \in Conn => ~In(A[p].conn, F)
    /\ \A p \in Pass, r \in Request : A[p].conn \in Conn => ~In(A[p].conn, R[r].held)
    /\ \A p, q \in Pass : A[p].conn \in Conn /\ A[p].conn = A[q].conn => p = q

PendIn(P, R) ==
    \A c \in Conn, r \in Request, i \in 1..NumStatements :
        <<r, i>> \in P[c] => Unsettled(R[r]) /\ Last(R[r].held) = c

\* The life of request r, whose record is q.  Of an unsettled request that
\* is going well, nothing is committed, and its innermost connection has
\* everything that a batch would report.
Sound(r, q, T, P, D) ==
    /\ Len(q.held) <= q.layers
    /\ q.pc \in {"none", "answered"} => q.held = <<>>
    /\ q.pc \in {"none", "entering", "running"} =>
          q.ok /\ Len(q.held) = q.layers /\ Wrote(r, D) = {}
    /\ q.pc \in {"none", "entering"} => q.synced = {}
    /\ q.pc = "running" => q.layers # 0 /\ q.db = Last(q.held)
    /\ ~q.ok => Wrote(r, D) = {}
    /\ Unsettled(q) /\ q.ok =>
          /\ Wrote(r, D) = {} /\ T[Last(q.held)] # "none"
          /\ T[Last(q.held)] = "failed" => r \in BatchRequest
          /\ T[Last(q.held)] = "open" => Wrote(r, P[Last(q.held)]) = q.synced
    /\ q.pc \in {"answering", "answered"} /\ q.ok /\ ~Unsettled(q) =>
          \/ Wrote(r, D) = {} /\ r \in BatchRequest
          \/ Wrote(r, D) = q.synced

Clean ==
    /\ OwnedIn(free, req, pass)
    /\ PendIn(pend, req)
    /\ \A r \in Request : Sound(r, req[r], tx, pend, done)

CleanInv == ~Strays => Clean

ApiInv == BaseInv /\ CleanInv

------------------------------------------------------------------------------
(* Sequences of connections.                                               *)

\* SetToSeq numbers the connections without a repetition.
LEMMA PoolIndex ==
    /\ Cardinality(Conn) \in Nat
    /\ SetToSeq(Conn) \in [1..Cardinality(Conn) -> Conn]
    /\ \A a, b \in 1..Cardinality(Conn) : SetToSeq(Conn)[a] = SetToSeq(Conn)[b] => a = b
PROOF
<1> DEFINE n == Cardinality(Conn)
           f == SetToSeq(Conn)
<1>1. n \in Nat /\ ExistsBijection(1..n, Conn)
  BY FS_CardinalityType, ApiProcessAssumption
<1>2. PICK g : g \in Bijection(1..n, Conn)
  BY <1>1 DEF ExistsBijection
<1>3. g \in [1..n -> Conn] /\ \A a, b \in 1..n : g[a] = g[b] => a = b
  BY <1>2, Zenon DEF Bijection, Injection, IsInjective
<1>4. \E h \in [1..n -> Conn] : \A a, b \in DOMAIN h : h[a] = h[b] => a = b
  BY <1>3
<1>5. f \in [1..n -> Conn] /\ \A a, b \in DOMAIN f : f[a] = f[b] => a = b
  BY <1>4, Zenon DEF SetToSeq, IsInjective
<1> HIDE DEF f
<1>6. n \in Nat /\ f \in [1..n -> Conn] /\ \A a, b \in 1..n : f[a] = f[b] => a = b
  BY <1>1, <1>5
<1> QED
  BY <1>6 DEF f

\* The pool starts with every connection once.
LEMMA PoolSequence ==
    /\ SetToSeq(Conn) \in Seq(Conn)
    /\ Distinct(SetToSeq(Conn))
PROOF
<1> DEFINE n == Cardinality(Conn)
           f == SetToSeq(Conn)
<1>1. n \in Nat /\ f \in [1..n -> Conn] /\ \A a, b \in 1..n : f[a] = f[b] => a = b
  BY PoolIndex
<1> HIDE DEF f
<1>2. f \in Seq(Conn) /\ Len(f) = n
  BY <1>1
<1>3. Distinct(f)
  BY <1>1, <1>2 DEF Distinct
<1> QED
  BY <1>2, <1>3 DEF f

\* What is left when the last element is taken.
LEMMA FrontOf ==
    ASSUME NEW s \in Seq(Conn), s # <<>>
    PROVE  LET f == SubSeq(s, 1, Len(s) - 1) IN
           /\ Len(s) \in Nat \ {0} /\ s[Len(s)] \in Conn /\ In(s[Len(s)], s)
           /\ f \in Seq(Conn) /\ Len(f) = Len(s) - 1
           /\ \A c : In(c, f) => In(c, s)
           /\ Distinct(s) => Distinct(f) /\ ~In(s[Len(s)], f)
PROOF
<1> DEFINE f == SubSeq(s, 1, Len(s) - 1)
<1>1. Len(s) \in Nat \ {0} /\ s[Len(s)] \in Conn /\ \A i \in 1..Len(s) : s[i] \in Conn
  OBVIOUS
<1>2. f \in Seq(Conn) /\ Len(f) = Len(s) - 1
      /\ \A i \in 1..(Len(s) - 1) : f[i] = s[i]
  <2> DEFINE n == Len(s) - 1
  <2>1. n \in Nat /\ n \in Int /\ 1 \in Int /\ \A i \in 1..n : s[i] \in Conn
    BY <1>1
  <2> HIDE DEF n
  <2>2. /\ SubSeq(s, 1, n) \in Seq(Conn)
        /\ Len(SubSeq(s, 1, n)) = IF 1 <= n THEN n - 1 + 1 ELSE 0
        /\ \A i \in 1..(n - 1 + 1) : SubSeq(s, 1, n)[i] = s[1 + i - 1]
    BY ONLY <2>1, SubSeqProperties
  <2>3. (IF 1 <= n THEN n - 1 + 1 ELSE 0) = n /\ n - 1 + 1 = n
        /\ \A i \in 1..n : 1 + i - 1 = i
    BY <2>1
  <2>4. f = SubSeq(s, 1, n)
    BY DEF n
  <2> HIDE DEF f
  <2>5. f \in Seq(Conn) /\ Len(f) = n /\ \A i \in 1..n : f[i] = s[i]
    BY <2>2, <2>3, <2>4, Zenon
  <2> QED
    BY <2>5 DEF n
<1> HIDE DEF f
<1>3. In(s[Len(s)], s)
  BY <1>1 DEF In
<1>4. \A c : In(c, f) => In(c, s)
  BY <1>1, <1>2 DEF In
<1>5. Distinct(s) => Distinct(f) /\ ~In(s[Len(s)], f)
  BY <1>1, <1>2 DEF Distinct, In
<1> QED
  BY <1>1, <1>2, <1>3, <1>4, <1>5 DEF f

\* What is there when an element is added.
LEMMA AppendOf ==
    ASSUME NEW s \in Seq(Conn), NEW c \in Conn
    PROVE  LET a == Append(s, c) IN
           /\ a \in Seq(Conn) /\ Len(a) = Len(s) + 1 /\ a # <<>> /\ Last(a) = c
           /\ \A d : In(d, a) <=> In(d, s) \/ d = c
           /\ Distinct(s) /\ ~In(c, s) => Distinct(a)
PROOF
<1> DEFINE a == Append(s, c)
<1>1. Len(s) \in Nat /\ a \in Seq(Conn) /\ Len(a) = Len(s) + 1 /\ a # <<>>
  OBVIOUS
<1>2. a[Len(s) + 1] = c /\ \A i \in 1..Len(s) : a[i] = s[i]
  OBVIOUS
<1> HIDE DEF a
<1>3. Last(a) = c
  BY <1>1, <1>2 DEF Last
<1>4. ASSUME NEW d PROVE In(d, a) <=> In(d, s) \/ d = c
  <2>1. In(d, a) => In(d, s) \/ d = c
    BY <1>1, <1>2 DEF In
  <2>2. In(d, s) => In(d, a)
    BY <1>1, <1>2 DEF In
  <2>3. d = c => In(d, a)
    BY <1>1, <1>2 DEF In
  <2> QED
    BY <2>1, <2>2, <2>3
<1>5. Distinct(s) /\ ~In(c, s) => Distinct(a)
  BY <1>1, <1>2 DEF Distinct, In
<1> QED
  BY <1>1, <1>3, <1>4, <1>5 DEF a

\* Releasing one connection by the operator that releases several.
LEMMA ReleaseOne ==
    ASSUME NEW s \in Seq(Conn), NEW c \in Conn
    PROVE  s \o <<c>> = Append(s, c) /\ ToSet(<<c>>) = {c}
PROOF
<1>1. s \o <<c>> = Append(s, c)
  OBVIOUS
<1>2. ToSet(<<c>>) = {c}
  BY DEF ToSet
<1> QED
  BY <1>1, <1>2

------------------------------------------------------------------------------
(* What the operations on connections and on a request's record keep.      *)

DbTypeOK ==
    /\ free \in Seq(Conn)
    /\ tx \in [Conn -> {"none", "open", "failed"}]
    /\ pend \in [Conn -> SUBSET Write]
    /\ done \subseteq Write

\* withTenant's COMMIT and release leave the database and the pool well typed.
LEMMA CommitTypes ==
    ASSUME DbTypeOK, NEW c \in Conn, CommitAndRelease(c)
    PROVE  DbTypeOK'
PROOF
<1>1. free' \in Seq(Conn)
  BY AppendOf DEF DbTypeOK, CommitAndRelease
<1>2. tx' \in [Conn -> {"none", "open", "failed"}] /\ pend' \in [Conn -> SUBSET Write]
  BY DEF DbTypeOK, CommitAndRelease
<1>3. done' \subseteq Write
  BY DEF DbTypeOK, CommitAndRelease
<1> QED
  BY <1>1, <1>2, <1>3 DEF DbTypeOK

\* ROLLBACK and release of one client or of a whole stack of them leave the
\* database and the pool well typed.
LEMMA RollbackTypes ==
    ASSUME DbTypeOK, NEW cs \in Seq(Conn), RollbackAndRelease(cs)
    PROVE  DbTypeOK'
PROOF
<1>1. free' \in Seq(Conn)
  BY DEF DbTypeOK, RollbackAndRelease
<1>2. tx' \in [Conn -> {"none", "open", "failed"}]
  BY Zenon DEF DbTypeOK, RollbackAndRelease
<1>3. pend' \in [Conn -> SUBSET Write]
  BY DEF DbTypeOK, RollbackAndRelease
<1>4. done' \subseteq Write
  BY DEF DbTypeOK, RollbackAndRelease
<1> QED
  BY <1>1, <1>2, <1>3, <1>4 DEF DbTypeOK

\* BEGIN on a client of the pool leaves both well typed, and the client is
\* one.
LEMMA BeginTypes ==
    ASSUME DbTypeOK, Available, Begin
    PROVE  DbTypeOK' /\ Top \in Conn
PROOF
<1>1. free' \in Seq(Conn) /\ Top \in Conn
  BY FrontOf DEF DbTypeOK, Available, Begin, Top
<1>2. tx' \in [Conn -> {"none", "open", "failed"}]
  BY <1>1 DEF DbTypeOK, Begin
<1> QED
  BY <1>1, <1>2 DEF DbTypeOK, Begin

\* The record of a request that fails.
LEMMA FailedRecord ==
    ASSUME NEW q \in RequestState
    PROVE  LET f == [q EXCEPT !.pc = "answering", !.ok = FALSE] IN
           /\ f \in RequestState /\ f.pc = "answering" /\ f.ok = FALSE
           /\ f.layers = q.layers /\ f.held = q.held /\ f.db = q.db
           /\ f.next = q.next /\ f.synced = q.synced /\ f.gone = q.gone
PROOF
  BY DEF RequestState

\* The record of a request whose handler goes on, n its next statement.
Goes(q, n, s) ==
    [q EXCEPT !.next = @ + 1, !.synced = @ \cup s,
              !.pc = IF n = NumStatements THEN "answering" ELSE @]

\* A handler that goes on after statement i either stands before the next one
\* it has or is answering; which clients it holds does not change.
LEMMA ContinuedRecord ==
    ASSUME NEW q \in RequestState, q.pc = "running", q.next <= NumStatements,
           NEW s \in SUBSET (1..NumStatements)
    PROVE  LET f == Goes(q, q.next, s) IN
           /\ f \in RequestState /\ f.pc \in {"running", "answering"}
           /\ f.pc = "running" => f.next <= NumStatements
           /\ f.synced = q.synced \cup s
           /\ f.layers = q.layers /\ f.held = q.held /\ f.db = q.db
           /\ f.ok = q.ok /\ f.gone = q.gone
PROOF
<1> DEFINE f == Goes(q, q.next, s)
           next == q.next + 1
           synced == q.synced \cup s
           pc == IF q.next = NumStatements THEN "answering" ELSE q.pc
<1>1. NumStatements \in Nat \ {0} /\ q.next \in 1..(NumStatements + 1)
  BY ApiProcessAssumption DEF RequestState
<1>2. next \in 1..(NumStatements + 1)
  BY <1>1
<1>3. synced \in SUBSET (1..NumStatements)
  BY DEF RequestState
<1>4. pc \in {"running", "answering"} /\ (pc = "running" => next <= NumStatements)
  BY <1>1
<1>5. f = [q EXCEPT !.next = next, !.synced = synced, !.pc = pc]
  BY DEF Goes
<1> HIDE DEF f, next, synced, pc
<1>6. /\ f \in RequestState /\ f.pc = pc /\ f.next = next /\ f.synced = synced
      /\ f.layers = q.layers /\ f.held = q.held /\ f.db = q.db
      /\ f.ok = q.ok /\ f.gone = q.gone
  BY <1>2, <1>3, <1>4, <1>5 DEF RequestState
<1>7. synced = q.synced \cup s
  BY DEF synced
<1> HIDE DEF f
<1> QED
  BY <1>4, <1>6, <1>7 DEF f

\* A request gets a record of the right shape.
LEMMA RequestMoves ==
    ASSUME req \in [Request -> RequestState], ReqShape, NEW r \in Request,
           NEW q \in RequestState,
           q.pc \in {"none", "entering"} => q.layers < Layers(r) /\ q.next = 1,
           q.pc = "running" => q.next <= NumStatements /\ q.db \in Conn,
           req' = [req EXCEPT ![r] = q]
    PROVE  req' \in [Request -> RequestState] /\ ReqShape'
PROOF
<1>1. req' \in [Request -> RequestState]
  OBVIOUS
<1>2. ReqShape'
  BY DEF ReqShape, Layers
<1> QED
  BY <1>1, <1>2

\* A pass gets a record of the right shape.
LEMMA PassMoves ==
    ASSUME pass \in [Pass -> PassState], PassShape, NEW p \in Pass,
           NEW q \in PassState,
           q.pc \in {"idle", "entering"} <=> q.conn = None,
           q.pc = "sweeping" => lock' = p,
           \A o \in Pass \ {p} : pass[o].pc = "sweeping" => lock' = o,
           pass' = [pass EXCEPT ![p] = q]
    PROVE  pass' \in [Pass -> PassState] /\ PassShape'
PROOF
<1>1. pass' \in [Pass -> PassState]
  OBVIOUS
<1>2. ASSUME NEW o \in Pass
      PROVE  /\ pass'[o].pc \in {"idle", "entering"} <=> pass'[o].conn = None
             /\ pass'[o].pc = "sweeping" => lock' = o
  <2>1. CASE o = p
    BY <2>1
  <2>2. CASE o # p
    BY <2>2 DEF PassShape
  <2> QED
    BY <2>1, <2>2
<1> QED
  BY <1>1, <1>2 DEF PassShape

------------------------------------------------------------------------------
(* What each action makes of the request's record.                         *)

\* What a request is after it took a client for a layer of its middleware: at
\* its statements if that was the last layer, entering still if not.
LEMMA EnterRecord ==
    ASSUME ApiTypeOK, ReqShape, NEW r \in Request, Enter(r)
    PROVE  \E q \in RequestState :
              /\ req' = [req EXCEPT ![r] = q]
              /\ q.pc = IF req[r].layers + 1 = Layers(r) THEN "running" ELSE "entering"
              /\ q.layers = req[r].layers + 1 /\ q.layers <= Layers(r)
              /\ q.held = Append(req[r].held, Top) /\ q.db = Top
              /\ q.next = 1
              /\ q.ok = req[r].ok /\ q.synced = req[r].synced /\ q.gone = req[r].gone
PROOF
<1> DEFINE old == req[r]
           pc == IF old.layers + 1 = Layers(r) THEN "running" ELSE old.pc
           layers == old.layers + 1
           held == Append(old.held, Top)
           q == [old EXCEPT !.layers = layers, !.held = held, !.db = Top, !.pc = pc]
<1>1. /\ old \in RequestState /\ old.pc = "entering" /\ old.layers < Layers(r)
      /\ old.next = 1 /\ Top \in Conn
  <2>1. Top \in Conn
    BY FrontOf DEF ApiTypeOK, Enter, Available, Top
  <2> QED
    BY <2>1 DEF ApiTypeOK, ReqShape, Enter
<1>2. layers \in 0..2 /\ layers <= Layers(r)
  BY <1>1 DEF RequestState, Layers
<1>3. held \in Seq(Conn)
  BY <1>1, AppendOf DEF RequestState
<1>4. pc \in {"entering", "running"}
      /\ pc = IF req[r].layers + 1 = Layers(r) THEN "running" ELSE "entering"
  BY <1>1
<1>5. req' = [req EXCEPT ![r] = q]
  BY DEF Enter
<1>6. layers = req[r].layers + 1 /\ held = Append(req[r].held, Top)
  OBVIOUS
<1> HIDE DEF pc, layers, held
<1>7. /\ q \in RequestState /\ q.pc = pc /\ q.layers = layers /\ q.held = held
      /\ q.db = Top /\ q.next = old.next /\ q.ok = old.ok /\ q.synced = old.synced
      /\ q.gone = old.gone
  BY <1>1, <1>2, <1>3, <1>4 DEF RequestState
<1> HIDE DEF q
<1> QED
  BY <1>1, <1>2, <1>4, <1>5, <1>6, <1>7

\* A handler whose statement throws.
LEMMA ThrowRecord ==
    ASSUME ApiTypeOK, ReqShape, NEW r \in Request, req[r].pc = "running", Throw(r)
    PROVE  \E q \in RequestState :
              /\ req' = [req EXCEPT ![r] = q]
              /\ q.pc \in {"running", "answering"}
              /\ q.pc = "running" => q.next <= NumStatements
              /\ q.held = req[r].held /\ q.layers = req[r].layers /\ q.db = req[r].db
              /\ q.synced = req[r].synced /\ q.gone = req[r].gone
              /\ \/ r \in BatchRequest /\ q.ok = req[r].ok
                 \/ q.pc = "answering" /\ q.ok = FALSE
PROOF
<1> DEFINE old == req[r]
<1>1. old \in RequestState /\ old.pc = "running" /\ old.next <= NumStatements
  BY DEF ApiTypeOK, ReqShape
<1>2. CASE r \in BatchRequest
  <2> DEFINE q == Goes(old, old.next, {})
  <2>1. req' = [req EXCEPT ![r] = q]
    BY <1>2 DEF Throw, Continue, Goes
  <2>2. /\ q \in RequestState /\ q.pc \in {"running", "answering"}
        /\ q.pc = "running" => q.next <= NumStatements
        /\ q.synced = old.synced \cup {}
        /\ q.layers = old.layers /\ q.held = old.held /\ q.db = old.db
        /\ q.ok = old.ok /\ q.gone = old.gone
    BY <1>1, ContinuedRecord
  <2> HIDE DEF q
  <2> QED
    BY <1>2, <2>1, <2>2
<1>3. CASE r \notin BatchRequest
  <2> DEFINE q == [old EXCEPT !.pc = "answering", !.ok = FALSE]
  <2>1. req' = [req EXCEPT ![r] = q]
    BY <1>3 DEF Throw, Failed
  <2>2. /\ q \in RequestState /\ q.pc = "answering" /\ q.ok = FALSE
        /\ q.layers = old.layers /\ q.held = old.held /\ q.db = old.db
        /\ q.next = old.next /\ q.synced = old.synced /\ q.gone = old.gone
    BY <1>1, FailedRecord
  <2> HIDE DEF q
  <2> QED
    BY <2>1, <2>2
<1> QED
  BY <1>2, <1>3

\* A handler whose statement succeeds.
LEMMA ExecuteRecord ==
    ASSUME ApiTypeOK, ReqShape, NEW r \in Request, Execute(r)
    PROVE  \E q \in RequestState :
              /\ req' = [req EXCEPT ![r] = q]
              /\ q.pc \in {"running", "answering"}
              /\ q.pc = "running" => q.next <= NumStatements
              /\ q.held = req[r].held /\ q.layers = req[r].layers /\ q.db = req[r].db
              /\ q.synced = req[r].synced \cup {req[r].next}
              /\ q.gone = req[r].gone /\ q.ok = req[r].ok
PROOF
<1> DEFINE old == req[r]
           q == Goes(old, old.next, {old.next})
<1>1. old \in RequestState /\ old.pc = "running" /\ old.next <= NumStatements
  BY DEF ApiTypeOK, ReqShape, Execute
<1>2. {old.next} \in SUBSET (1..NumStatements)
  BY <1>1, ApiProcessAssumption DEF RequestState
<1>3. req' = [req EXCEPT ![r] = q]
  BY DEF Execute, Continue, Goes
<1>4. /\ q \in RequestState /\ q.pc \in {"running", "answering"}
      /\ q.pc = "running" => q.next <= NumStatements
      /\ q.synced = old.synced \cup {old.next}
      /\ q.layers = old.layers /\ q.held = old.held /\ q.db = old.db
      /\ q.ok = old.ok /\ q.gone = old.gone
  BY <1>1, <1>2, ContinuedRecord
<1> HIDE DEF q
<1> QED
  BY <1>3, <1>4

\* A request that fails before its handler runs.
LEMMA EnterFailsRecord ==
    ASSUME ApiTypeOK, NEW r \in Request, req' = Failed(r)
    PROVE  \E q \in RequestState :
              /\ req' = [req EXCEPT ![r] = q]
              /\ q.pc = "answering" /\ q.ok = FALSE
              /\ q.held = req[r].held /\ q.layers = req[r].layers /\ q.db = req[r].db
              /\ q.next = req[r].next /\ q.synced = req[r].synced /\ q.gone = req[r].gone
PROOF
<1> DEFINE q == [req[r] EXCEPT !.pc = "answering", !.ok = FALSE]
<1>1. req[r] \in RequestState
  BY DEF ApiTypeOK
<1>2. /\ q \in RequestState /\ q.pc = "answering" /\ q.ok = FALSE
      /\ q.layers = req[r].layers /\ q.held = req[r].held /\ q.db = req[r].db
      /\ q.next = req[r].next /\ q.synced = req[r].synced /\ q.gone = req[r].gone
  BY <1>1, FailedRecord
<1>3. req' = [req EXCEPT ![r] = q]
  BY DEF Failed
<1> HIDE DEF q
<1> QED
  BY <1>2, <1>3

\* A request of which a connection is finalized.
LEMMA FinalizeRecord ==
    ASSUME ApiTypeOK, NEW r \in Request, Finalize(r)
    PROVE  \E q \in RequestState :
              /\ req' = [req EXCEPT ![r] = q]
              /\ q.held = SubSeq(req[r].held, 1, Len(req[r].held) - 1)
              /\ q.pc = "answering" /\ q.ok = req[r].ok
              /\ q.layers = req[r].layers /\ q.db = req[r].db
              /\ q.next = req[r].next /\ q.synced = req[r].synced /\ q.gone = req[r].gone
PROOF
<1> DEFINE old == req[r]
           held == SubSeq(req[r].held, 1, Len(req[r].held) - 1)
           q == [old EXCEPT !.held = held]
<1>1. old \in RequestState /\ old.pc = "answering" /\ old.held # <<>>
  BY DEF ApiTypeOK, Finalize
<1>2. held \in Seq(Conn)
  BY <1>1, FrontOf DEF RequestState
<1>3. req' = [req EXCEPT ![r] = q]
  BY DEF Finalize
<1>4. held = SubSeq(req[r].held, 1, Len(req[r].held) - 1)
  OBVIOUS
<1> HIDE DEF held
<1>5. /\ q \in RequestState /\ q.held = held /\ q.pc = old.pc /\ q.ok = old.ok
      /\ q.layers = old.layers /\ q.db = old.db /\ q.next = old.next
      /\ q.synced = old.synced /\ q.gone = old.gone
  BY <1>1, <1>2 DEF RequestState
<1> HIDE DEF q
<1> QED
  BY <1>1, <1>3, <1>4, <1>5

------------------------------------------------------------------------------
(* BaseInv is inductive.                                                   *)

\* A request's step, which leaves the process and the passes alone.
LEMMA BaseByRequest ==
    ASSUME BaseInv, DbTypeOK', UNCHANGED <<phase, sweepVars>>, faults' \in 0..MaxFaults,
           NEW r \in Request, NEW q \in RequestState,
           q.pc \in {"none", "entering"} => q.layers < Layers(r) /\ q.next = 1,
           q.pc = "running" => q.next <= NumStatements /\ q.db \in Conn,
           req' = [req EXCEPT ![r] = q]
    PROVE  BaseInv'
PROOF
<1>1. req' \in [Request -> RequestState] /\ ReqShape'
  BY RequestMoves DEF BaseInv, ApiTypeOK
<1>2. PassShape' /\ PoolClosesAfterSweeps'
  BY DEF BaseInv, PassShape, PoolClosesAfterSweeps, sweepVars
<1>3. ApiTypeOK'
  BY <1>1 DEF BaseInv, ApiTypeOK, DbTypeOK, sweepVars
<1> QED
  BY <1>1, <1>2, <1>3 DEF BaseInv

\* A pass's step, which leaves the process and the requests alone.
LEMMA BaseByPass ==
    ASSUME BaseInv, DbTypeOK', UNCHANGED <<phase, req>>, faults' \in 0..MaxFaults,
           phase # "closing", lock' \in Pass \cup {Other, None},
           NEW p \in Pass, NEW q \in PassState,
           q.pc \in {"idle", "entering"} <=> q.conn = None,
           q.pc = "sweeping" => lock' = p,
           \A o \in Pass \ {p} : pass[o].pc = "sweeping" => lock' = o,
           pass' = [pass EXCEPT ![p] = q]
    PROVE  BaseInv'
PROOF
<1>1. pass' \in [Pass -> PassState] /\ PassShape'
  <2>1. pass \in [Pass -> PassState] /\ PassShape
    BY DEF BaseInv, ApiTypeOK
  <2> QED
    BY <2>1, PassMoves
<1>2. ReqShape' /\ PoolClosesAfterSweeps'
  BY DEF BaseInv, ReqShape, PoolClosesAfterSweeps
<1>3. ApiTypeOK'
  BY <1>1 DEF BaseInv, ApiTypeOK, DbTypeOK
<1> QED
  BY <1>1, <1>2, <1>3 DEF BaseInv

\* The faults a run allows are never overspent.
LEMMA FaultTypes ==
    ASSUME ApiTypeOK, Fault \/ UNCHANGED faults
    PROVE  faults' \in 0..MaxFaults
PROOF
  BY ApiProcessAssumption DEF ApiTypeOK, Fault

\* Whatever a request does, the ownership of clients and the shape of requests
\* and passes stand.
LEMMA BaseRequestStep ==
    ASSUME BaseInv, NEW r \in Request, Arrive(r) \/ Proceed(r) \/ Disconnect(r)
    PROVE  BaseInv'
PROOF
<1>1. ApiTypeOK /\ ReqShape /\ DbTypeOK /\ req[r] \in RequestState
  BY DEF BaseInv, ApiTypeOK, DbTypeOK
<1>2. CASE Arrive(r)
  <2> DEFINE q == [req[r] EXCEPT !.pc = "entering"]
  <2>1. /\ q \in RequestState /\ q.pc = "entering" /\ q.layers = req[r].layers
        /\ q.next = req[r].next
    BY <1>1 DEF RequestState
  <2>2. req' = [req EXCEPT ![r] = q] /\ req[r].pc = "none"
    BY <1>2 DEF Arrive
  <2> HIDE DEF q
  <2>3. UNCHANGED <<phase, sweepVars>> /\ DbTypeOK' /\ faults' \in 0..MaxFaults
    BY <1>1, <1>2, FaultTypes DEF Arrive, db, DbTypeOK
  <2>4. q.layers < Layers(r) /\ q.next = 1
    BY <1>1, <2>1, <2>2 DEF ReqShape
  <2> QED
    BY <2>1, <2>2, <2>3, <2>4, BaseByRequest
<1>3. CASE Enter(r)
  <2>1. PICK q \in RequestState :
          /\ req' = [req EXCEPT ![r] = q]
          /\ q.pc = IF req[r].layers + 1 = Layers(r) THEN "running" ELSE "entering"
          /\ q.layers = req[r].layers + 1 /\ q.layers <= Layers(r)
          /\ q.db = Top /\ q.next = 1
    BY <1>1, <1>3, EnterRecord
  <2>2. DbTypeOK' /\ Top \in Conn
    BY <1>1, <1>3, BeginTypes DEF Enter
  <2>3. UNCHANGED <<phase, sweepVars>> /\ faults' \in 0..MaxFaults
    BY <1>1, <1>3, FaultTypes DEF Enter
  <2>4. q.pc = "running" => q.next <= NumStatements /\ q.db \in Conn
    BY <2>1, <2>2, ApiProcessAssumption
  <2>5. q.pc \in {"none", "entering"} => q.layers < Layers(r) /\ q.next = 1
    BY <1>1, <2>1 DEF RequestState, Layers
  <2> QED
    BY <2>1, <2>2, <2>3, <2>4, <2>5, BaseByRequest
<1>4. CASE EnterFails(r) \/ EnterRefused(r)
  <2>1. PICK q \in RequestState : req' = [req EXCEPT ![r] = q] /\ q.pc = "answering"
    BY <1>1, <1>4, EnterFailsRecord DEF EnterFails, EnterRefused
  <2>2. DbTypeOK'
    BY <1>1, <1>4 DEF EnterFails, EnterRefused, DbTypeOK, db
  <2>3. UNCHANGED <<phase, sweepVars>> /\ faults' \in 0..MaxFaults
    BY <1>1, <1>4, FaultTypes DEF EnterFails, EnterRefused
  <2> QED
    BY <2>1, <2>2, <2>3, BaseByRequest
<1>5. CASE Execute(r)
  <2>1. PICK q \in RequestState :
          /\ req' = [req EXCEPT ![r] = q]
          /\ q.pc \in {"running", "answering"}
          /\ q.pc = "running" => q.next <= NumStatements
          /\ q.db = req[r].db
    BY <1>1, <1>5, ExecuteRecord
  <2>2. /\ req[r].pc = "running" /\ req[r].next \in 1..NumStatements /\ req[r].db \in Conn
    BY <1>1, <1>5, ApiProcessAssumption DEF Execute, ReqShape, RequestState
  <2>3. <<r, req[r].next>> \in Write
    BY <2>2 DEF Write
  <2>4. DbTypeOK'
    <3> DEFINE d == req[r].db
               w == <<r, req[r].next>>
    <3>0. UNCHANGED <<free, tx>> /\ d \in Conn /\ w \in Write
      BY <1>5, <2>2, <2>3 DEF Execute
    <3>1. CASE tx[d] = "open"
      <4>1. pend' = [pend EXCEPT ![d] = pend[d] \cup {w}] /\ done' = done
        BY <1>5, <3>1 DEF Execute
      <4> HIDE DEF d, w
      <4>2. pend' \in [Conn -> SUBSET Write]
        BY <1>1, <3>0, <4>1 DEF DbTypeOK
      <4> QED
        BY <1>1, <3>0, <4>1, <4>2 DEF DbTypeOK
    <3>2. CASE tx[d] # "open"
      <4>1. done' = done \cup {w} /\ pend' = pend
        BY <1>5, <3>2 DEF Execute
      <4> HIDE DEF d, w
      <4> QED
        BY <1>1, <3>0, <4>1 DEF DbTypeOK
    <3> QED
      BY <3>1, <3>2
  <2>5. UNCHANGED <<phase, sweepVars>> /\ faults' \in 0..MaxFaults
    BY <1>1, <1>5, FaultTypes DEF Execute
  <2> QED
    BY <2>1, <2>2, <2>4, <2>5, BaseByRequest
<1>6. CASE StatementFails(r) \/ Refuse(r)
  <2>1. req[r].pc = "running" /\ Throw(r) /\ req[r].db \in Conn
    BY <1>1, <1>6 DEF StatementFails, Refuse, ReqShape
  <2>2. PICK q \in RequestState :
          /\ req' = [req EXCEPT ![r] = q]
          /\ q.pc \in {"running", "answering"}
          /\ q.pc = "running" => q.next <= NumStatements
          /\ q.db = req[r].db
    BY <1>1, <2>1, ThrowRecord
  <2>3. DbTypeOK'
    BY <1>1, <1>6 DEF StatementFails, Refuse, DbTypeOK, db
  <2>4. UNCHANGED <<phase, sweepVars>> /\ faults' \in 0..MaxFaults
    BY <1>1, <1>6, FaultTypes DEF StatementFails, Refuse
  <2> QED
    BY <2>1, <2>2, <2>3, <2>4, BaseByRequest
<1>7. CASE Finalize(r)
  <2>1. PICK q \in RequestState : req' = [req EXCEPT ![r] = q] /\ q.pc = "answering"
    BY <1>1, <1>7, FinalizeRecord
  <2>2. DbTypeOK'
    <3> DEFINE c == req[r].held[Len(req[r].held)]
    <3>1. c \in Conn /\ <<c>> \in Seq(Conn)
      BY <1>1, <1>7, FrontOf DEF Finalize, RequestState
    <3>2. CommitAndRelease(c) \/ RollbackAndRelease(<<c>>)
      BY <1>7 DEF Finalize
    <3> HIDE DEF c
    <3> QED
      BY <1>1, <3>1, <3>2, CommitTypes, RollbackTypes
  <2>3. UNCHANGED <<phase, sweepVars>> /\ faults' \in 0..MaxFaults
    BY <1>1, <1>7, FaultTypes DEF Finalize
  <2> QED
    BY <2>1, <2>2, <2>3, BaseByRequest
<1>8. CASE Answer(r)
  <2> DEFINE q == [req[r] EXCEPT !.pc = "answered", !.db = None]
  <2>1. q \in RequestState /\ q.pc = "answered"
    BY <1>1 DEF RequestState
  <2>2. req' = [req EXCEPT ![r] = q]
    BY <1>8 DEF Answer
  <2> HIDE DEF q
  <2>3. UNCHANGED <<phase, sweepVars>> /\ DbTypeOK' /\ faults' \in 0..MaxFaults
    BY <1>1, <1>8, FaultTypes DEF Answer, db, DbTypeOK
  <2> QED
    BY <2>1, <2>2, <2>3, BaseByRequest
<1>9. CASE Disconnect(r)
  <2> DEFINE held == <<>>
             q == [req[r] EXCEPT !.gone = TRUE, !.held = held]
  <2>0. held \in Seq(Conn) /\ req' = [req EXCEPT ![r] = q]
    BY <1>9 DEF Disconnect
  <2> HIDE DEF held
  <2>1. /\ q \in RequestState /\ q.pc = req[r].pc /\ q.layers = req[r].layers
        /\ q.next = req[r].next /\ q.db = req[r].db
    BY <1>1, <2>0 DEF RequestState
  <2>2. req' = [req EXCEPT ![r] = q]
    BY <2>0
  <2> HIDE DEF q
  <2>3. DbTypeOK'
    BY <1>1, <1>9, RollbackTypes DEF Disconnect, RequestState
  <2>4. UNCHANGED <<phase, sweepVars>> /\ faults' \in 0..MaxFaults
    BY <1>1, <1>9, FaultTypes DEF Disconnect
  <2>5. /\ q.pc \in {"none", "entering"} => q.layers < Layers(r) /\ q.next = 1
        /\ q.pc = "running" => q.next <= NumStatements /\ q.db \in Conn
    BY <1>1, <2>1 DEF ReqShape
  <2> QED
    BY <2>1, <2>2, <2>3, <2>4, <2>5, BaseByRequest
<1> QED
  BY <1>2, <1>3, <1>4, <1>5, <1>6, <1>7, <1>8, <1>9 DEF Proceed

\* Whatever a pass of the scheduler does, they stand.
LEMMA BasePassStep ==
    ASSUME BaseInv, NEW p \in Pass, Sweep(p)
    PROVE  BaseInv'
PROOF
<1>1. /\ ApiTypeOK /\ PassShape /\ DbTypeOK /\ PoolClosesAfterSweeps
      /\ pass[p] \in PassState /\ lock \in Pass \cup {Other, None}
  BY DEF BaseInv, ApiTypeOK, DbTypeOK
<1>2. None \notin Conn \cup Pass /\ Other \notin Pass /\ Other # None
  BY ApiProcessAssumption
<1>3. \A o \in Pass : pass[o].pc = "sweeping" => lock = o
  BY <1>1 DEF PassShape
<1>4. IdlePass \in PassState /\ IdlePass.pc = "idle" /\ IdlePass.conn = None
  BY DEF IdlePass, PassState
<1>5. phase # "closing"
  BY <1>1 DEF Sweep, Tick, PassBegins, PassRefused, TryLock, PassCommits, PassFails,
              PoolClosesAfterSweeps, Available, Connectable
<1>6. ASSUME DbTypeOK', UNCHANGED <<phase, req>>, faults' \in 0..MaxFaults, EndPass(p)
      PROVE  BaseInv'
  <2>1. lock' \in Pass \cup {Other, None} /\ pass' = [pass EXCEPT ![p] = IdlePass]
    BY <1>1, <1>6 DEF EndPass
  <2>2. \A o \in Pass \ {p} : pass[o].pc = "sweeping" => lock' = o
    BY <1>3, <1>6 DEF EndPass
  <2> QED
    BY <1>4, <1>5, <1>6, <2>1, <2>2, BaseByPass
<1>7. CASE Tick(p)
  <2> DEFINE q == [pass[p] EXCEPT !.pc = "entering"]
  <2>1. q \in PassState /\ q.pc = "entering" /\ q.conn = None
    BY <1>1, <1>7 DEF PassState, PassShape, Tick
  <2>2. pass' = [pass EXCEPT ![p] = q] /\ UNCHANGED <<phase, req, lock>>
    BY <1>7 DEF Tick
  <2> HIDE DEF q
  <2>3. DbTypeOK' /\ faults' \in 0..MaxFaults
    BY <1>1, <1>7, FaultTypes DEF Tick, DbTypeOK, db
  <2> QED
    BY <1>1, <1>3, <1>5, <2>1, <2>2, <2>3, BaseByPass
<1>8. CASE PassBegins(p)
  <2> DEFINE q == [pc |-> "locking", conn |-> Top]
  <2>1. DbTypeOK' /\ Top \in Conn
    BY <1>1, <1>8, BeginTypes DEF PassBegins
  <2>2. q \in PassState /\ q.pc = "locking" /\ q.conn \in Conn
    BY <2>1 DEF PassState
  <2>3. pass' = [pass EXCEPT ![p] = q] /\ UNCHANGED <<phase, req, lock>>
    BY <1>8 DEF PassBegins
  <2> HIDE DEF q
  <2>4. faults' \in 0..MaxFaults
    BY <1>1, <1>8, FaultTypes DEF PassBegins
  <2> QED
    BY <1>1, <1>2, <1>3, <1>5, <2>1, <2>2, <2>3, <2>4, BaseByPass
<1>9. CASE PassRefused(p)
  <2>1. pass' = [pass EXCEPT ![p] = IdlePass] /\ UNCHANGED <<phase, req, lock>>
    BY <1>9 DEF PassRefused
  <2>2. DbTypeOK' /\ faults' \in 0..MaxFaults
    BY <1>1, <1>9, FaultTypes DEF PassRefused, DbTypeOK
  <2> QED
    BY <1>1, <1>3, <1>4, <1>5, <2>1, <2>2, BaseByPass
<1>10. CASE TryLock(p)
  <2>1. DbTypeOK' /\ faults' \in 0..MaxFaults /\ UNCHANGED <<phase, req>>
    BY <1>1, <1>10, FaultTypes DEF TryLock, DbTypeOK, db
  <2>2. pass[p].pc = "locking" /\ pass[p].conn # None
    BY <1>1, <1>10 DEF TryLock, PassShape
  <2>3. CASE lock = None
    <3> DEFINE q == [pass[p] EXCEPT !.pc = "sweeping"]
    <3>1. q \in PassState /\ q.pc = "sweeping" /\ q.conn # None
      BY <1>1, <2>2 DEF PassState
    <3>2. pass' = [pass EXCEPT ![p] = q] /\ lock' = p
      BY <1>10, <2>3 DEF TryLock
    <3> HIDE DEF q
    <3>3. \A o \in Pass \ {p} : pass[o].pc = "sweeping" => lock' = o
      BY <1>2, <1>3, <2>3
    <3> QED
      BY <1>5, <2>1, <3>1, <3>2, <3>3, BaseByPass
  <2>4. CASE lock # None
    <3> DEFINE q == [pass[p] EXCEPT !.pc = "skipping"]
    <3>1. q \in PassState /\ q.pc = "skipping" /\ q.conn # None
      BY <1>1, <2>2 DEF PassState
    <3>2. pass' = [pass EXCEPT ![p] = q] /\ lock' = lock
      BY <1>10, <2>4 DEF TryLock
    <3> HIDE DEF q
    <3> QED
      BY <1>1, <1>3, <1>5, <2>1, <3>1, <3>2, BaseByPass
  <2> QED
    BY <2>3, <2>4
<1>11. CASE PassCommits(p) \/ PassFails(p)
  <2>1. pass[p].conn \in Conn /\ <<pass[p].conn>> \in Seq(Conn)
    BY <1>1, <1>11 DEF PassCommits, PassFails, PassShape, PassState
  <2>2. CommitAndRelease(pass[p].conn) \/ RollbackAndRelease(<<pass[p].conn>>)
    BY <1>11 DEF PassCommits, PassFails
  <2>3. DbTypeOK'
    BY <1>1, <2>1, <2>2, CommitTypes, RollbackTypes
  <2>4. faults' \in 0..MaxFaults /\ UNCHANGED <<phase, req>> /\ EndPass(p)
    BY <1>1, <1>11, FaultTypes DEF PassCommits, PassFails
  <2> QED
    BY <1>6, <2>3, <2>4
<1> QED
  BY <1>7, <1>8, <1>9, <1>10, <1>11 DEF Sweep

\* What the end of the process makes of a request.
LEMMA DeadRecord ==
    ASSUME NEW g \in BOOLEAN
    PROVE  LET d == [NotArrived EXCEPT !.pc = "cut", !.gone = g] IN
           /\ d \in RequestState /\ d.pc = "cut" /\ d.gone = g
           /\ d.held = <<>> /\ d.ok = TRUE /\ d.layers = 0
PROOF
<1> DEFINE held == <<>>
           d == [NotArrived EXCEPT !.pc = "cut", !.gone = g]
<1>1. held \in Seq(Conn) /\ 1 \in 1..(NumStatements + 1)
  BY ApiProcessAssumption
<1>2. NotArrived = [ pc |-> "none", layers |-> 0, held |-> held, db |-> None, next |-> 1,
                     ok |-> TRUE, synced |-> {}, gone |-> FALSE ]
  BY DEF NotArrived
<1>3. held = <<>>
  OBVIOUS
<1> HIDE DEF held, d
<1>4. /\ NotArrived \in RequestState /\ NotArrived.held = held
      /\ NotArrived.ok = TRUE /\ NotArrived.layers = 0
  BY <1>1, <1>2 DEF RequestState
<1>5. /\ d \in RequestState /\ d.pc = "cut" /\ d.gone = g /\ d.held = NotArrived.held
      /\ d.ok = NotArrived.ok /\ d.layers = NotArrived.layers
  BY <1>4 DEF RequestState, d
<1> QED
  BY <1>3, <1>4, <1>5 DEF d

\* Whatever other clients of the database, the signal handler or a restart do,
\* they stand.
LEMMA BaseOtherStep ==
    ASSUME BaseInv,
           OtherLocks \/ OtherEnds \/ Shutdown \/ ClosePool \/ Exit \/ ForcedExit \/ Boot
    PROVE  BaseInv'
PROOF
<1>1. /\ ApiTypeOK /\ PassShape /\ ReqShape /\ DbTypeOK /\ PoolClosesAfterSweeps
      /\ lock \in Pass \cup {Other, None}
  BY DEF BaseInv, ApiTypeOK, DbTypeOK
<1>2. None \notin Conn \cup Pass /\ Other \notin Pass
  BY ApiProcessAssumption
<1>3. CASE OtherLocks \/ OtherEnds
  <2>1. UNCHANGED <<phase, db, req, pass, faults>> /\ lock' \in {Other, None}
    BY <1>3 DEF OtherLocks, OtherEnds
  <2>2. lock \in {Other, None}
    BY <1>3 DEF OtherLocks, OtherEnds
  <2>3. PassShape'
    BY <1>1, <1>2, <2>1, <2>2 DEF PassShape
  <2>4. ReqShape' /\ PoolClosesAfterSweeps'
    BY <1>1, <2>1 DEF ReqShape, PoolClosesAfterSweeps
  <2>5. ApiTypeOK'
    BY <1>1, <2>1 DEF ApiTypeOK, db
  <2> QED
    BY <2>3, <2>4, <2>5 DEF BaseInv
<1>4. CASE Shutdown \/ ClosePool \/ Boot
  <2>1. UNCHANGED <<db, req, sweepVars>> /\ phase' \in {"up", "draining", "closing"}
        /\ faults' \in 0..MaxFaults
    BY <1>1, <1>4, FaultTypes DEF Shutdown, ClosePool, Boot
  <2>2. PassShape' /\ ReqShape'
    BY <1>1, <2>1 DEF PassShape, ReqShape, sweepVars
  <2>3. PoolClosesAfterSweeps'
    BY <1>4 DEF Shutdown, ClosePool, Boot, Drained, PoolClosesAfterSweeps, sweepVars
  <2>4. ApiTypeOK'
    BY <1>1, <2>1 DEF ApiTypeOK, db, sweepVars
  <2> QED
    BY <2>2, <2>3, <2>4 DEF BaseInv
<1>5. CASE Exit \/ ForcedExit
  <2>1. Die
    BY <1>5 DEF Exit, ForcedExit
  <2> DEFINE cut(r) == [NotArrived EXCEPT !.pc = "cut", !.gone = req[r].gone]
  <2>2. \A r \in Request : req[r] \in RequestState /\ cut(r) \in RequestState /\ cut(r).pc = "cut"
    BY <1>1, DeadRecord DEF ApiTypeOK, RequestState
  <2>3. req' = [r \in Request |->
                  IF req[r].pc \in {"none", "answered"} THEN req[r] ELSE cut(r)]
    BY <2>1 DEF Die
  <2> HIDE DEF cut
  <2>4. req' \in [Request -> RequestState]
    BY <2>2, <2>3
  <2>5. ReqShape'
    BY <1>1, <2>2, <2>3 DEF ReqShape
  <2>6. \A p \in Pass : pass'[p] = IdlePass
    BY <2>1 DEF Die
  <2>7. IdlePass \in PassState /\ IdlePass.pc = "idle" /\ IdlePass.conn = None
    BY DEF IdlePass, PassState
  <2>8. PassShape' /\ PoolClosesAfterSweeps'
    BY <2>6, <2>7 DEF PassShape, PoolClosesAfterSweeps
  <2>9. pass' \in [Pass -> PassState]
    BY <2>1, <2>7 DEF Die
  <2>10. lock' \in Pass \cup {Other, None} /\ phase' = "down" /\ faults' = faults
    BY <1>1, <2>1 DEF Die
  <2>11. free' \in Seq(Conn)
    BY <2>1, PoolSequence DEF Die
  <2>12. tx' \in [Conn -> {"none", "open", "failed"}] /\ pend' \in [Conn -> SUBSET Write]
    BY <2>1 DEF Die
  <2>13. done' \subseteq Write /\ faults' \in 0..MaxFaults
    BY <1>1, <2>1 DEF Die, ApiTypeOK
  <2>14. ApiTypeOK'
    BY <2>4, <2>9, <2>10, <2>11, <2>12, <2>13 DEF ApiTypeOK
  <2> QED
    BY <2>5, <2>8, <2>14 DEF BaseInv
<1> QED
  BY <1>3, <1>4, <1>5

\* They hold when the process has just booted.
LEMMA BaseInit ==
    Init => BaseInv
PROOF
<1> SUFFICES ASSUME Init PROVE BaseInv
  OBVIOUS
<1> DEFINE held == <<>>
<1>1. NotArrived \in RequestState /\ NotArrived.pc = "none" /\ NotArrived.layers = 0
      /\ NotArrived.next = 1
  <2>1. held \in Seq(Conn) /\ 1 \in 1..(NumStatements + 1)
    BY ApiProcessAssumption
  <2>2. NotArrived = [ pc |-> "none", layers |-> 0, held |-> held, db |-> None, next |-> 1,
                       ok |-> TRUE, synced |-> {}, gone |-> FALSE ]
    BY DEF NotArrived
  <2> HIDE DEF held
  <2> QED
    BY <2>1, <2>2 DEF RequestState
<1>2. IdlePass \in PassState /\ IdlePass.pc = "idle" /\ IdlePass.conn = None
  BY DEF IdlePass, PassState
<1>3. req \in [Request -> RequestState] /\ pass \in [Pass -> PassState]
  BY <1>1, <1>2 DEF Init
<1>4. free \in Seq(Conn)
  BY PoolSequence DEF Init
<1>5. 0 \in 0..MaxFaults
  BY ApiProcessAssumption
<1>6. ApiTypeOK
  BY <1>3, <1>4, <1>5 DEF ApiTypeOK, Init
<1>7. ReqShape
  BY <1>1 DEF ReqShape, Init, Layers
<1>8. PassShape /\ PoolClosesAfterSweeps
  BY <1>2 DEF PassShape, PoolClosesAfterSweeps, Init
<1> QED
  BY <1>6, <1>7, <1>8 DEF BaseInv

\* They are inductive.
LEMMA BaseStep ==
    BaseInv /\ [Next]_apiVars => BaseInv'
PROOF
<1> SUFFICES ASSUME BaseInv, [Next]_apiVars PROVE BaseInv'
  OBVIOUS
<1>1. CASE \E r \in Request : Arrive(r) \/ Proceed(r) \/ Disconnect(r)
  BY <1>1, BaseRequestStep
<1>2. CASE \E p \in Pass : Sweep(p)
  BY <1>2, BasePassStep
<1>3. CASE OtherLocks \/ OtherEnds \/ Shutdown \/ ClosePool \/ Exit \/ ForcedExit \/ Boot
  BY <1>3, BaseOtherStep
<1>4. CASE UNCHANGED apiVars
  BY <1>4 DEF apiVars, db, sweepVars, BaseInv, ApiTypeOK, ReqShape, PassShape,
              PoolClosesAfterSweeps
<1> QED
  BY <1>1, <1>2, <1>3, <1>4 DEF Next

\* Every variable keeps its type.
THEOREM ApiTypeCorrect == Spec => []ApiTypeOK
PROOF
<1>1. BaseInv => ApiTypeOK
  BY DEF BaseInv
<1> QED
  BY BaseInit, BaseStep, <1>1, PTL DEF Spec

\* Two passes of the sweep never run at once: the one that runs has the
\* advisory lock (services/scheduler.ts, runJobOnce).
THEOREM SweepsRunOneByOne == Spec => []SweepsAreSerial
PROOF
<1>1. BaseInv => SweepsAreSerial
  BY DEF BaseInv, PassShape, SweepsAreSerial
<1> QED
  BY BaseInit, BaseStep, <1>1, PTL DEF Spec

\* The pool is closed only once no pass runs or waits (index.ts, shutdown).
THEOREM PoolClosesLast == Spec => []PoolClosesAfterSweeps
PROOF
<1>1. BaseInv => PoolClosesAfterSweeps
  BY DEF BaseInv
<1> QED
  BY BaseInit, BaseStep, <1>1, PTL DEF Spec

------------------------------------------------------------------------------
(* CleanInv is inductive.                                                  *)

\* A request that is gone stays so.
LEMMA GoneStays ==
    ASSUME BaseInv, Next
    PROVE  Strays => Strays'
PROOF
<1>1. ApiTypeOK /\ ReqShape /\ \A r \in Request : req[r] \in RequestState
  BY DEF BaseInv, ApiTypeOK
<1>2. SUFFICES ASSUME NEW s \in Request, req[s].gone
               PROVE  req'[s].gone
  BY DEF Strays
<1>3. ASSUME NEW r \in Request, Arrive(r) \/ Proceed(r) \/ Disconnect(r)
      PROVE  req'[s].gone
  <2>1. ASSUME NEW q \in RequestState, req' = [req EXCEPT ![r] = q],
               q.gone = req[r].gone \/ q.gone = TRUE
        PROVE  req'[s].gone
    BY <1>1, <1>2, <2>1 DEF ApiTypeOK
  <2>2. CASE Arrive(r)
    <3> DEFINE q == [req[r] EXCEPT !.pc = "entering"]
    <3>1. q \in RequestState /\ q.gone = req[r].gone
      BY <1>1 DEF RequestState
    <3>2. req' = [req EXCEPT ![r] = q]
      BY <2>2 DEF Arrive
    <3> HIDE DEF q
    <3> QED
      BY <2>1, <3>1, <3>2
  <2>3. CASE Enter(r)
    BY <1>1, <2>1, <2>3, EnterRecord
  <2>4. CASE EnterFails(r) \/ EnterRefused(r)
    BY <1>1, <2>1, <2>4, EnterFailsRecord DEF EnterFails, EnterRefused
  <2>5. CASE Execute(r)
    BY <1>1, <2>1, <2>5, ExecuteRecord
  <2>6. CASE StatementFails(r) \/ Refuse(r)
    BY <1>1, <2>1, <2>6, ThrowRecord DEF StatementFails, Refuse
  <2>7. CASE Finalize(r)
    BY <1>1, <2>1, <2>7, FinalizeRecord
  <2>8. CASE Answer(r)
    <3> DEFINE q == [req[r] EXCEPT !.pc = "answered", !.db = None]
    <3>1. q \in RequestState /\ q.gone = req[r].gone
      BY <1>1 DEF RequestState
    <3>2. req' = [req EXCEPT ![r] = q]
      BY <2>8 DEF Answer
    <3> HIDE DEF q
    <3> QED
      BY <2>1, <3>1, <3>2
  <2>9. CASE Disconnect(r)
    <3> DEFINE held == <<>>
               q == [req[r] EXCEPT !.gone = TRUE, !.held = held]
    <3>1. held \in Seq(Conn) /\ req' = [req EXCEPT ![r] = q]
      BY <2>9 DEF Disconnect
    <3> HIDE DEF held
    <3>2. q \in RequestState /\ q.gone = TRUE
      BY <1>1, <3>1 DEF RequestState
    <3> HIDE DEF q
    <3> QED
      BY <2>1, <3>1, <3>2
  <2> QED
    BY <1>3, <2>2, <2>3, <2>4, <2>5, <2>6, <2>7, <2>8, <2>9 DEF Proceed
<1>4. CASE Exit \/ ForcedExit
  <2> DEFINE cut == [NotArrived EXCEPT !.pc = "cut", !.gone = req[s].gone]
  <2>1. req'[s] = IF req[s].pc \in {"none", "answered"} THEN req[s] ELSE cut
    BY <1>4 DEF Exit, ForcedExit, Die
  <2>2. cut.gone = req[s].gone
    BY <1>1, DeadRecord DEF RequestState
  <2> QED
    BY <1>2, <2>1, <2>2
<1>5. CASE \E p \in Pass : Sweep(p)
  BY <1>2, <1>5 DEF Sweep, Tick, PassBegins, PassRefused, TryLock, PassCommits, PassFails
<1>6. CASE OtherLocks \/ OtherEnds \/ Shutdown \/ ClosePool \/ Boot
  BY <1>2, <1>6 DEF OtherLocks, OtherEnds, Shutdown, ClosePool, Boot
<1> QED
  BY <1>3, <1>4, <1>5, <1>6 DEF Next

\* An unsettled request holds the connection its writes are pending on.
LEMMA LastIsHeld ==
    ASSUME ApiTypeOK, NEW r \in Request, req[r].held # <<>>
    PROVE  Last(req[r].held) \in Conn /\ In(Last(req[r].held), req[r].held)
PROOF
<1>1. req[r].held \in Seq(Conn)
  BY DEF ApiTypeOK, RequestState
<1> QED
  BY <1>1, FrontOf DEF Last

\* What a request's step may change of the connections: nothing that another
\* unsettled request has, and no other request's committed writes.
LEMMA CleanByRequest ==
    ASSUME ApiTypeOK, Clean, NEW r \in Request, NEW q \in RequestState,
           req' = [req EXCEPT ![r] = q], OwnedIn(free', req', pass'),
           \A s \in Request \ {r} :
              Unsettled(req[s]) => /\ tx'[Last(req[s].held)] = tx[Last(req[s].held)]
                                   /\ pend'[Last(req[s].held)] = pend[Last(req[s].held)],
           \A s \in Request \ {r} : Wrote(s, done') = Wrote(s, done),
           \A s \in Request \ {r}, c \in Conn, i \in 1..NumStatements :
              <<s, i>> \in pend'[c] => <<s, i>> \in pend[c],
           \A c \in Conn, i \in 1..NumStatements :
              <<r, i>> \in pend'[c] => Unsettled(q) /\ Last(q.held) = c,
           Sound(r, q, tx', pend', done')
    PROVE  Clean'
PROOF
<1>1. req'[r] = q /\ \A s \in Request \ {r} : req'[s] = req[s]
  BY DEF ApiTypeOK
<1>2. PendIn(pend', req')
  BY <1>1 DEF PendIn, Clean
<1>3. ASSUME NEW s \in Request \ {r}
      PROVE  Sound(s, req[s], tx', pend', done')
  <2>1. Sound(s, req[s], tx, pend, done)
    BY DEF Clean
  <2> QED
    BY <2>1 DEF Sound
<1>4. \A s \in Request : Sound(s, req'[s], tx', pend', done')
  BY <1>1, <1>3
<1> QED
  BY <1>2, <1>4 DEF Clean

\* A step that leaves the requests alone, and every transaction a request is
\* still in, keeps the requests' writes exactly as answered.
LEMMA CleanByPass ==
    ASSUME Clean, UNCHANGED req, OwnedIn(free', req', pass'),
           \A s \in Request :
              Unsettled(req[s]) => /\ tx'[Last(req[s].held)] = tx[Last(req[s].held)]
                                   /\ pend'[Last(req[s].held)] = pend[Last(req[s].held)],
           \A s \in Request : Wrote(s, done') = Wrote(s, done),
           \A s \in Request, c \in Conn, i \in 1..NumStatements :
              <<s, i>> \in pend'[c] => <<s, i>> \in pend[c]
    PROVE  Clean'
PROOF
<1>1. PendIn(pend', req')
  BY DEF PendIn, Clean
<1>2. ASSUME NEW s \in Request
      PROVE  Sound(s, req'[s], tx', pend', done')
  <2>1. Sound(s, req[s], tx, pend, done)
    BY DEF Clean
  <2> QED
    BY <2>1 DEF Sound
<1> QED
  BY <1>1, <1>2 DEF Clean

\* A step that moves no connection.
LEMMA OwnedStill ==
    ASSUME ApiTypeOK, OwnedIn(free, req, pass), NEW r \in Request, NEW q \in RequestState,
           req' = [req EXCEPT ![r] = q], q.held = req[r].held, UNCHANGED <<free, pass>>
    PROVE  OwnedIn(free', req', pass')
PROOF
<1>1. \A s \in Request : req'[s].held = req[s].held
  BY DEF ApiTypeOK
<1> QED
  BY <1>1 DEF OwnedIn

\* A request takes the top of the pool.
LEMMA OwnedByTaker ==
    ASSUME ApiTypeOK, OwnedIn(free, req, pass), NEW r \in Request, NEW q \in RequestState,
           req' = [req EXCEPT ![r] = q], q.held = Append(req[r].held, Top),
           Available, Begin, UNCHANGED pass
    PROVE  OwnedIn(free', req', pass')
PROOF
<1>1. free \in Seq(Conn) /\ free # <<>> /\ req[r].held \in Seq(Conn)
  BY DEF ApiTypeOK, RequestState, Available
<1>2. /\ Top \in Conn /\ In(Top, free) /\ Distinct(free') /\ ~In(Top, free')
      /\ \A c : In(c, free') => In(c, free)
  BY <1>1, FrontOf DEF OwnedIn, Begin, Top
<1>3. \A s \in Request : ~In(Top, req[s].held)
  BY <1>2 DEF OwnedIn
<1>4. Distinct(q.held) /\ \A c : In(c, q.held) <=> In(c, req[r].held) \/ c = Top
  BY <1>1, <1>2, <1>3, AppendOf DEF OwnedIn
<1>5. req'[r] = q /\ \A s \in Request \ {r} : req'[s] = req[s]
  BY DEF ApiTypeOK
<1>6. \A s \in Request : Distinct(req'[s].held)
  BY <1>4, <1>5 DEF OwnedIn
<1>7. \A s \in Request, c \in Conn : In(c, req'[s].held) => ~In(c, free')
  BY <1>2, <1>4, <1>5 DEF OwnedIn
<1>8. \A s, o \in Request, c \in Conn :
         In(c, req'[s].held) /\ In(c, req'[o].held) => s = o
  BY <1>3, <1>4, <1>5 DEF OwnedIn
<1>9. \A p \in Pass : pass'[p].conn \in Conn => ~In(pass'[p].conn, free')
  BY <1>2 DEF OwnedIn
<1>10. \A p \in Pass, s \in Request :
          pass'[p].conn \in Conn => ~In(pass'[p].conn, req'[s].held)
  <2> SUFFICES ASSUME NEW p \in Pass, NEW s \in Request, pass[p].conn \in Conn
               PROVE  ~In(pass[p].conn, req'[s].held)
    OBVIOUS
  <2> DEFINE c == pass[p].conn
  <2>1. ~In(c, free) /\ ~In(c, req[s].held) /\ ~In(c, req[r].held)
    BY DEF OwnedIn
  <2>2. c # Top
    BY <1>2, <2>1
  <2> HIDE DEF c
  <2>3. ~In(c, q.held)
    BY <1>4, <2>1, <2>2, Zenon
  <2>4. req'[s] = IF s = r THEN q ELSE req[s]
    BY <1>5, Zenon
  <2>5. ~In(c, req'[s].held)
    BY <2>1, <2>3, <2>4, Zenon
  <2> QED
    BY <2>5 DEF c
<1>11. \A p, o \in Pass : pass'[p].conn \in Conn /\ pass'[p].conn = pass'[o].conn => p = o
  BY DEF OwnedIn
<1> QED
  BY <1>2, <1>6, <1>7, <1>8, <1>9, <1>10, <1>11 DEF OwnedIn

\* A request releases its innermost connection.
LEMMA OwnedByReleaser ==
    ASSUME ApiTypeOK, OwnedIn(free, req, pass), NEW r \in Request, NEW q \in RequestState,
           req' = [req EXCEPT ![r] = q], req[r].held # <<>>,
           q.held = SubSeq(req[r].held, 1, Len(req[r].held) - 1),
           free' = Append(free, Last(req[r].held)), UNCHANGED pass
    PROVE  OwnedIn(free', req', pass')
PROOF
<1> DEFINE d == Last(req[r].held)
<1>1. free \in Seq(Conn) /\ req[r].held \in Seq(Conn) /\ Distinct(req[r].held)
  BY DEF ApiTypeOK, RequestState, OwnedIn
<1>2. /\ d \in Conn /\ In(d, req[r].held) /\ Distinct(q.held) /\ ~In(d, q.held)
      /\ \A c : In(c, q.held) => In(c, req[r].held)
  BY <1>1, FrontOf DEF Last
<1>3. ~In(d, free) /\ \A s \in Request \ {r} : ~In(d, req[s].held)
  BY <1>2 DEF OwnedIn
<1>4. free' = Append(free, d)
  OBVIOUS
<1> HIDE DEF d
<1>5. Distinct(free') /\ \A c : In(c, free') <=> In(c, free) \/ c = d
  BY <1>1, <1>2, <1>3, <1>4, AppendOf DEF OwnedIn
<1>6. req'[r] = q /\ \A s \in Request \ {r} : req'[s] = req[s]
  BY DEF ApiTypeOK
<1>7. \A s \in Request : Distinct(req'[s].held)
  BY <1>2, <1>6 DEF OwnedIn
<1>8. \A s \in Request, c \in Conn : In(c, req'[s].held) => ~In(c, free')
  BY <1>2, <1>3, <1>5, <1>6 DEF OwnedIn
<1>9. \A s, o \in Request, c \in Conn :
         In(c, req'[s].held) /\ In(c, req'[o].held) => s = o
  BY <1>2, <1>6 DEF OwnedIn
<1>10. \A p \in Pass : pass'[p].conn \in Conn => ~In(pass'[p].conn, free')
  BY <1>2, <1>5 DEF OwnedIn
<1>11. \A p \in Pass, s \in Request :
          pass'[p].conn \in Conn => ~In(pass'[p].conn, req'[s].held)
  BY <1>2, <1>6 DEF OwnedIn
<1>12. \A p, o \in Pass : pass'[p].conn \in Conn /\ pass'[p].conn = pass'[o].conn => p = o
  BY DEF OwnedIn
<1> QED
  BY <1>5, <1>7, <1>8, <1>9, <1>10, <1>11, <1>12 DEF OwnedIn

\* A pass takes the top of the pool, or gives its connection back.
LEMMA OwnedByPass ==
    ASSUME ApiTypeOK, OwnedIn(free, req, pass), UNCHANGED req,
           NEW p \in Pass, NEW q \in PassState, pass' = [pass EXCEPT ![p] = q],
           \/ Available /\ Begin /\ q.conn = Top
           \/ UNCHANGED free /\ q.conn = pass[p].conn
           \/ UNCHANGED free /\ q.conn = None
           \/ pass[p].conn \in Conn /\ free' = Append(free, pass[p].conn) /\ q.conn = None
    PROVE  OwnedIn(free', req', pass')
PROOF
<1>1. free \in Seq(Conn) /\ None \notin Conn
  BY ApiProcessAssumption DEF ApiTypeOK
<1>2. pass'[p] = q /\ \A o \in Pass \ {p} : pass'[o] = pass[o]
  BY DEF ApiTypeOK
<1>3. CASE Available /\ Begin /\ q.conn = Top
  <2>1. /\ Top \in Conn /\ In(Top, free) /\ Distinct(free') /\ ~In(Top, free')
        /\ \A c : In(c, free') => In(c, free)
    BY <1>1, <1>3, FrontOf DEF OwnedIn, Begin, Top, Available
  <2>2. \A s \in Request, c \in Conn : In(c, req'[s].held) => ~In(c, free')
    BY <2>1 DEF OwnedIn
  <2>3. \A o \in Pass : pass'[o].conn \in Conn => ~In(pass'[o].conn, free')
    BY <1>2, <1>3, <2>1 DEF OwnedIn
  <2>4. \A o \in Pass, s \in Request :
           pass'[o].conn \in Conn => ~In(pass'[o].conn, req'[s].held)
    BY <1>2, <1>3, <2>1 DEF OwnedIn
  <2>5. \A o, u \in Pass :
           pass'[o].conn \in Conn /\ pass'[o].conn = pass'[u].conn => o = u
    BY <1>2, <1>3, <2>1 DEF OwnedIn
  <2> QED
    BY <2>1, <2>2, <2>3, <2>4, <2>5 DEF OwnedIn
<1>4. CASE UNCHANGED free /\ (q.conn = pass[p].conn \/ q.conn = None)
  BY <1>1, <1>2, <1>4 DEF OwnedIn
<1>5. CASE pass[p].conn \in Conn /\ free' = Append(free, pass[p].conn) /\ q.conn = None
  <2> DEFINE d == pass[p].conn
  <2>1. d \in Conn /\ ~In(d, free) /\ \A s \in Request : ~In(d, req[s].held)
    BY <1>5 DEF OwnedIn
  <2>2. \A o \in Pass \ {p} : pass[o].conn # d
    BY <1>5 DEF OwnedIn
  <2>3. free' = Append(free, d)
    BY <1>5
  <2> HIDE DEF d
  <2>4. Distinct(free') /\ \A c : In(c, free') <=> In(c, free) \/ c = d
    BY <1>1, <2>1, <2>3, AppendOf DEF OwnedIn
  <2>5. \A s \in Request, c \in Conn : In(c, req'[s].held) => ~In(c, free')
    BY <2>1, <2>4 DEF OwnedIn
  <2>6. \A o \in Pass : pass'[o].conn \in Conn => ~In(pass'[o].conn, free')
    BY <1>1, <1>2, <1>5, <2>2, <2>4 DEF OwnedIn
  <2>7. \A o \in Pass, s \in Request :
           pass'[o].conn \in Conn => ~In(pass'[o].conn, req'[s].held)
    BY <1>1, <1>2, <1>5 DEF OwnedIn
  <2>8. \A o, u \in Pass :
           pass'[o].conn \in Conn /\ pass'[o].conn = pass'[u].conn => o = u
    BY <1>1, <1>2, <1>5 DEF OwnedIn
  <2> QED
    BY <2>4, <2>5, <2>6, <2>7, <2>8 DEF OwnedIn
<1> QED
  BY <1>3, <1>4, <1>5

\* A connection that an unsettled request holds is nobody else's.
LEMMA HeldByOne ==
    ASSUME ApiTypeOK, OwnedIn(free, req, pass)
    PROVE  /\ \A s \in Request : Unsettled(req[s]) =>
                 Last(req[s].held) \in Conn /\ ~In(Last(req[s].held), free)
           /\ \A s, o \in Request : Unsettled(req[s]) /\ In(Last(req[s].held), req[o].held)
                 => s = o
           /\ \A s \in Request, p \in Pass : Unsettled(req[s]) /\ pass[p].conn \in Conn
                 => Last(req[s].held) # pass[p].conn
PROOF
<1>1. \A s \in Request : Unsettled(req[s]) =>
         Last(req[s].held) \in Conn /\ In(Last(req[s].held), req[s].held)
  BY LastIsHeld DEF Unsettled
<1> QED
  BY <1>1 DEF OwnedIn

\* A request that arrives or is answered writes nothing.
LEMMA CleanArrive ==
    ASSUME BaseInv, Clean, NEW r \in Request, Arrive(r) \/ Answer(r)
    PROVE  Clean'
PROOF
<1>1. /\ ApiTypeOK /\ OwnedIn(free, req, pass) /\ req[r] \in RequestState
      /\ Sound(r, req[r], tx, pend, done) /\ PendIn(pend, req)
  BY DEF BaseInv, ApiTypeOK, Clean
<1> DEFINE q == IF req[r].pc = "none" THEN [req[r] EXCEPT !.pc = "entering"]
                ELSE [req[r] EXCEPT !.pc = "answered", !.db = None]
<1>2. /\ q \in RequestState /\ q.held = req[r].held /\ q.layers = req[r].layers
      /\ q.synced = req[r].synced /\ q.ok = req[r].ok
      /\ q.pc = IF req[r].pc = "none" THEN "entering" ELSE "answered"
  <2>1. CASE req[r].pc = "none"
    BY <1>1, <2>1 DEF RequestState
  <2>2. CASE req[r].pc # "none"
    BY <1>1, <2>2 DEF RequestState
  <2> QED
    BY <2>1, <2>2
<1>3. req' = [req EXCEPT ![r] = q] /\ UNCHANGED <<free, tx, pend, done, pass>>
  <2>1. CASE Arrive(r)
    BY <2>1 DEF Arrive, db, sweepVars
  <2>2. CASE Answer(r)
    BY <2>2 DEF Answer, db, sweepVars
  <2> QED
    BY <2>1, <2>2
<1>4. /\ \/ req[r].pc = "none"
         \/ req[r].pc = "answering" /\ req[r].held = <<>>
      /\ ~Unsettled(req[r])
  <2>1. CASE Arrive(r)
    BY <2>1 DEF Arrive, Unsettled
  <2>2. CASE Answer(r)
    BY <2>2 DEF Answer, Unsettled
  <2> QED
    BY <2>1, <2>2
<1> HIDE DEF q
<1>5. OwnedIn(free', req', pass')
  BY <1>1, <1>2, <1>3, OwnedStill
<1>6. \A c \in Conn, i \in 1..NumStatements : ~(<<r, i>> \in pend[c])
  BY <1>1, <1>4 DEF PendIn
<1>7. Sound(r, q, tx, pend, done)
  BY <1>1, <1>2, <1>4 DEF Sound, Unsettled
<1> QED
  BY <1>1, <1>2, <1>3, <1>5, <1>6, <1>7, CleanByRequest

\* Taking a client opens an empty transaction.
LEMMA CleanEnter ==
    ASSUME BaseInv, Clean, NEW r \in Request, Enter(r)
    PROVE  Clean'
PROOF
<1>1. /\ ApiTypeOK /\ ReqShape /\ OwnedIn(free, req, pass) /\ req[r] \in RequestState
      /\ Sound(r, req[r], tx, pend, done) /\ PendIn(pend, req)
      /\ req[r].pc = "entering" /\ tx \in [Conn -> {"none", "open", "failed"}]
  BY DEF BaseInv, ApiTypeOK, Clean, Enter
<1>2. PICK q \in RequestState :
        /\ req' = [req EXCEPT ![r] = q]
        /\ q.pc = IF req[r].layers + 1 = Layers(r) THEN "running" ELSE "entering"
        /\ q.layers = req[r].layers + 1 /\ q.layers <= Layers(r)
        /\ q.held = Append(req[r].held, Top) /\ q.db = Top
        /\ q.ok = req[r].ok /\ q.synced = req[r].synced
  BY <1>1, EnterRecord
<1>3. /\ Top \in Conn /\ In(Top, free)
      /\ q.held # <<>> /\ Last(q.held) = Top /\ Len(q.held) = Len(req[r].held) + 1
  <2>1. free \in Seq(Conn) /\ free # <<>> /\ req[r].held \in Seq(Conn)
    BY <1>1 DEF ApiTypeOK, RequestState, Enter, Available
  <2>2. Top \in Conn /\ In(Top, free)
    BY <2>1, FrontOf DEF Top
  <2> HIDE DEF Top
  <2>3. LET a == Append(req[r].held, Top) IN
        a # <<>> /\ Last(a) = Top /\ Len(a) = Len(req[r].held) + 1
    BY <2>1, <2>2, AppendOf
  <2> QED
    BY <1>2, <2>2, <2>3
<1>4. /\ UNCHANGED <<pend, done, pass>> /\ tx'[Top] = "open"
      /\ \A c \in Conn \ {Top} : tx'[c] = tx[c]
  BY <1>1, <1>3 DEF Enter, Begin, sweepVars
<1>5. OwnedIn(free', req', pass')
  <2>1. Available /\ Begin /\ pass' = pass
    BY <1>4 DEF Enter
  <2>2. /\ ApiTypeOK /\ OwnedIn(free, req, pass)
        /\ req' = [req EXCEPT ![r] = q] /\ q.held = Append(req[r].held, Top)
    BY <1>1, <1>2
  <2> QED
    BY <2>1, <2>2, OwnedByTaker
<1>6. \A s \in Request : Unsettled(req[s]) =>
         /\ tx'[Last(req[s].held)] = tx[Last(req[s].held)]
         /\ pend'[Last(req[s].held)] = pend[Last(req[s].held)]
  BY <1>1, <1>3, <1>4, HeldByOne
<1>7. \A c \in Conn, i \in 1..NumStatements : ~(<<r, i>> \in pend[c])
  BY <1>1 DEF PendIn, Unsettled
<1>8. Sound(r, q, tx', pend', done')
  <2>1. /\ req[r].ok /\ Len(req[r].held) = req[r].layers /\ Wrote(r, done) = {}
        /\ req[r].synced = {} /\ req[r].layers \in 0..2
    BY <1>1 DEF Sound, RequestState
  <2>2. Wrote(r, pend'[Top]) = {}
    BY <1>3, <1>4, <1>7 DEF Wrote
  <2>3. Len(q.held) = q.layers /\ q.layers # 0 /\ q.pc \in {"entering", "running"}
    BY <1>2, <1>3, <2>1
  <2> QED
    BY <1>2, <1>3, <1>4, <2>1, <2>2, <2>3 DEF Sound
<1> QED
  BY <1>1, <1>2, <1>4, <1>5, <1>6, <1>7, <1>8, CleanByRequest

\* A request that gets no client has written nothing.
LEMMA CleanEnterFails ==
    ASSUME BaseInv, Clean, NEW r \in Request, EnterFails(r) \/ EnterRefused(r)
    PROVE  Clean'
PROOF
<1>1. /\ ApiTypeOK /\ OwnedIn(free, req, pass) /\ req[r] \in RequestState
      /\ Sound(r, req[r], tx, pend, done) /\ PendIn(pend, req)
      /\ req[r].pc = "entering" /\ tx \in [Conn -> {"none", "open", "failed"}]
  BY DEF BaseInv, ApiTypeOK, Clean, EnterFails, EnterRefused
<1>2. PICK q \in RequestState :
        /\ req' = [req EXCEPT ![r] = q]
        /\ q.pc = "answering" /\ q.ok = FALSE
        /\ q.held = req[r].held /\ q.layers = req[r].layers /\ q.synced = req[r].synced
  BY <1>1, EnterFailsRecord DEF EnterFails, EnterRefused
<1>3. UNCHANGED <<free, pend, done, pass>>
  BY DEF EnterFails, EnterRefused, db, sweepVars
<1>4. \A c \in Conn : ~In(c, free) => tx'[c] = tx[c]
  <2>1. CASE EnterFails(r)
    <3>1. In(Top, free)
      BY <1>1, <2>1, FrontOf DEF ApiTypeOK, EnterFails, Available, Top
    <3> QED
      BY <1>1, <2>1, <3>1 DEF EnterFails
  <2>2. CASE EnterRefused(r)
    BY <2>2 DEF EnterRefused, db
  <2> QED
    BY <2>1, <2>2
<1>5. OwnedIn(free', req', pass')
  BY <1>1, <1>2, <1>3, OwnedStill
<1>6. \A s \in Request : Unsettled(req[s]) =>
         /\ tx'[Last(req[s].held)] = tx[Last(req[s].held)]
         /\ pend'[Last(req[s].held)] = pend[Last(req[s].held)]
  BY <1>1, <1>3, <1>4, HeldByOne
<1>7. \A c \in Conn, i \in 1..NumStatements : ~(<<r, i>> \in pend[c])
  BY <1>1 DEF PendIn, Unsettled
<1>8. Sound(r, q, tx', pend', done')
  BY <1>1, <1>2, <1>3 DEF Sound
<1> QED
  BY <1>1, <1>2, <1>3, <1>5, <1>6, <1>7, <1>8, CleanByRequest

\* A statement adds its own write to the transaction of the request that runs
\* it, and nothing to another's.
LEMMA CleanExecute ==
    ASSUME BaseInv, Clean, NEW r \in Request, Execute(r)
    PROVE  Clean'
PROOF
<1> DEFINE d == req[r].db
           n == req[r].next
<1>1. /\ ApiTypeOK /\ ReqShape /\ OwnedIn(free, req, pass) /\ req[r] \in RequestState
      /\ Sound(r, req[r], tx, pend, done) /\ PendIn(pend, req)
      /\ req[r].pc = "running" /\ tx \in [Conn -> {"none", "open", "failed"}]
      /\ pend \in [Conn -> SUBSET Write]
  BY DEF BaseInv, ApiTypeOK, Clean, Execute
<1>2. PICK q \in RequestState :
        /\ req' = [req EXCEPT ![r] = q]
        /\ q.pc \in {"running", "answering"}
        /\ q.held = req[r].held /\ q.layers = req[r].layers /\ q.db = req[r].db
        /\ q.synced = req[r].synced \cup {req[r].next} /\ q.ok = req[r].ok
  BY <1>1, ExecuteRecord
<1>3. /\ req[r].ok /\ Len(req[r].held) = req[r].layers /\ Wrote(r, done) = {}
      /\ req[r].layers # 0 /\ d = Last(req[r].held)
  BY <1>1 DEF Sound
<1>4. Unsettled(req[r]) /\ Unsettled(q)
  <2>1. req[r].held # <<>>
    BY <1>3
  <2> QED
    BY <1>1, <1>2, <1>3, <2>1 DEF Unsettled
<1>5. d \in Conn /\ n \in 1..NumStatements
  BY <1>1, ApiProcessAssumption DEF ReqShape, RequestState
<1>6. tx[d] = "open" /\ Wrote(r, pend[d]) = req[r].synced
  BY <1>1, <1>3, <1>4, <1>5 DEF Sound, Execute
<1>7. /\ UNCHANGED <<free, tx, done, pass>> /\ pend'[d] = pend[d] \cup {<<r, n>>}
      /\ \A c \in Conn \ {d} : pend'[c] = pend[c]
  BY <1>1, <1>5, <1>6 DEF Execute, sweepVars
<1> HIDE DEF d, n
<1>8. OwnedIn(free', req', pass')
  BY <1>1, <1>2, <1>7, OwnedStill
<1>9. In(d, req[r].held)
  BY <1>1, <1>3, <1>4, LastIsHeld DEF Unsettled
<1>10. \A s \in Request \ {r} : Unsettled(req[s]) =>
          /\ tx'[Last(req[s].held)] = tx[Last(req[s].held)]
          /\ pend'[Last(req[s].held)] = pend[Last(req[s].held)]
  BY <1>1, <1>7, <1>9, HeldByOne
<1>11. \A s \in Request \ {r}, c \in Conn, i \in 1..NumStatements :
          <<s, i>> \in pend'[c] => <<s, i>> \in pend[c]
  BY <1>5, <1>7
<1>12. \A c \in Conn, i \in 1..NumStatements :
          <<r, i>> \in pend'[c] => Unsettled(q) /\ Last(q.held) = c
  BY <1>1, <1>2, <1>3, <1>4, <1>5, <1>7 DEF PendIn
<1>13. Wrote(r, pend'[d]) = q.synced
  <2>1. Wrote(r, pend'[d]) = Wrote(r, pend[d]) \cup {n}
    BY <1>5, <1>7 DEF Wrote
  <2> QED
    BY <1>2, <1>6, <2>1 DEF n
<1>14. Sound(r, q, tx', pend', done')
  <2>1. Last(q.held) = d /\ tx'[d] = "open" /\ Wrote(r, done') = {}
    BY <1>2, <1>3, <1>6, <1>7
  <2>2. /\ Len(q.held) = q.layers /\ q.layers # 0 /\ q.layers \in 0..2
        /\ q.pc # "running" \/ q.db = Last(q.held)
    BY <1>1, <1>2, <1>3 DEF RequestState, d
  <2> QED
    BY <1>2, <1>3, <1>4, <1>13, <2>1, <2>2 DEF Sound
<1> QED
  BY <1>1, <1>2, <1>7, <1>8, <1>10, <1>11, <1>12, <1>14, CleanByRequest

\* A statement that fails or a handler that refuses leaves its writes to be
\* rolled back: they are not committed.
LEMMA CleanThrow ==
    ASSUME BaseInv, Clean, NEW r \in Request, StatementFails(r) \/ Refuse(r)
    PROVE  Clean'
PROOF
<1> DEFINE d == req[r].db
<1>1. /\ ApiTypeOK /\ ReqShape /\ OwnedIn(free, req, pass) /\ req[r] \in RequestState
      /\ Sound(r, req[r], tx, pend, done) /\ PendIn(pend, req)
      /\ req[r].pc = "running" /\ tx \in [Conn -> {"none", "open", "failed"}]
      /\ Throw(r)
  BY DEF BaseInv, ApiTypeOK, Clean, StatementFails, Refuse
<1>2. PICK q \in RequestState :
        /\ req' = [req EXCEPT ![r] = q]
        /\ q.pc \in {"running", "answering"}
        /\ q.held = req[r].held /\ q.layers = req[r].layers /\ q.db = req[r].db
        /\ q.synced = req[r].synced
        /\ \/ r \in BatchRequest /\ q.ok = req[r].ok
           \/ q.pc = "answering" /\ q.ok = FALSE
  BY <1>1, ThrowRecord
<1>3. /\ req[r].ok /\ Len(req[r].held) = req[r].layers /\ Wrote(r, done) = {}
      /\ req[r].layers # 0 /\ d = Last(req[r].held)
  BY <1>1 DEF Sound
<1>4. Unsettled(req[r]) /\ Unsettled(q)
  <2>1. req[r].held # <<>>
    BY <1>3
  <2> QED
    BY <1>1, <1>2, <1>3, <2>1 DEF Unsettled
<1>5. d \in Conn
  BY <1>1 DEF ReqShape
<1>6. /\ tx[d] # "none" /\ (tx[d] = "failed" => r \in BatchRequest)
      /\ tx[d] = "open" => Wrote(r, pend[d]) = req[r].synced
  BY <1>1, <1>3, <1>4 DEF Sound
<1>7. /\ UNCHANGED <<free, pend, done, pass>> /\ \A c \in Conn \ {d} : tx'[c] = tx[c]
      /\ tx'[d] = tx[d] \/ tx'[d] = "failed"
  BY <1>1, <1>5 DEF StatementFails, Refuse, db, sweepVars
<1> HIDE DEF d
<1>8. OwnedIn(free', req', pass')
  BY <1>1, <1>2, <1>7, OwnedStill
<1>9. In(d, req[r].held)
  BY <1>1, <1>3, <1>4, LastIsHeld DEF Unsettled
<1>10. \A s \in Request \ {r} : Unsettled(req[s]) =>
          /\ tx'[Last(req[s].held)] = tx[Last(req[s].held)]
          /\ pend'[Last(req[s].held)] = pend[Last(req[s].held)]
  BY <1>1, <1>7, <1>9, HeldByOne
<1>11. \A c \in Conn, i \in 1..NumStatements :
          <<r, i>> \in pend[c] => Unsettled(q) /\ Last(q.held) = c
  BY <1>1, <1>2, <1>3, <1>4 DEF PendIn
<1>12. Sound(r, q, tx', pend', done')
  <2>1. Last(q.held) = d /\ Wrote(r, done') = {} /\ Wrote(r, pend'[d]) = Wrote(r, pend[d])
    BY <1>2, <1>3, <1>7
  <2>2. /\ Len(q.held) = q.layers /\ q.layers # 0 /\ q.layers \in 0..2
        /\ q.pc # "running" \/ q.db = Last(q.held)
    BY <1>1, <1>2, <1>3 DEF RequestState, d
  <2>3. (q.ok => r \in BatchRequest) /\ (q.pc = "running" => q.ok)
    BY <1>2, <1>3
  <2> QED
    BY <1>2, <1>3, <1>4, <1>6, <1>7, <2>1, <2>2, <2>3 DEF Sound
<1> QED
  BY <1>1, <1>2, <1>7, <1>8, <1>10, <1>11, <1>12, CleanByRequest

\* What is committed with a connection that request r, or a pass, has.
LEMMA CommitBringsOwn ==
    ASSUME ApiTypeOK, OwnedIn(free, req, pass), PendIn(pend, req), NEW d \in Conn,
           NEW s \in Request, ~In(d, req[s].held),
           CommitAndRelease(d) \/ RollbackAndRelease(<<d>>)
    PROVE  Wrote(s, done') = Wrote(s, done)
PROOF
<1>1. \A i \in 1..NumStatements : ~(<<s, i>> \in pend[d])
  <2>1. ASSUME Unsettled(req[s]), Last(req[s].held) = d PROVE FALSE
    BY <2>1, LastIsHeld DEF Unsettled
  <2> QED
    BY <2>1 DEF PendIn
<1>2. \A i \in 1..NumStatements : <<s, i>> \in done' <=> <<s, i>> \in done
  <2>1. CASE CommitAndRelease(d)
    BY <1>1, <2>1 DEF CommitAndRelease
  <2>2. CASE RollbackAndRelease(<<d>>)
    BY <2>2 DEF RollbackAndRelease
  <2> QED
    BY <2>1, <2>2
<1> QED
  BY <1>2 DEF Wrote

\* What the release of a connection makes of the connections.
LEMMA ReleaseFacts ==
    ASSUME ApiTypeOK, NEW d \in Conn, CommitAndRelease(d) \/ RollbackAndRelease(<<d>>)
    PROVE  /\ free' = Append(free, d) /\ tx'[d] = "none" /\ pend'[d] = {}
           /\ \A c \in Conn \ {d} : tx'[c] = tx[c] /\ pend'[c] = pend[c]
PROOF
<1>1. /\ free \in Seq(Conn) /\ tx \in [Conn -> {"none", "open", "failed"}]
      /\ pend \in [Conn -> SUBSET Write]
  BY DEF ApiTypeOK
<1>2. CASE CommitAndRelease(d)
  BY <1>1, <1>2 DEF CommitAndRelease
<1>3. CASE RollbackAndRelease(<<d>>)
  <2>1. free \o <<d>> = Append(free, d) /\ ToSet(<<d>>) = {d}
    BY <1>1, ReleaseOne
  <2> QED
    BY <1>1, <1>3, <2>1 DEF RollbackAndRelease
<1> QED
  BY <1>2, <1>3

\* onResponse commits the writes of exactly the requests that did not fail.
LEMMA CleanFinalize ==
    ASSUME BaseInv, Clean, NEW r \in Request, Finalize(r)
    PROVE  Clean'
PROOF
<1> DEFINE d == Last(req[r].held)
<1>1. /\ ApiTypeOK /\ OwnedIn(free, req, pass) /\ req[r] \in RequestState
      /\ Sound(r, req[r], tx, pend, done) /\ PendIn(pend, req)
      /\ req[r].pc = "answering" /\ req[r].held # <<>>
      /\ tx \in [Conn -> {"none", "open", "failed"}] /\ UNCHANGED pass
  BY DEF BaseInv, ApiTypeOK, Clean, Finalize, sweepVars
<1>2. PICK q \in RequestState :
        /\ req' = [req EXCEPT ![r] = q]
        /\ q.held = SubSeq(req[r].held, 1, Len(req[r].held) - 1)
        /\ q.pc = "answering" /\ q.ok = req[r].ok
        /\ q.layers = req[r].layers /\ q.synced = req[r].synced
  BY <1>1, FinalizeRecord
<1>3. Len(q.held) = Len(req[r].held) - 1 /\ Len(req[r].held) \in Nat \ {0}
  BY <1>1, <1>2, FrontOf DEF RequestState
<1>4. ~Unsettled(q) /\ Len(q.held) <= q.layers
  <2>1. Len(req[r].held) <= q.layers /\ q.layers \in 0..2
    BY <1>1, <1>2 DEF Sound, RequestState
  <2> QED
    BY <1>3, <2>1 DEF Unsettled
<1>5. d \in Conn /\ In(d, req[r].held)
  BY <1>1, LastIsHeld
<1>6. IF req[r].ok THEN CommitAndRelease(d) ELSE RollbackAndRelease(<<d>>)
  BY DEF Finalize, Last
<1>7. d = Last(req[r].held)
  OBVIOUS
<1> HIDE DEF d
<1>8. CommitAndRelease(d) \/ RollbackAndRelease(<<d>>)
  BY <1>6
<1>9. /\ free' = Append(free, d) /\ tx'[d] = "none" /\ pend'[d] = {}
      /\ \A c \in Conn \ {d} : tx'[c] = tx[c] /\ pend'[c] = pend[c]
  BY <1>1, <1>5, <1>8, ReleaseFacts
<1>10. OwnedIn(free', req', pass')
  BY <1>1, <1>2, <1>7, <1>9, OwnedByReleaser
<1>11. \A s \in Request \ {r} : Unsettled(req[s]) =>
          /\ tx'[Last(req[s].held)] = tx[Last(req[s].held)]
          /\ pend'[Last(req[s].held)] = pend[Last(req[s].held)]
  BY <1>1, <1>5, <1>9, HeldByOne
<1>12. \A s \in Request \ {r} : Wrote(s, done') = Wrote(s, done)
  <2>1. \A s \in Request \ {r} : ~In(d, req[s].held)
    BY <1>1, <1>5 DEF OwnedIn
  <2> QED
    BY <1>1, <1>5, <1>8, <2>1, CommitBringsOwn
<1>13. \A s \in Request, c \in Conn, i \in 1..NumStatements :
          <<s, i>> \in pend'[c] => <<s, i>> \in pend[c] /\ c # d
  BY <1>5, <1>9
<1>14. \A c \in Conn, i \in 1..NumStatements : ~(<<r, i>> \in pend'[c])
  BY <1>1, <1>7, <1>13 DEF PendIn
<1>15. Sound(r, q, tx', pend', done')
  <2>1. CASE ~req[r].ok
    <3>1. done' = done
      BY <1>6, <2>1 DEF RollbackAndRelease
    <3>2. Wrote(r, done') = {} /\ ~q.ok
      BY <1>1, <1>2, <2>1, <3>1 DEF Sound
    <3> QED
      BY <1>2, <1>4, <3>2 DEF Sound
  <2>2. CASE req[r].ok
    <3>1. done' = IF tx[d] = "open" THEN done \cup pend[d] ELSE done
      BY <1>6, <2>2 DEF CommitAndRelease
    <3>2. \/ Wrote(r, done') = {} /\ r \in BatchRequest
          \/ Wrote(r, done') = q.synced
      <4>1. CASE Unsettled(req[r])
        <5>1. /\ Wrote(r, done) = {} /\ tx[d] # "none"
              /\ tx[d] = "failed" => r \in BatchRequest
              /\ tx[d] = "open" => Wrote(r, pend[d]) = req[r].synced
          BY <1>1, <1>7, <2>2, <4>1 DEF Sound
        <5>2. CASE tx[d] = "open"
          BY <1>2, <3>1, <5>1, <5>2 DEF Wrote
        <5>3. CASE tx[d] = "failed"
          BY <3>1, <5>1, <5>3
        <5> QED
          BY <1>1, <1>5, <5>1, <5>2, <5>3
      <4>2. CASE ~Unsettled(req[r])
        <5>1. \A i \in 1..NumStatements : ~(<<r, i>> \in pend[d])
          BY <1>1, <1>5, <4>2 DEF PendIn
        <5>2. Wrote(r, done') = Wrote(r, done)
          BY <3>1, <5>1 DEF Wrote
        <5> QED
          BY <1>1, <1>2, <2>2, <4>2, <5>2 DEF Sound
      <4> QED
        BY <4>1, <4>2
    <3>3. q.ok
      BY <1>2, <2>2
    <3> QED
      BY <1>2, <1>4, <3>2, <3>3 DEF Sound
  <2> QED
    BY <2>1, <2>2
<1> QED
  BY <1>1, <1>2, <1>10, <1>11, <1>12, <1>13, <1>14, <1>15, CleanByRequest

\* A pass of the scheduler commits or rolls back its own transaction only.
LEMMA CleanSweep ==
    ASSUME BaseInv, Clean, NEW p \in Pass, Sweep(p)
    PROVE  Clean'
PROOF
<1>1. /\ ApiTypeOK /\ PassShape /\ OwnedIn(free, req, pass) /\ PendIn(pend, req)
      /\ pass[p] \in PassState /\ tx \in [Conn -> {"none", "open", "failed"}]
  BY DEF BaseInv, ApiTypeOK, Clean
<1>2. IdlePass \in PassState /\ IdlePass.conn = None
  BY DEF IdlePass, PassState
<1>3. UNCHANGED req
  BY DEF Sweep, Tick, PassBegins, PassRefused, TryLock, PassCommits, PassFails
<1>4. CASE Tick(p) \/ TryLock(p)
  <2>1. UNCHANGED <<free, tx, pend, done>>
    BY <1>4 DEF Tick, TryLock, db
  <2>2. PICK x : pass' = [pass EXCEPT ![p].pc = x] /\ x \in {"entering", "sweeping", "skipping"}
    BY <1>4 DEF Tick, TryLock
  <2> DEFINE q == [pass[p] EXCEPT !.pc = x]
  <2>3. q \in PassState /\ q.conn = pass[p].conn /\ pass' = [pass EXCEPT ![p] = q]
    BY <1>1, <2>2 DEF PassState
  <2> HIDE DEF q
  <2>4. OwnedIn(free', req', pass')
    BY <1>1, <1>3, <2>1, <2>3, OwnedByPass
  <2> QED
    BY <1>3, <2>1, <2>4, CleanByPass
<1>5. CASE PassBegins(p)
  <2> DEFINE q == [pc |-> "locking", conn |-> Top]
  <2>1. Top \in Conn /\ In(Top, free)
    BY <1>1, <1>5, FrontOf DEF ApiTypeOK, PassBegins, Available, Top
  <2>2. UNCHANGED <<pend, done>> /\ \A c \in Conn \ {Top} : tx'[c] = tx[c]
    BY <1>1, <1>5, <2>1 DEF PassBegins, Begin
  <2>3. q \in PassState /\ q.conn = Top /\ pass' = [pass EXCEPT ![p] = q]
    BY <1>5, <2>1 DEF PassState, PassBegins
  <2> HIDE DEF q
  <2>4. OwnedIn(free', req', pass')
    BY <1>1, <1>3, <1>5, <2>3, OwnedByPass DEF PassBegins
  <2>5. \A s \in Request : Unsettled(req[s]) =>
           /\ tx'[Last(req[s].held)] = tx[Last(req[s].held)]
           /\ pend'[Last(req[s].held)] = pend[Last(req[s].held)]
    BY <1>1, <2>1, <2>2, HeldByOne
  <2> QED
    BY <1>3, <2>2, <2>4, <2>5, CleanByPass
<1>6. CASE PassRefused(p)
  <2>1. Top \in Conn /\ In(Top, free)
    BY <1>1, <1>6, FrontOf DEF ApiTypeOK, PassRefused, Available, Top
  <2>2. UNCHANGED <<free, pend, done>> /\ \A c \in Conn \ {Top} : tx'[c] = tx[c]
    BY <1>1, <1>6, <2>1 DEF PassRefused
  <2>3. pass' = [pass EXCEPT ![p] = IdlePass]
    BY <1>6 DEF PassRefused
  <2>4. OwnedIn(free', req', pass')
    BY <1>1, <1>2, <1>3, <2>2, <2>3, OwnedByPass
  <2>5. \A s \in Request : Unsettled(req[s]) =>
           /\ tx'[Last(req[s].held)] = tx[Last(req[s].held)]
           /\ pend'[Last(req[s].held)] = pend[Last(req[s].held)]
    BY <1>1, <2>1, <2>2, HeldByOne
  <2> QED
    BY <1>3, <2>2, <2>4, <2>5, CleanByPass
<1>7. CASE PassCommits(p) \/ PassFails(p)
  <2> DEFINE d == pass[p].conn
  <2>1. d \in Conn
    BY <1>1, <1>7 DEF PassCommits, PassFails, PassShape, PassState
  <2>2. CommitAndRelease(d) \/ RollbackAndRelease(<<d>>)
    BY <1>7 DEF PassCommits, PassFails
  <2>3. /\ free' = Append(free, d) /\ tx'[d] = "none" /\ pend'[d] = {}
        /\ \A c \in Conn \ {d} : tx'[c] = tx[c] /\ pend'[c] = pend[c]
    BY <1>1, <2>1, <2>2, ReleaseFacts
  <2>4. pass' = [pass EXCEPT ![p] = IdlePass]
    BY <1>7 DEF PassCommits, PassFails, EndPass
  <2>5. OwnedIn(free', req', pass')
    BY <1>1, <1>2, <1>3, <2>1, <2>3, <2>4, OwnedByPass
  <2>6. \A s \in Request : Unsettled(req[s]) =>
           /\ tx'[Last(req[s].held)] = tx[Last(req[s].held)]
           /\ pend'[Last(req[s].held)] = pend[Last(req[s].held)]
    BY <1>1, <2>1, <2>3, HeldByOne
  <2>7. \A s \in Request : ~In(d, req[s].held)
    BY <1>1, <2>1 DEF OwnedIn
  <2>8. \A s \in Request : Wrote(s, done') = Wrote(s, done)
    BY <1>1, <2>1, <2>2, <2>7, CommitBringsOwn
  <2>9. \A s \in Request, c \in Conn, i \in 1..NumStatements :
           <<s, i>> \in pend'[c] => <<s, i>> \in pend[c]
    BY <2>3
  <2> QED
    BY <1>3, <2>5, <2>6, <2>8, <2>9, CleanByPass
<1> QED
  BY <1>4, <1>5, <1>6, <1>7 DEF Sweep

\* When the process dies the database rolls back whatever was open.
LEMMA CleanDie ==
    ASSUME BaseInv, Clean, Die
    PROVE  Clean'
PROOF
<1>1. /\ req \in [Request -> RequestState] /\ None \notin Conn
      /\ \A r \in Request : req[r] \in RequestState /\ Sound(r, req[r], tx, pend, done)
  BY ApiProcessAssumption DEF BaseInv, ApiTypeOK, Clean
<1> DEFINE cut(r) == [NotArrived EXCEPT !.pc = "cut", !.gone = req[r].gone]
<1>2. \A r \in Request : /\ cut(r).pc = "cut" /\ cut(r).held = <<>>
                         /\ cut(r).ok = TRUE /\ cut(r).layers = 0
  BY <1>1, DeadRecord DEF RequestState
<1>3. \A r \in Request :
         req'[r] = IF req[r].pc \in {"none", "answered"} THEN req[r] ELSE cut(r)
  BY DEF Die
<1> HIDE DEF cut
<1>4. \A r \in Request : req'[r].held = <<>>
  BY <1>1, <1>2, <1>3 DEF Sound
<1>5. /\ free' = SetToSeq(Conn) /\ done' = done
      /\ \A c \in Conn : pend'[c] = {}
      /\ \A p \in Pass : pass'[p].conn = None
  BY DEF Die, IdlePass
<1>6. Distinct(free') /\ Distinct(<<>>) /\ \A c : ~In(c, <<>>)
  BY <1>5, PoolSequence DEF Distinct, In
<1>7. OwnedIn(free', req', pass')
  BY <1>1, <1>4, <1>5, <1>6 DEF OwnedIn
<1>8. PendIn(pend', req')
  BY <1>5 DEF PendIn
<1>9. ASSUME NEW r \in Request
      PROVE  Sound(r, req'[r], tx', pend', done')
  <2>1. CASE req[r].pc \in {"none", "answered"}
    <3>1. req'[r] = req[r] /\ ~Unsettled(req[r])
      BY <1>3, <2>1 DEF Unsettled
    <3> QED
      BY <1>1, <1>5, <3>1 DEF Sound
  <2>2. CASE req[r].pc \notin {"none", "answered"}
    <3>1. req'[r] = cut(r)
      BY <1>3, <2>2
    <3>2. ~Unsettled(cut(r)) /\ Len(cut(r).held) = 0
      BY <1>2 DEF Unsettled
    <3> QED
      BY <1>2, <3>1, <3>2 DEF Sound
  <2> QED
    BY <2>1, <2>2
<1> QED
  BY <1>7, <1>8, <1>9 DEF Clean

\* That the database holds what answered requests wrote is inductive.
LEMMA CleanStep ==
    ASSUME BaseInv, CleanInv, [Next]_apiVars
    PROVE  CleanInv'
PROOF
<1>1. CASE UNCHANGED apiVars
  BY <1>1 DEF CleanInv, Clean, Strays, apiVars, db, sweepVars
<1>2. CASE Next
  <2>1. SUFFICES ASSUME ~Strays' PROVE Clean'
    BY DEF CleanInv
  <2>2. Clean
    BY <1>2, <2>1, GoneStays DEF CleanInv
  <2>3. ASSUME NEW r \in Request, Arrive(r) \/ Proceed(r) \/ Disconnect(r)
        PROVE  Clean'
    <3>1. CASE Disconnect(r)
      <4>1. req'[r].gone
        <5> DEFINE held == <<>>
                   q == [req[r] EXCEPT !.gone = TRUE, !.held = held]
        <5>1. req' = [req EXCEPT ![r] = q] /\ held \in Seq(Conn)
          BY <3>1 DEF Disconnect
        <5> HIDE DEF held
        <5>2. q.gone = TRUE
          BY <5>1 DEF BaseInv, ApiTypeOK, RequestState
        <5> HIDE DEF q
        <5> QED
          BY <5>1, <5>2 DEF BaseInv, ApiTypeOK
      <4> QED
        BY <2>1, <4>1 DEF Strays
    <3> QED
      BY <2>2, <2>3, <3>1, CleanArrive, CleanEnter, CleanEnterFails, CleanExecute,
         CleanThrow, CleanFinalize DEF Proceed
  <2>4. CASE \E p \in Pass : Sweep(p)
    BY <2>2, <2>4, CleanSweep
  <2>5. CASE OtherLocks \/ OtherEnds \/ Shutdown \/ ClosePool \/ Boot
    <3>1. UNCHANGED <<free, tx, pend, done, req, pass>>
      BY <2>5 DEF OtherLocks, OtherEnds, Shutdown, ClosePool, Boot, db, sweepVars
    <3> QED
      BY <2>2, <3>1 DEF Clean
  <2>6. CASE Exit \/ ForcedExit
    BY <2>2, <2>6, CleanDie DEF Exit, ForcedExit
  <2> QED
    BY <1>2, <2>3, <2>4, <2>5, <2>6 DEF Next
<1> QED
  BY <1>1, <1>2

\* It holds when nothing has run yet.
LEMMA CleanInit ==
    Init => CleanInv
PROOF
<1> SUFFICES ASSUME Init PROVE Clean
  BY DEF CleanInv
<1>1. \A r \in Request : /\ req[r].pc = "none" /\ req[r].held = <<>> /\ req[r].ok
                         /\ req[r].layers = 0 /\ req[r].synced = {}
  BY DEF Init, NotArrived
<1>2. Distinct(free) /\ Distinct(<<>>) /\ \A c : ~In(c, <<>>)
  BY PoolSequence DEF Distinct, In, Init
<1>3. \A p \in Pass : pass[p].conn = None
  BY DEF Init, IdlePass
<1>4. OwnedIn(free, req, pass)
  BY <1>1, <1>2, <1>3, ApiProcessAssumption DEF OwnedIn
<1>5. PendIn(pend, req)
  BY DEF Init, PendIn
<1>6. ASSUME NEW r \in Request
      PROVE  Sound(r, req[r], tx, pend, done)
  <2>1. ~Unsettled(req[r]) /\ Len(req[r].held) = 0
    BY <1>1 DEF Unsettled
  <2>2. Wrote(r, done) = {}
    BY DEF Init, Wrote
  <2> QED
    BY <1>1, <2>1, <2>2 DEF Sound
<1> QED
  BY <1>4, <1>5, <1>6 DEF Clean

\* An answer of success comes after the commit of everything it reports, and
\* one of failure leaves nothing, as long as no handler outlives its request
\* (middleware/tenant.ts, withTenantDb).
THEOREM AnswersAreCommitted == Spec => []AnsweredMeansCommitted
PROOF
<1>1. Init => ApiInv
  BY BaseInit, CleanInit DEF ApiInv
<1>2. ApiInv /\ [Next]_apiVars => ApiInv'
  BY BaseStep, CleanStep DEF ApiInv
<1>3. ApiInv => AnsweredMeansCommitted
  <2> SUFFICES ASSUME ApiInv, ~Strays, NEW r \in Request, req[r].pc = "answered"
               PROVE  \/ Wrote(r, done) = {} /\ (r \in BatchRequest \/ ~req[r].ok)
                      \/ Wrote(r, done) = req[r].synced /\ req[r].ok
    BY DEF AnsweredMeansCommitted, Wrote
  <2>1. Sound(r, req[r], tx, pend, done) /\ req[r].ok \in BOOLEAN
    BY DEF ApiInv, CleanInv, Clean, BaseInv, ApiTypeOK, RequestState
  <2>2. ~Unsettled(req[r])
    BY DEF Unsettled
  <2> QED
    BY <2>1, <2>2 DEF Sound
<1> QED
  BY <1>1, <1>2, <1>3, PTL DEF Spec

------------------------------------------------------------------------------
(* No connection is lost, whatever clients do, and so a pool that has more *)
(* connections than there are admin requests in flight never locks up.     *)

\* Every connection is idle in the pool, with a request or with a pass.
NoneLost ==
    \A c \in Conn : \/ In(c, free)
                    \/ \E r \in Request : In(c, req[r].held)
                    \/ \E p \in Pass : pass[p].conn = c

\* A request has at most one connection per router it has entered.
Shallow == \A r \in Request : Len(req[r].held) <= req[r].layers

PoolInv == BaseInv /\ NoneLost /\ Shallow

\* The requests under /api/v1/admin that are being served.
AdminInFlight == {r \in AdminRequest : req[r].pc \in {"entering", "running", "answering"}}

\* Every connection is in the sequence the pool starts with.
LEMMA PoolHasAll ==
    ASSUME NEW c \in Conn
    PROVE  In(c, SetToSeq(Conn))
PROOF
<1> DEFINE n == Cardinality(Conn)
           f == SetToSeq(Conn)
<1>1. n \in Nat /\ f \in [1..n -> Conn] /\ \A a, b \in 1..n : f[a] = f[b] => a = b
  BY PoolIndex
<1> HIDE DEF f
<1>2. f \in Injection(1..n, Conn)
  BY <1>1 DEF Injection, IsInjective
<1>3. Cardinality(1..n) = Cardinality(Conn)
  BY <1>1, FS_Interval
<1>4. f \in Surjection(1..n, Conn)
  BY <1>2, <1>3, FS_Injection, ApiProcessAssumption
<1>5. PICK i \in 1..n : f[i] = c
  BY <1>4 DEF Surjection
<1>6. Len(f) = n
  BY <1>1
<1>7. In(c, f)
  BY <1>5, <1>6 DEF In
<1> QED
  BY <1>7 DEF f

\* Taking the last element of a sequence keeps the others there.
LEMMA FrontKeeps ==
    ASSUME NEW s \in Seq(Conn), s # <<>>, NEW c, In(c, s), c # s[Len(s)]
    PROVE  In(c, SubSeq(s, 1, Len(s) - 1))
PROOF
<1> DEFINE n == Len(s) - 1
<1>1. n \in Nat /\ n \in Int /\ 1 \in Int /\ \A i \in 1..n : s[i] \in Conn
  OBVIOUS
<1>2. PICK i \in 1..Len(s) : s[i] = c
  BY DEF In
<1>3. i \in 1..n
  BY <1>1, <1>2
<1> HIDE DEF n
<1>4. /\ Len(SubSeq(s, 1, n)) = IF 1 <= n THEN n - 1 + 1 ELSE 0
      /\ \A j \in 1..(n - 1 + 1) : SubSeq(s, 1, n)[j] = s[1 + j - 1]
  BY ONLY <1>1, SubSeqProperties
<1>5. n - 1 + 1 = n /\ 1 <= n /\ 1 + i - 1 = i
  BY <1>1, <1>3
<1>6. Len(SubSeq(s, 1, n)) = n /\ SubSeq(s, 1, n)[i] = c
  BY <1>2, <1>3, <1>4, <1>5
<1>7. In(c, SubSeq(s, 1, n))
  BY <1>3, <1>6 DEF In
<1> QED
  BY <1>7 DEF n

\* What is in either of two sequences is in their concatenation.
LEMMA ConcatHasBoth ==
    ASSUME NEW s \in Seq(Conn), NEW t \in Seq(Conn), NEW c, In(c, s) \/ In(c, t)
    PROVE  In(c, s \o t)
PROOF
<1>1. /\ Len(s) \in Nat /\ Len(t) \in Nat /\ Len(s \o t) = Len(s) + Len(t)
      /\ \A i \in 1..Len(s) : (s \o t)[i] = s[i]
      /\ \A i \in 1..Len(t) : (s \o t)[Len(s) + i] = t[i]
  OBVIOUS
<1>2. CASE In(c, s)
  BY <1>1, <1>2 DEF In
<1>3. CASE In(c, t)
  <2>1. PICK i \in 1..Len(t) : t[i] = c
    BY <1>3 DEF In
  <2>2. Len(s) + i \in 1..Len(s \o t) /\ (s \o t)[Len(s) + i] = c
    BY <1>1, <2>1
  <2> QED
    BY <2>2 DEF In
<1> QED
  BY <1>2, <1>3

\* A request's step passes connections between it and the pool only.
LEMMA KeptByRequest ==
    ASSUME ApiTypeOK, NoneLost, Shallow, NEW r \in Request, NEW q \in RequestState,
           req' = [req EXCEPT ![r] = q], UNCHANGED pass, Len(q.held) <= q.layers,
           \A c \in Conn : In(c, free) \/ In(c, req[r].held) => In(c, free') \/ In(c, q.held)
    PROVE  NoneLost' /\ Shallow'
PROOF
<1>1. req'[r] = q /\ \A s \in Request \ {r} : req'[s] = req[s]
  BY DEF ApiTypeOK
<1>2. Shallow'
  BY <1>1 DEF Shallow
<1>3. ASSUME NEW c \in Conn
      PROVE  \/ In(c, free')
             \/ \E s \in Request : In(c, req'[s].held)
             \/ \E p \in Pass : pass'[p].conn = c
  <2>1. CASE In(c, free) \/ In(c, req[r].held)
    BY <1>1, <2>1
  <2>2. CASE \E s \in Request \ {r} : In(c, req[s].held)
    BY <1>1, <2>2
  <2>3. CASE \E p \in Pass : pass[p].conn = c
    BY <2>3
  <2> QED
    BY <2>1, <2>2, <2>3 DEF NoneLost
<1> QED
  BY <1>2, <1>3 DEF NoneLost

\* A step of a pass passes a connection between it and the pool only.
LEMMA KeptByPass ==
    ASSUME ApiTypeOK, NoneLost, Shallow, NEW p \in Pass, NEW q \in PassState,
           pass' = [pass EXCEPT ![p] = q], UNCHANGED req,
           \A c \in Conn : In(c, free) \/ pass[p].conn = c => In(c, free') \/ q.conn = c
    PROVE  NoneLost' /\ Shallow'
PROOF
<1>1. pass'[p] = q /\ \A o \in Pass \ {p} : pass'[o] = pass[o]
  BY DEF ApiTypeOK
<1>2. Shallow'
  BY DEF Shallow
<1>3. ASSUME NEW c \in Conn
      PROVE  \/ In(c, free')
             \/ \E s \in Request : In(c, req'[s].held)
             \/ \E o \in Pass : pass'[o].conn = c
  <2>1. CASE In(c, free) \/ pass[p].conn = c
    BY <1>1, <2>1
  <2>2. CASE \E o \in Pass \ {p} : pass[o].conn = c
    BY <1>1, <2>2
  <2>3. CASE \E s \in Request : In(c, req[s].held)
    BY <2>3
  <2> QED
    BY <2>1, <2>2, <2>3 DEF NoneLost
<1> QED
  BY <1>2, <1>3 DEF NoneLost

\* BEGIN takes nothing from the pool but its top.
LEMMA BeginKeeps ==
    ASSUME ApiTypeOK, Available, Begin, NEW c, In(c, free), c # Top
    PROVE  In(c, free')
PROOF
  BY FrontKeeps DEF ApiTypeOK, Available, Begin, Top

\* A connection that is released is in the pool with the others.
LEMMA ReleaseKeeps ==
    ASSUME ApiTypeOK, NEW d \in Conn, CommitAndRelease(d) \/ RollbackAndRelease(<<d>>),
           NEW c, In(c, free) \/ c = d
    PROVE  In(c, free')
PROOF
<1>1. free \in Seq(Conn) /\ free' = Append(free, d)
  BY ReleaseFacts DEF ApiTypeOK
<1> QED
  BY <1>1, AppendOf

\* Whatever a request does, no connection is lost.
LEMMA KeptRequestStep ==
    ASSUME PoolInv, NEW r \in Request, Arrive(r) \/ Proceed(r) \/ Disconnect(r)
    PROVE  NoneLost' /\ Shallow'
PROOF
<1>1. /\ ApiTypeOK /\ ReqShape /\ NoneLost /\ Shallow /\ req[r] \in RequestState
      /\ free \in Seq(Conn) /\ req[r].held \in Seq(Conn)
      /\ Len(req[r].held) \in Nat /\ Len(req[r].held) <= req[r].layers
      /\ req[r].layers \in 0..2
  BY DEF PoolInv, BaseInv, ApiTypeOK, RequestState, Shallow
<1>2. UNCHANGED pass
  BY DEF Arrive, Proceed, Disconnect, Enter, EnterFails, EnterRefused, Execute,
         StatementFails, Refuse, Finalize, Answer, sweepVars
<1>3. ASSUME NEW q \in RequestState, req' = [req EXCEPT ![r] = q], UNCHANGED free,
             q.held = req[r].held, q.layers = req[r].layers
      PROVE  NoneLost' /\ Shallow'
  BY <1>1, <1>2, <1>3, KeptByRequest
<1>4. CASE Arrive(r)
  <2> DEFINE q == [req[r] EXCEPT !.pc = "entering"]
  <2>1. q \in RequestState /\ q.held = req[r].held /\ q.layers = req[r].layers
    BY <1>1 DEF RequestState
  <2>2. req' = [req EXCEPT ![r] = q] /\ UNCHANGED free
    BY <1>4 DEF Arrive, db
  <2> HIDE DEF q
  <2> QED
    BY <1>3, <2>1, <2>2
<1>5. CASE Enter(r)
  <2>1. PICK q \in RequestState :
          /\ req' = [req EXCEPT ![r] = q]
          /\ q.layers = req[r].layers + 1
          /\ q.held = Append(req[r].held, Top)
    BY <1>1, <1>5, EnterRecord
  <2>2. Available /\ Begin /\ Top \in Conn
    BY <1>1, <1>5, FrontOf DEF Enter, Available, Top
  <2>3. Len(q.held) <= q.layers
    BY <1>1, <2>1, <2>2, AppendOf
  <2>4. \A c : In(c, q.held) <=> In(c, req[r].held) \/ c = Top
    BY <1>1, <2>1, <2>2, AppendOf
  <2>5. \A c \in Conn : In(c, free) => In(c, free') \/ c = Top
    BY <1>1, <2>2, BeginKeeps
  <2>6. \A c \in Conn : In(c, free) \/ In(c, req[r].held) => In(c, free') \/ In(c, q.held)
    BY <2>4, <2>5
  <2> QED
    BY <1>1, <1>2, <2>1, <2>3, <2>6, KeptByRequest
<1>6. CASE EnterFails(r) \/ EnterRefused(r)
  <2>1. UNCHANGED free /\ req' = Failed(r)
    BY <1>6 DEF EnterFails, EnterRefused, db
  <2> QED
    BY <1>1, <1>3, <2>1, EnterFailsRecord
<1>7. CASE Execute(r)
  <2>1. UNCHANGED free
    BY <1>7 DEF Execute
  <2> QED
    BY <1>1, <1>3, <1>7, <2>1, ExecuteRecord
<1>8. CASE StatementFails(r) \/ Refuse(r)
  <2>1. UNCHANGED free /\ req[r].pc = "running" /\ Throw(r)
    BY <1>8 DEF StatementFails, Refuse, db
  <2> QED
    BY <1>1, <1>3, <2>1, ThrowRecord
<1>9. CASE Finalize(r)
  <2> DEFINE d == req[r].held[Len(req[r].held)]
  <2>1. PICK q \in RequestState :
          /\ req' = [req EXCEPT ![r] = q]
          /\ q.held = SubSeq(req[r].held, 1, Len(req[r].held) - 1)
          /\ q.layers = req[r].layers
    BY <1>1, <1>9, FinalizeRecord
  <2>2. req[r].held # <<>> /\ (CommitAndRelease(d) \/ RollbackAndRelease(<<d>>))
    BY <1>9 DEF Finalize
  <2>3. d \in Conn /\ Len(q.held) = Len(req[r].held) - 1
    BY <1>1, <2>1, <2>2, FrontOf
  <2>4. Len(q.held) <= q.layers
    BY <1>1, <2>1, <2>3
  <2>5. \A c \in Conn : In(c, req[r].held) => In(c, q.held) \/ c = d
    BY <1>1, <2>1, <2>2, FrontKeeps
  <2> HIDE DEF d
  <2>6. \A c \in Conn : In(c, free) \/ c = d => In(c, free')
    BY <1>1, <2>2, <2>3, ReleaseKeeps
  <2>7. \A c \in Conn : In(c, free) \/ In(c, req[r].held) => In(c, free') \/ In(c, q.held)
    BY <2>5, <2>6
  <2> QED
    BY <1>1, <1>2, <2>1, <2>4, <2>7, KeptByRequest
<1>10. CASE Answer(r)
  <2> DEFINE q == [req[r] EXCEPT !.pc = "answered", !.db = None]
  <2>1. q \in RequestState /\ q.held = req[r].held /\ q.layers = req[r].layers
    BY <1>1 DEF RequestState
  <2>2. req' = [req EXCEPT ![r] = q] /\ UNCHANGED free
    BY <1>10 DEF Answer, db
  <2> HIDE DEF q
  <2> QED
    BY <1>3, <2>1, <2>2
<1>11. CASE Disconnect(r)
  <2> DEFINE held == <<>>
             q == [req[r] EXCEPT !.gone = TRUE, !.held = held]
  <2>1. /\ held \in Seq(Conn) /\ Len(held) = 0 /\ req' = [req EXCEPT ![r] = q]
        /\ free' = free \o req[r].held
    BY <1>11 DEF Disconnect, RollbackAndRelease
  <2> HIDE DEF held
  <2>2. q \in RequestState /\ q.held = held /\ q.layers = req[r].layers
    BY <1>1, <2>1 DEF RequestState
  <2> HIDE DEF q
  <2>3. Len(q.held) <= q.layers
    BY <1>1, <2>1, <2>2
  <2>4. \A c \in Conn : In(c, free) \/ In(c, req[r].held) => In(c, free')
    BY <1>1, <2>1, ConcatHasBoth
  <2> QED
    BY <1>1, <1>2, <2>1, <2>2, <2>3, <2>4, KeptByRequest
<1> QED
  BY <1>4, <1>5, <1>6, <1>7, <1>8, <1>9, <1>10, <1>11 DEF Proceed

\* Whatever a pass of the scheduler does, no connection is lost.
LEMMA KeptPassStep ==
    ASSUME PoolInv, NEW p \in Pass, Sweep(p)
    PROVE  NoneLost' /\ Shallow'
PROOF
<1>1. /\ ApiTypeOK /\ PassShape /\ NoneLost /\ Shallow /\ pass[p] \in PassState
      /\ None \notin Conn
  BY ApiProcessAssumption DEF PoolInv, BaseInv, ApiTypeOK
<1>2. IdlePass \in PassState
  BY DEF IdlePass, PassState
<1>3. UNCHANGED req
  BY DEF Sweep, Tick, PassBegins, PassRefused, TryLock, PassCommits, PassFails
<1>4. CASE Tick(p) \/ TryLock(p)
  <2>1. UNCHANGED free
    BY <1>4 DEF Tick, TryLock, db
  <2>2. PICK x : pass' = [pass EXCEPT ![p].pc = x] /\ x \in {"entering", "sweeping", "skipping"}
    BY <1>4 DEF Tick, TryLock
  <2> DEFINE q == [pass[p] EXCEPT !.pc = x]
  <2>3. q \in PassState /\ q.conn = pass[p].conn /\ pass' = [pass EXCEPT ![p] = q]
    BY <1>1, <2>2 DEF PassState
  <2> HIDE DEF q
  <2> QED
    BY <1>1, <1>3, <2>1, <2>3, KeptByPass
<1>5. CASE PassBegins(p)
  <2> DEFINE q == [pc |-> "locking", conn |-> Top]
  <2>1. Available /\ Begin /\ Top \in Conn /\ pass[p].conn = None
    BY <1>1, <1>5, FrontOf DEF ApiTypeOK, PassShape, PassBegins, Available, Top
  <2>2. q \in PassState /\ q.conn = Top /\ pass' = [pass EXCEPT ![p] = q]
    BY <1>5, <2>1 DEF PassState, PassBegins
  <2> HIDE DEF q
  <2>3. \A c \in Conn : In(c, free) \/ pass[p].conn = c => In(c, free') \/ q.conn = c
    BY <1>1, <2>1, <2>2, BeginKeeps
  <2> QED
    BY <1>1, <1>3, <2>2, <2>3, KeptByPass
<1>6. CASE PassRefused(p)
  <2>1. UNCHANGED free /\ pass' = [pass EXCEPT ![p] = IdlePass] /\ pass[p].conn = None
    BY <1>1, <1>6 DEF PassRefused, PassShape
  <2>2. \A c \in Conn : In(c, free) \/ pass[p].conn = c => In(c, free')
    BY <1>1, <2>1
  <2> QED
    BY <1>1, <1>2, <1>3, <2>1, <2>2, KeptByPass
<1>7. CASE PassCommits(p) \/ PassFails(p)
  <2> DEFINE d == pass[p].conn
  <2>1. d \in Conn /\ (CommitAndRelease(d) \/ RollbackAndRelease(<<d>>))
    BY <1>1, <1>7 DEF PassCommits, PassFails, PassShape, PassState
  <2>2. pass' = [pass EXCEPT ![p] = IdlePass]
    BY <1>7 DEF PassCommits, PassFails, EndPass
  <2>3. \A c \in Conn : In(c, free) \/ d = c => In(c, free')
    BY <1>1, <2>1, ReleaseKeeps
  <2> QED
    BY <1>1, <1>2, <1>3, <2>2, <2>3, KeptByPass
<1> QED
  BY <1>4, <1>5, <1>6, <1>7 DEF Sweep

\* A process that ends gives every connection back.
LEMMA KeptDie ==
    ASSUME PoolInv, Die
    PROVE  NoneLost' /\ Shallow'
PROOF
<1>1. free' = SetToSeq(Conn)
  BY DEF Die
<1>2. NoneLost'
  BY <1>1, PoolHasAll DEF NoneLost
<1> DEFINE cut(r) == [NotArrived EXCEPT !.pc = "cut", !.gone = req[r].gone]
<1>3. \A r \in Request : req[r].gone \in BOOLEAN /\ Len(req[r].held) <= req[r].layers
  BY DEF PoolInv, BaseInv, ApiTypeOK, RequestState, Shallow
<1>4. \A r \in Request : cut(r).held = <<>> /\ cut(r).layers = 0
  BY <1>3, DeadRecord, Zenon
<1>5. \A r \in Request :
         req'[r] = IF req[r].pc \in {"none", "answered"} THEN req[r] ELSE cut(r)
  BY DEF Die
<1> HIDE DEF cut
<1>6. Shallow'
  BY <1>3, <1>4, <1>5 DEF Shallow
<1> QED
  BY <1>2, <1>6

\* Where the connections are is an inductive matter.
LEMMA PoolStep ==
    ASSUME PoolInv, [Next]_apiVars
    PROVE  PoolInv'
PROOF
<1>1. BaseInv'
  BY BaseStep DEF PoolInv
<1>2. NoneLost' /\ Shallow'
  <2>1. CASE \E r \in Request : Arrive(r) \/ Proceed(r) \/ Disconnect(r)
    BY <2>1, KeptRequestStep
  <2>2. CASE \E p \in Pass : Sweep(p)
    BY <2>2, KeptPassStep
  <2>3. CASE OtherLocks \/ OtherEnds \/ Shutdown \/ ClosePool \/ Boot \/ UNCHANGED apiVars
    <3>1. UNCHANGED <<free, req, pass>>
      BY <2>3 DEF OtherLocks, OtherEnds, Shutdown, ClosePool, Boot, apiVars, db, sweepVars
    <3> QED
      BY <3>1 DEF PoolInv, NoneLost, Shallow
  <2>4. CASE Exit \/ ForcedExit
    BY <2>4, KeptDie DEF Exit, ForcedExit
  <2> QED
    BY <2>1, <2>2, <2>3, <2>4 DEF Next
<1> QED
  BY <1>1, <1>2 DEF PoolInv

\* It holds when the process has just booted.
LEMMA PoolInit ==
    Init => PoolInv
PROOF
<1> SUFFICES ASSUME Init PROVE PoolInv
  OBVIOUS
<1>1. BaseInv
  BY BaseInit
<1>2. NoneLost
  BY PoolHasAll DEF Init, NoneLost
<1>3. \A r \in Request : req[r].held = <<>> /\ req[r].layers = 0
  BY DEF Init, NotArrived
<1>4. Shallow
  BY <1>3 DEF Shallow
<1> QED
  BY <1>1, <1>2, <1>4 DEF PoolInv

\* When the pool is locked up, each connection is all that an admin request
\* has, which waits for its second one.
LEMMA LockedUpPool ==
    ASSUME PoolInv, ~PoolNeverDeadlocks, NEW c \in Conn
    PROVE  \E r \in AdminInFlight : req[r].held[1] = c
PROOF
<1>1. /\ free = <<>> /\ \A r \in Request : req[r].held # <<>> => req[r].pc = "entering"
      /\ \A p \in Pass : pass[p].conn = None
  BY DEF PoolNeverDeadlocks, Holders
<1>2. None \notin Conn /\ ~In(c, <<>>)
  BY ApiProcessAssumption DEF In
<1>3. PICK r \in Request : In(c, req[r].held)
  BY <1>1, <1>2 DEF PoolInv, NoneLost
<1>4. /\ req[r] \in RequestState /\ Len(req[r].held) \in Nat /\ Len(req[r].held) <= req[r].layers
      /\ req[r].layers \in 0..2
  BY DEF PoolInv, BaseInv, ApiTypeOK, RequestState, Shallow
<1>5. PICK i \in 1..Len(req[r].held) : req[r].held[i] = c
  BY <1>3 DEF In
<1>6. req[r].held # <<>> /\ req[r].pc = "entering"
  BY <1>1, <1>4, <1>5
<1>7. req[r].layers < Layers(r) /\ req[r].layers # 0
  BY <1>4, <1>5, <1>6 DEF PoolInv, BaseInv, ReqShape
<1>8. r \in AdminRequest /\ req[r].layers = 1
  BY <1>4, <1>7 DEF Layers
<1>9. i = 1
  BY <1>4, <1>5, <1>8
<1> QED
  BY <1>5, <1>6, <1>8, <1>9 DEF AdminInFlight

\* A pool that has more connections than there are requests under
\* /api/v1/admin in flight never ends with everyone who has a connection
\* waiting for another one, whatever the clients and the sweeps do
\* (middleware/tenant.ts, withTenantDb; config/database.ts).
THEOREM LargerPoolNeverDeadlocks ==
    Spec => [](IsFiniteSet(AdminInFlight) /\ Cardinality(AdminInFlight) < Cardinality(Conn)
               => PoolNeverDeadlocks)
PROOF
<1>1. PoolInv /\ [Next]_apiVars => PoolInv'
  BY PoolStep
<1>2. PoolInv => (IsFiniteSet(AdminInFlight) /\ Cardinality(AdminInFlight) < Cardinality(Conn)
                  => PoolNeverDeadlocks)
  <2> SUFFICES ASSUME PoolInv, IsFiniteSet(AdminInFlight),
                      Cardinality(AdminInFlight) < Cardinality(Conn), ~PoolNeverDeadlocks
               PROVE  FALSE
    OBVIOUS
  <2> DEFINE S == {r \in AdminInFlight : req[r].held[1] \in Conn}
             first == [r \in S |-> req[r].held[1]]
  <2>1. S \in SUBSET AdminInFlight /\ first \in [S -> Conn]
    OBVIOUS
  <2>2. \A c \in Conn : \E r \in S : first[r] = c
    BY LockedUpPool
  <2> HIDE DEF S, first
  <2>3. IsFiniteSet(S) /\ Cardinality(S) <= Cardinality(AdminInFlight)
    BY <2>1, FS_Subset
  <2>4. first \in Surjection(S, Conn)
    BY <2>1, <2>2 DEF Surjection
  <2>5. Cardinality(Conn) <= Cardinality(S)
    BY <2>3, <2>4, FS_Surjection
  <2>6. /\ Cardinality(Conn) \in Nat /\ Cardinality(S) \in Nat
        /\ Cardinality(AdminInFlight) \in Nat
    BY <2>3, FS_CardinalityType, ApiProcessAssumption
  <2> QED
    BY <2>3, <2>5, <2>6
<1> QED
  BY <1>1, <1>2, PoolInit, PTL DEF Spec

------------------------------------------------------------------------------
(* Each connection has one owner, whatever clients do.                     *)

\* A request that has not begun or is over has no connection.
Settled == \A r \in Request : req[r].pc \in {"none", "answered"} => req[r].held = <<>>

OwnerInv == PoolInv /\ OwnedIn(free, req, pass) /\ Settled

\* What is in a concatenation.
LEMMA ConcatOf ==
    ASSUME NEW s \in Seq(Conn), NEW t \in Seq(Conn)
    PROVE  /\ \A c : In(c, s \o t) => In(c, s) \/ In(c, t)
           /\ Distinct(s) /\ Distinct(t) /\ (\A c \in Conn : In(c, t) => ~In(c, s))
                 => Distinct(s \o t)
PROOF
<1> DEFINE u == s \o t
           n == Len(s)
           m == Len(t)
<1>1. /\ n \in Nat /\ m \in Nat /\ Len(u) = n + m
      /\ \A i \in 1..n : u[i] = s[i]
      /\ \A i \in (n + 1)..(n + m) : u[i] = t[i - n]
      /\ \A i \in 1..m : t[i] \in Conn
  OBVIOUS
<1>2. Len(s) = n /\ Len(t) = m
  OBVIOUS
<1> HIDE DEF u, n, m
<1>3. ASSUME NEW i \in 1..Len(u)
      PROVE  \/ i \in 1..n /\ u[i] = s[i]
             \/ i - n \in 1..m /\ u[i] = t[i - n]
  BY <1>1
<1>4. \A c : In(c, u) => In(c, s) \/ In(c, t)
  BY <1>2, <1>3 DEF In
<1>5. ASSUME Distinct(s), Distinct(t), \A c \in Conn : In(c, t) => ~In(c, s),
             NEW i \in 1..Len(u), NEW j \in 1..Len(u), u[i] = u[j]
      PROVE  i = j
  <2>1. CASE i \in 1..n /\ j \in 1..n
    BY <1>1, <1>2, <1>5, <2>1 DEF Distinct
  <2>2. CASE i - n \in 1..m /\ j - n \in 1..m
    <3>1. t[i - n] = t[j - n]
      BY <1>1, <1>5, <2>2
    <3>2. i - n = j - n
      BY <1>2, <1>5, <2>2, <3>1 DEF Distinct
    <3> QED
      BY <1>1, <3>2
  <2>3. ASSUME NEW k \in 1..n, NEW l \in 1..m, s[k] = t[l] PROVE FALSE
    BY <1>1, <1>2, <1>5, <2>3 DEF In
  <2> QED
    BY <1>3, <1>5, <2>1, <2>2, <2>3
<1> QED
  BY <1>4, <1>5 DEF Distinct, u

\* A request that its client leaves returns all its connections at once.
LEMMA OwnedByLeaver ==
    ASSUME ApiTypeOK, OwnedIn(free, req, pass), NEW r \in Request, NEW q \in RequestState,
           req' = [req EXCEPT ![r] = q], q.held = <<>>,
           free' = free \o req[r].held, UNCHANGED pass
    PROVE  OwnedIn(free', req', pass')
PROOF
<1> DEFINE held == req[r].held
<1>1. free \in Seq(Conn) /\ held \in Seq(Conn) /\ Distinct(free) /\ Distinct(held)
  BY DEF ApiTypeOK, RequestState, OwnedIn
<1>2. \A c \in Conn : In(c, held) => ~In(c, free)
  BY DEF OwnedIn
<1>3. req'[r] = q /\ \A s \in Request \ {r} : req'[s] = req[s]
  BY DEF ApiTypeOK
<1>4. free' = free \o held
  OBVIOUS
<1> HIDE DEF held
<1>5. Distinct(free') /\ \A c : In(c, free') => In(c, free) \/ In(c, held)
  BY <1>1, <1>2, <1>4, ConcatOf
<1>6. Distinct(q.held) /\ \A c : ~In(c, q.held)
  BY DEF Distinct, In
<1>7. \A s \in Request : Distinct(req'[s].held)
  BY <1>3, <1>6 DEF OwnedIn
<1>8. ASSUME NEW s \in Request, NEW c \in Conn, In(c, req'[s].held)
      PROVE  s # r /\ In(c, req[s].held) /\ ~In(c, held)
  <2>1. s # r
    BY <1>3, <1>6, <1>8
  <2> QED
    BY <1>3, <1>8, <2>1 DEF OwnedIn, held
<1>9. \A s \in Request, c \in Conn : In(c, req'[s].held) => ~In(c, free')
  BY <1>5, <1>8 DEF OwnedIn
<1>10. \A s, o \in Request, c \in Conn :
          In(c, req'[s].held) /\ In(c, req'[o].held) => s = o
  BY <1>8 DEF OwnedIn
<1>11. \A p \in Pass : pass'[p].conn \in Conn => ~In(pass'[p].conn, free')
  BY <1>5 DEF OwnedIn, held
<1>12. \A p \in Pass, s \in Request :
          pass'[p].conn \in Conn => ~In(pass'[p].conn, req'[s].held)
  BY <1>8 DEF OwnedIn
<1>13. \A p, o \in Pass : pass'[p].conn \in Conn /\ pass'[p].conn = pass'[o].conn => p = o
  BY DEF OwnedIn
<1> QED
  BY <1>5, <1>7, <1>9, <1>10, <1>11, <1>12, <1>13 DEF OwnedIn

\* What a step makes of one request is well settled if that request is.
LEMMA SettledByRequest ==
    ASSUME ApiTypeOK, Settled, NEW r \in Request, NEW q \in RequestState,
           req' = [req EXCEPT ![r] = q],
           q.pc \in {"none", "answered"} => q.held = <<>>
    PROVE  Settled'
PROOF
<1>1. req'[r] = q /\ \A s \in Request \ {r} : req'[s] = req[s]
  BY DEF ApiTypeOK
<1> QED
  BY <1>1 DEF Settled

\* A request takes the top of the pool, returns its innermost connection or
\* all of them; its statements move none, also when they stray.
LEMMA OwnedRequestStep ==
    ASSUME OwnerInv, NEW r \in Request, Arrive(r) \/ Proceed(r) \/ Disconnect(r)
    PROVE  OwnedIn(free', req', pass') /\ Settled'
PROOF
<1>1. /\ ApiTypeOK /\ ReqShape /\ Settled /\ OwnedIn(free, req, pass)
      /\ req[r] \in RequestState /\ free \in Seq(Conn) /\ req[r].held \in Seq(Conn)
  BY DEF OwnerInv, PoolInv, BaseInv, ApiTypeOK, RequestState
<1>2. UNCHANGED pass
  BY DEF Arrive, Proceed, Disconnect, Enter, EnterFails, EnterRefused, Execute,
         StatementFails, Refuse, Finalize, Answer, sweepVars
<1>3. ASSUME NEW q \in RequestState, req' = [req EXCEPT ![r] = q], UNCHANGED free,
             q.held = req[r].held, q.pc \in {"none", "answered"} => req[r].held = <<>>
      PROVE  OwnedIn(free', req', pass') /\ Settled'
  <2>1. q.pc \in {"none", "answered"} => q.held = <<>>
    BY <1>3
  <2>2. Settled'
    BY <1>1, <1>3, <2>1, SettledByRequest
  <2>3. UNCHANGED <<free, pass>>
    BY <1>2, <1>3
  <2> QED
    BY <1>1, <1>3, <2>2, <2>3, OwnedStill
<1>4. CASE Arrive(r)
  <2> DEFINE q == [req[r] EXCEPT !.pc = "entering"]
  <2>1. q \in RequestState /\ q.held = req[r].held /\ q.pc = "entering"
    BY <1>1 DEF RequestState
  <2>2. req' = [req EXCEPT ![r] = q] /\ UNCHANGED free
    BY <1>4 DEF Arrive, db
  <2> HIDE DEF q
  <2> QED
    BY <1>3, <2>1, <2>2
<1>5. CASE Enter(r)
  <2>1. PICK q \in RequestState :
          /\ req' = [req EXCEPT ![r] = q]
          /\ q.pc = IF req[r].layers + 1 = Layers(r) THEN "running" ELSE "entering"
          /\ q.held = Append(req[r].held, Top)
    BY <1>1, <1>5, EnterRecord
  <2>2. Available /\ Begin
    BY <1>5 DEF Enter
  <2>3. OwnedIn(free', req', pass')
    BY <1>1, <1>2, <2>1, <2>2, OwnedByTaker
  <2>4. q.pc \notin {"none", "answered"}
    BY <2>1
  <2> QED
    BY <1>1, <2>1, <2>3, <2>4, SettledByRequest
<1>6. CASE EnterFails(r) \/ EnterRefused(r)
  <2>1. UNCHANGED free /\ req' = Failed(r)
    BY <1>6 DEF EnterFails, EnterRefused, db
  <2> QED
    BY <1>1, <1>3, <2>1, EnterFailsRecord
<1>7. CASE Execute(r)
  <2>1. UNCHANGED free
    BY <1>7 DEF Execute
  <2> QED
    BY <1>1, <1>3, <1>7, <2>1, ExecuteRecord
<1>8. CASE StatementFails(r) \/ Refuse(r)
  <2>1. UNCHANGED free /\ req[r].pc = "running" /\ Throw(r)
    BY <1>8 DEF StatementFails, Refuse, db
  <2> QED
    BY <1>1, <1>3, <2>1, ThrowRecord
<1>9. CASE Finalize(r)
  <2> DEFINE d == req[r].held[Len(req[r].held)]
  <2>1. PICK q \in RequestState :
          /\ req' = [req EXCEPT ![r] = q] /\ q.pc = "answering"
          /\ q.held = SubSeq(req[r].held, 1, Len(req[r].held) - 1)
    BY <1>1, <1>9, FinalizeRecord
  <2>2. req[r].held # <<>> /\ (CommitAndRelease(d) \/ RollbackAndRelease(<<d>>))
    BY <1>9 DEF Finalize
  <2>3. d \in Conn /\ d = Last(req[r].held)
    BY <1>1, <2>2, FrontOf DEF Last
  <2> HIDE DEF d
  <2>4. free' = Append(free, d)
    BY <1>1, <2>2, <2>3, ReleaseFacts
  <2>5. OwnedIn(free', req', pass')
    BY <1>1, <1>2, <2>1, <2>2, <2>3, <2>4, OwnedByReleaser
  <2> QED
    BY <1>1, <2>1, <2>5, SettledByRequest
<1>10. CASE Answer(r)
  <2> DEFINE q == [req[r] EXCEPT !.pc = "answered", !.db = None]
  <2>1. q \in RequestState /\ q.held = req[r].held
    BY <1>1 DEF RequestState
  <2>2. req' = [req EXCEPT ![r] = q] /\ UNCHANGED free /\ req[r].held = <<>>
    BY <1>10 DEF Answer, db
  <2> HIDE DEF q
  <2> QED
    BY <1>3, <2>1, <2>2
<1>11. CASE Disconnect(r)
  <2> DEFINE held == <<>>
             q == [req[r] EXCEPT !.gone = TRUE, !.held = held]
  <2>1. /\ held \in Seq(Conn) /\ held = <<>> /\ req' = [req EXCEPT ![r] = q]
        /\ free' = free \o req[r].held
    BY <1>11 DEF Disconnect, RollbackAndRelease
  <2> HIDE DEF held
  <2>2. q \in RequestState /\ q.held = held
    BY <1>1, <2>1 DEF RequestState
  <2> HIDE DEF q
  <2>3. OwnedIn(free', req', pass')
    BY <1>1, <1>2, <2>1, <2>2, OwnedByLeaver
  <2> QED
    BY <1>1, <2>1, <2>2, <2>3, SettledByRequest
<1> QED
  BY <1>4, <1>5, <1>6, <1>7, <1>8, <1>9, <1>10, <1>11 DEF Proceed

\* A pass takes the top of the pool, or returns what it has.
LEMMA OwnedPassStep ==
    ASSUME OwnerInv, NEW p \in Pass, Sweep(p)
    PROVE  OwnedIn(free', req', pass') /\ Settled'
PROOF
<1>1. /\ ApiTypeOK /\ PassShape /\ Settled /\ OwnedIn(free, req, pass)
      /\ pass[p] \in PassState
  BY DEF OwnerInv, PoolInv, BaseInv, ApiTypeOK
<1>2. IdlePass \in PassState /\ IdlePass.conn = None
  BY DEF IdlePass, PassState
<1>3. UNCHANGED req /\ Settled'
  BY <1>1 DEF Settled, Sweep, Tick, PassBegins, PassRefused, TryLock, PassCommits, PassFails
<1>4. CASE Tick(p) \/ TryLock(p)
  <2>1. UNCHANGED free
    BY <1>4 DEF Tick, TryLock, db
  <2>2. PICK x : pass' = [pass EXCEPT ![p].pc = x] /\ x \in {"entering", "sweeping", "skipping"}
    BY <1>4 DEF Tick, TryLock
  <2> DEFINE q == [pass[p] EXCEPT !.pc = x]
  <2>3. q \in PassState /\ q.conn = pass[p].conn /\ pass' = [pass EXCEPT ![p] = q]
    BY <1>1, <2>2 DEF PassState
  <2> HIDE DEF q
  <2> QED
    BY <1>1, <1>3, <2>1, <2>3, OwnedByPass
<1>5. CASE PassBegins(p)
  <2> DEFINE q == [pc |-> "locking", conn |-> Top]
  <2>1. Available /\ Begin /\ Top \in Conn
    BY <1>1, <1>5, FrontOf DEF ApiTypeOK, PassBegins, Available, Top
  <2>2. q \in PassState /\ q.conn = Top /\ pass' = [pass EXCEPT ![p] = q]
    BY <1>5, <2>1 DEF PassState, PassBegins
  <2> HIDE DEF q
  <2> QED
    BY <1>1, <1>3, <2>1, <2>2, OwnedByPass
<1>6. CASE PassRefused(p)
  <2>1. UNCHANGED free /\ pass' = [pass EXCEPT ![p] = IdlePass]
    BY <1>6 DEF PassRefused
  <2> QED
    BY <1>1, <1>2, <1>3, <2>1, OwnedByPass
<1>7. CASE PassCommits(p) \/ PassFails(p)
  <2> DEFINE d == pass[p].conn
  <2>1. d \in Conn /\ (CommitAndRelease(d) \/ RollbackAndRelease(<<d>>))
    BY <1>1, <1>7 DEF PassCommits, PassFails, PassShape, PassState
  <2>2. free' = Append(free, d)
    BY <1>1, <2>1, ReleaseFacts
  <2>3. pass' = [pass EXCEPT ![p] = IdlePass]
    BY <1>7 DEF PassCommits, PassFails, EndPass
  <2> QED
    BY <1>1, <1>2, <1>3, <2>1, <2>2, <2>3, OwnedByPass
<1> QED
  BY <1>4, <1>5, <1>6, <1>7 DEF Sweep

\* When the process ends, nobody has a connection any more.
LEMMA OwnedDie ==
    ASSUME OwnerInv, Die
    PROVE  OwnedIn(free', req', pass') /\ Settled'
PROOF
<1> DEFINE cut(r) == [NotArrived EXCEPT !.pc = "cut", !.gone = req[r].gone]
<1>1. \A r \in Request : req[r].gone \in BOOLEAN
  BY DEF OwnerInv, PoolInv, BaseInv, ApiTypeOK, RequestState
<1>2. \A r \in Request : cut(r).held = <<>>
  BY <1>1, DeadRecord, Zenon
<1>3. \A r \in Request :
         req'[r] = IF req[r].pc \in {"none", "answered"} THEN req[r] ELSE cut(r)
  BY DEF Die
<1> HIDE DEF cut
<1>4. \A r \in Request : req'[r].held = <<>>
  BY <1>2, <1>3 DEF OwnerInv, Settled
<1>5. /\ free' = SetToSeq(Conn) /\ None \notin Conn
      /\ \A p \in Pass : pass'[p].conn = None
  BY ApiProcessAssumption DEF Die, IdlePass
<1>6. Distinct(free') /\ Distinct(<<>>) /\ \A c : ~In(c, <<>>)
  BY <1>5, PoolSequence DEF Distinct, In
<1> QED
  BY <1>4, <1>5, <1>6 DEF OwnedIn, Settled

\* A set without two different elements is counted as none or one.
LEMMA NoneOrOne ==
    ASSUME NEW S, \A x, y \in S : x = y
    PROVE  Cardinality(S) = IF S = {} THEN 0 ELSE 1
PROOF
<1>1. CASE S = {}
  BY <1>1, FS_EmptySet
<1>2. ASSUME NEW x \in S PROVE Cardinality(S) = 1 /\ S # {}
  <2>1. S = {x}
    OBVIOUS
  <2> QED
    BY <2>1, FS_Singleton
<1> QED
  BY <1>1, <1>2

\* Being nowhere twice and being somewhere is having one owner.
LEMMA OneOwner ==
    ASSUME OwnerInv
    PROVE  ConnectionsHaveOneOwner
PROOF
<1> SUFFICES ASSUME NEW c \in Conn
             PROVE  Cardinality({i \in 1..Len(free) : free[i] = c})
                    + Cardinality({h \in Request \X (1..2) :
                          h[2] <= Len(req[h[1]].held) /\ req[h[1]].held[h[2]] = c})
                    + Cardinality({p \in Pass : pass[p].conn = c}) = 1
  BY DEF ConnectionsHaveOneOwner
<1> DEFINE F == {i \in 1..Len(free) : free[i] = c}
           H == {h \in Request \X (1..2) :
                    h[2] <= Len(req[h[1]].held) /\ req[h[1]].held[h[2]] = c}
           P == {p \in Pass : pass[p].conn = c}
<1>1. OwnedIn(free, req, pass)
  BY DEF OwnerInv
<1>2. \A r \in Request : /\ Len(req[r].held) \in Nat /\ Len(req[r].held) <= 2
  <2>1. ASSUME NEW r \in Request PROVE Len(req[r].held) \in Nat /\ Len(req[r].held) <= 2
    <3>1. /\ req[r].held \in Seq(Conn) /\ req[r].layers \in 0..2
          /\ Len(req[r].held) <= req[r].layers
      BY DEF OwnerInv, PoolInv, BaseInv, ApiTypeOK, RequestState, Shallow
    <3>2. Len(req[r].held) \in Nat
      BY <3>1
    <3> QED
      BY <3>1, <3>2
  <2> QED
    BY <2>1
<1>3. F # {} <=> In(c, free)
  BY DEF In
<1>4. H # {} <=> \E r \in Request : In(c, req[r].held)
  <2>1. ASSUME NEW h \in H PROVE h[1] \in Request /\ In(c, req[h[1]].held)
    BY <1>2 DEF In
  <2>2. ASSUME NEW r \in Request, In(c, req[r].held) PROVE H # {}
    <3>1. PICK i \in 1..Len(req[r].held) : req[r].held[i] = c
      BY <2>2 DEF In
    <3>2. i \in 1..2 /\ i <= Len(req[r].held)
      BY <1>2, <3>1
    <3>3. <<r, i>> \in H
      BY <3>1, <3>2
    <3> QED
      BY <3>3
  <2> QED
    BY <2>1, <2>2
<1>5. P # {} <=> \E p \in Pass : pass[p].conn = c
  OBVIOUS
<1>6. \A i, j \in F : i = j
  BY <1>1 DEF OwnedIn, Distinct
<1>7. ASSUME NEW g \in H, NEW h \in H PROVE g = h
  <2>1. /\ g = <<g[1], g[2]>> /\ h = <<h[1], h[2]>>
        /\ g[1] \in Request /\ h[1] \in Request
        /\ g[2] \in 1..Len(req[g[1]].held) /\ h[2] \in 1..Len(req[h[1]].held)
        /\ req[g[1]].held[g[2]] = c /\ req[h[1]].held[h[2]] = c
    BY <1>2
  <2>2. g[1] = h[1]
    BY <1>1, <2>1 DEF OwnedIn, In
  <2>3. g[2] = h[2]
    BY <1>1, <2>1, <2>2 DEF OwnedIn, Distinct
  <2> QED
    BY <2>1, <2>2, <2>3
<1>8. \A p, o \in P : p = o
  BY <1>1 DEF OwnedIn
<1>9. /\ Cardinality(F) = IF F = {} THEN 0 ELSE 1
      /\ Cardinality(H) = IF H = {} THEN 0 ELSE 1
      /\ Cardinality(P) = IF P = {} THEN 0 ELSE 1
  BY <1>6, <1>7, <1>8, NoneOrOne
<1>10. F # {} \/ H # {} \/ P # {}
  BY <1>3, <1>4, <1>5 DEF OwnerInv, PoolInv, NoneLost
<1>11. (F = {} \/ H = {}) /\ (F = {} \/ P = {}) /\ (H = {} \/ P = {})
  BY <1>1, <1>3, <1>4, <1>5 DEF OwnedIn
<1> HIDE DEF F, H, P
<1>12. Cardinality(F) + Cardinality(H) + Cardinality(P) = 1
  BY <1>9, <1>10, <1>11
<1> QED
  BY <1>12 DEF F, H, P

\* ConnectionsHaveOneOwner: for any number of requests, passes and
\* connections, and although handlers outlive the clients that left them, no
\* connection is ever lost, given to two or released twice
\* (middleware/tenant.ts, config/database.ts).
THEOREM NoConnectionIsShared == Spec => []ConnectionsHaveOneOwner
PROOF
<1>1. Init => OwnerInv
  <2> SUFFICES ASSUME Init PROVE OwnerInv
    OBVIOUS
  <2>1. \A r \in Request : req[r].held = <<>>
    BY DEF Init, NotArrived
  <2>2. Distinct(free) /\ Distinct(<<>>) /\ \A c : ~In(c, <<>>)
    BY PoolSequence DEF Distinct, In, Init
  <2>3. \A p \in Pass : pass[p].conn = None
    BY DEF Init, IdlePass
  <2>4. OwnedIn(free, req, pass) /\ Settled
    BY <2>1, <2>2, <2>3, ApiProcessAssumption DEF OwnedIn, Settled
  <2> QED
    BY <2>4, PoolInit DEF OwnerInv
<1>2. ASSUME OwnerInv, [Next]_apiVars PROVE OwnerInv'
  <2>1. PoolInv'
    BY <1>2, PoolStep DEF OwnerInv
  <2>2. CASE \E r \in Request : Arrive(r) \/ Proceed(r) \/ Disconnect(r)
    BY <1>2, <2>1, <2>2, OwnedRequestStep DEF OwnerInv
  <2>3. CASE \E p \in Pass : Sweep(p)
    BY <1>2, <2>1, <2>3, OwnedPassStep DEF OwnerInv
  <2>4. CASE OtherLocks \/ OtherEnds \/ Shutdown \/ ClosePool \/ Boot \/ UNCHANGED apiVars
    <3>1. UNCHANGED <<free, req, pass>>
      BY <2>4 DEF OtherLocks, OtherEnds, Shutdown, ClosePool, Boot, apiVars, db, sweepVars
    <3>2. OwnedIn(free', req', pass') /\ Settled'
      BY <1>2, <3>1 DEF OwnerInv, Settled
    <3> QED
      BY <2>1, <3>2 DEF OwnerInv
  <2>5. CASE Exit \/ ForcedExit
    BY <1>2, <2>1, <2>5, OwnedDie DEF Exit, ForcedExit, OwnerInv
  <2> QED
    BY <1>2, <2>2, <2>3, <2>4, <2>5 DEF Next
<1>3. OwnerInv => ConnectionsHaveOneOwner
  BY OneOwner
<1> QED
  BY <1>1, <1>2, <1>3, PTL DEF Spec

==============================================================================
