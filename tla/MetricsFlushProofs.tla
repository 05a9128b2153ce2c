------------------------- MODULE MetricsFlushProofs -------------------------
(***************************************************************************)
(* Proofs about MetricsFlush, for any resources, events, workers and flush *)
(* ids: nothing is lost, and the flush implements MetricsCounter.          *)
(***************************************************************************)
EXTENDS MetricsFlush, TLAPS

(* A leaf that names no prover is left to Zenon: most need no more than    *)
(* first-order reasoning about the facts they cite.                        *)
USE Zenon

(* What the flush persists or acknowledges, it has.                        *)
Holding(x) == x # None /\ x.at \in {"upsert", "ack"}
                => x.id # None /\ x.delta # None

(* A flush goes on as another flush, or ends.                              *)
LEMMA PutTyped ==
    ASSUME TypeOK, NEW w \in Workers, NEW x \in Flush \cup {None}, Holding(x),
           worker' = [worker EXCEPT ![w] = x]
    PROVE  /\ worker' \in [Workers -> Flush \cup {None}]
           /\ \A v \in Workers : Holding(worker'[v])
  <1>1. worker' \in [Workers -> Flush \cup {None}]
    BY DEF TypeOK
  <1>2. \A v \in Workers : worker'[v] = IF v = w THEN x ELSE worker[v]
    BY DEF TypeOK
  <1>3. \A v \in Workers : Holding(worker[v])
    BY DEF TypeOK, Holding
  <1> QED BY <1>1, <1>2, <1>3

(* A flush in progress is a record, and None is none.                      *)
LEMMA FlushTyped ==
    ASSUME TypeOK, NEW w \in Workers, worker[w] # None
    PROVE  worker[w] \in Flush
  BY DEF TypeOK

(* The ends and the moves of a flush that several steps share.             *)
LEMMA MovesTyped ==
    ASSUME TypeOK, NEW w \in Workers, worker[w] # None,
           \/ \E at \in {"check", "throttle", "clean", "sample", "next",
                          "release"} : GoTo(w, at)
           \/ GoTo(w, "ack") /\ worker[w].at = "upsert"
           \/ Fail(w)
           \/ Done(w)
           \/ worker' = [worker EXCEPT ![w] = None]
    PROVE  /\ worker' \in [Workers -> Flush \cup {None}]
           /\ \A v \in Workers : Holding(worker'[v])
  <1>0. worker[w] \in Flush /\ Holding(worker[w])
    BY FlushTyped DEF TypeOK, Holding
  <1>1. ASSUME NEW at \in {"check", "throttle", "clean", "sample", "next",
                           "release"}, GoTo(w, at)
        PROVE  /\ worker' \in [Workers -> Flush \cup {None}]
               /\ \A v \in Workers : Holding(worker'[v])
    <2> DEFINE x == [worker[w] EXCEPT !.at = at]
    <2>1. x \in Flush /\ Holding(x)
      BY <1>0 DEF Flush, Holding
    <2>2. worker' = [worker EXCEPT ![w] = x]
      BY <1>1 DEF GoTo
    <2> QED BY <2>1, <2>2, PutTyped
  <1>2. CASE GoTo(w, "ack") /\ worker[w].at = "upsert"
    <2> DEFINE x == [worker[w] EXCEPT !.at = "ack"]
    <2>1. x \in Flush /\ Holding(x)
      BY <1>0, <1>2 DEF Flush, Holding
    <2>2. worker' = [worker EXCEPT ![w] = x]
      BY <1>2 DEF GoTo
    <2> QED BY <2>1, <2>2, PutTyped
  <1>3. CASE Fail(w)
    <2> DEFINE x == [worker[w] EXCEPT
                       !.at = IF worker[w].phase = "pending" THEN "release"
                                                             ELSE "next",
                       !.id = None, !.delta = None, !.failed = TRUE]
    <2>1. x \in Flush /\ Holding(x)
      BY <1>0 DEF Flush, Holding
    <2>2. worker' = [worker EXCEPT ![w] = x]
      BY <1>3 DEF Fail
    <2> QED BY <2>1, <2>2, PutTyped
  <1>4. CASE Done(w)
    <2> DEFINE x == [worker[w] EXCEPT !.at = "next", !.id = None,
                                      !.delta = None, !.progress = TRUE]
    <2>1. x \in Flush /\ Holding(x)
      BY <1>0 DEF Flush, Holding
    <2>2. worker' = [worker EXCEPT ![w] = x]
      BY <1>4 DEF Done
    <2> QED BY <2>1, <2>2, PutTyped
  <1>5. CASE worker' = [worker EXCEPT ![w] = None]
    BY <1>5, PutTyped DEF Holding
  <1> QED BY <1>1, <1>2, <1>3, <1>4, <1>5

(* The stores keep their shapes.                                           *)
StoresTyped ==
    /\ counter \in [Members -> SUBSET Events]
    /\ dirty \subseteq Members
    /\ pending \in [FlushIDs -> Delta \cup {None}]
    /\ lock \in Workers \cup {None}
    /\ throttle \in BOOLEAN
    /\ ledger \subseteq FlushIDs
    /\ aged \subseteq ledger
    /\ counted \in [Events -> Nat]
    /\ tracked \subseteq Events
    /\ used \subseteq FlushIDs
    /\ hazard \in Hazard

FlushesTyped ==
    /\ worker \in [Workers -> Flush \cup {None}]
    /\ \A w \in Workers : Holding(worker[w])

LEMMA TypeParts == TypeOK <=> StoresTyped /\ FlushesTyped
  BY DEF TypeOK, StoresTyped, FlushesTyped, Holding

(* One flush step of one worker keeps the flushes typed.                   *)
LEMMA FlushesStep ==
    ASSUME TypeOK, NEW w \in Workers,
           acquireLock(w) \/ FlushStep(w) \/ Shutdown(w) \/ Crash(w)
    PROVE  FlushesTyped'
  <1> USE DEF FlushesTyped
  <1>0. /\ worker[w] # None => worker[w] \in Flush /\ Holding(worker[w])
        /\ StoresTyped /\ FlushesTyped
    BY FlushTyped, TypeParts DEF TypeOK, Holding
  <1>1. CASE acquireLock(w)
    <2> DEFINE x == [at |-> "check", phase |-> "pending", todo |-> {},
                     id |-> None, delta |-> None, tries |-> 0,
                     failed |-> FALSE, progress |-> FALSE, seen |-> ledger]
    <2>1. x \in Flush /\ Holding(x)
      BY SMT, <1>0, MetricsAssumption DEF Flush, Holding, StoresTyped
    <2>2. worker' = [worker EXCEPT ![w] = x] \/ worker' = worker
      BY <1>1 DEF acquireLock
    <2> HIDE DEF x
    <2> QED BY <1>0, <2>1, <2>2, PutTyped
  <1>2. CASE \/ checkPendingSize(w) \/ acquireThrottle(w)
             \/ DeleteAppliedFlushesBefore(w) \/ sampleDone(w)
             \/ releaseLock(w) \/ Shutdown(w) \/ Crash(w) \/ ackPending(w)
    <2>1. /\ worker[w] # None
          /\ \/ \E at \in {"check", "throttle", "clean", "sample", "next",
                            "release"} : GoTo(w, at)
             \/ Fail(w) \/ Done(w)
             \/ worker' = [worker EXCEPT ![w] = None]
      BY <1>2 DEF checkPendingSize, acquireThrottle, sampleDone, releaseLock,
                  DeleteAppliedFlushesBefore, Shutdown, Crash, ackPending
    <2> QED BY <2>1, MovesTyped
  <1>3. CASE sample(w)
    <2>1. ASSUME NEW batch \in SUBSET (FlushIDs \cup Members),
                 worker' = [worker EXCEPT ![w].at = "next", ![w].todo = batch,
                                          ![w].progress = FALSE]
          PROVE  FlushesTyped'
      <3> DEFINE x == [worker[w] EXCEPT !.at = "next", !.todo = batch,
                                        !.progress = FALSE]
      <3>1. x \in Flush /\ Holding(x)
        BY <1>0, <1>3 DEF Flush, Holding, sample
      <3>2. worker' = [worker EXCEPT ![w] = x]
        BY <2>1
      <3> QED BY <3>1, <3>2, PutTyped
    <2>2. CASE worker' = [worker EXCEPT ![w].phase = "dirty"]
      <3> DEFINE x == [worker[w] EXCEPT !.phase = "dirty"]
      <3>1. x \in Flush /\ Holding(x)
        BY <1>0, <1>3 DEF Flush, Holding, sample
      <3>2. worker' = [worker EXCEPT ![w] = x]
        BY <2>2
      <3> QED BY <3>1, <3>2, PutTyped
    <2>3. CASE GoTo(w, "release")
      BY <1>3, <2>3, MovesTyped DEF sample
    <2>4. Pending \subseteq FlushIDs /\ dirty \subseteq Members
      BY <1>0 DEF Pending, StoresTyped
    <2>5. \/ \E batch \in SUBSET (FlushIDs \cup Members) :
                worker' = [worker EXCEPT ![w].at = "next", ![w].todo = batch,
                                         ![w].progress = FALSE]
          \/ worker' = [worker EXCEPT ![w].phase = "dirty"]
          \/ GoTo(w, "release")
      BY <1>3, <2>4 DEF sample
    <2> QED BY <2>1, <2>2, <2>3, <2>5
  <1>4. ASSUME NEW f \in FlushIDs, loadPendingDelta(w, f)
        PROVE  FlushesTyped'
    <2>1. CASE worker' = [worker EXCEPT ![w].todo = @ \ {f}]
      <3> DEFINE x == [worker[w] EXCEPT !.todo = @ \ {f}]
      <3>1. x \in Flush /\ Holding(x)
        BY <1>0, <1>4 DEF Flush, Holding, loadPendingDelta
      <3>2. worker' = [worker EXCEPT ![w] = x]
        BY <2>1
      <3> QED BY <3>1, <3>2, PutTyped
    <2>2. CASE /\ pending[f] # None
               /\ worker' = [worker EXCEPT ![w].at = "upsert", ![w].tries = 0,
                     ![w].todo = @ \ {f}, ![w].id = f, ![w].delta = pending[f]]
      <3> DEFINE x == [worker[w] EXCEPT !.at = "upsert", !.tries = 0,
                         !.todo = @ \ {f}, !.id = f, !.delta = pending[f]]
      <3>1. pending[f] \in Delta /\ f # None /\ 0 \in 0 .. MaxRetries
        BY SMT, <1>0, <2>2, MetricsAssumption DEF StoresTyped
      <3>2. x \in Flush /\ Holding(x)
        BY <1>0, <1>4, <2>2, <3>1 DEF Flush, Holding, loadPendingDelta
      <3>3. worker' = [worker EXCEPT ![w] = x]
        BY <2>2
      <3> QED BY <3>2, <3>3, PutTyped
    <2>3. CASE Fail(w)
      BY <1>4, <2>3, MovesTyped DEF loadPendingDelta
    <2> QED BY <1>4, <2>1, <2>2, <2>3 DEF loadPendingDelta
  <1>5. ASSUME NEW m \in Members, dropDirtyMember(w, m)
        PROVE  FlushesTyped'
    <2> DEFINE x == [worker[w] EXCEPT !.todo = @ \ {m}, !.progress = TRUE]
    <2>1. x \in Flush /\ Holding(x)
      BY <1>0, <1>5 DEF Flush, Holding, dropDirtyMember
    <2>2. worker' = [worker EXCEPT ![w] = x]
      BY <1>5 DEF dropDirtyMember
    <2> QED BY <2>1, <2>2, PutTyped
  <1>6. ASSUME NEW m \in Members, drainToPending(w, m)
        PROVE  FlushesTyped'
    <2> DEFINE rest == worker[w].todo \ {m}
               d == [member |-> m, events |-> counter[m]]
    <2>1. PICK f \in FlushIDs \ used :
            \/ worker' = [worker EXCEPT ![w].at = "upsert", ![w].tries = 0,
                 ![w].todo = rest, ![w].id = f, ![w].delta = d]
            \/ worker' = [worker EXCEPT ![w].todo = rest, ![w].progress = TRUE]
            \/ worker' = [worker EXCEPT ![w].todo = rest, ![w].failed = TRUE]
      BY <1>6 DEF drainToPending
    <2>2. d \in Delta /\ d # None /\ f # None /\ 0 \in 0 .. MaxRetries
      <3>1. m \in Resources /\ counter[m] \in SUBSET Events
        BY <1>0, <1>6 DEF drainToPending, StoresTyped
      <3> QED BY SMT, <3>1, MetricsAssumption DEF Delta
    <2>3. worker[w] \in Flush /\ Holding(worker[w])
      BY <1>0, <1>6 DEF drainToPending
    <2>4. CASE worker' = [worker EXCEPT ![w].at = "upsert", ![w].tries = 0,
                 ![w].todo = rest, ![w].id = f, ![w].delta = d]
      <3> DEFINE x == [worker[w] EXCEPT !.at = "upsert", !.tries = 0,
                                  !.todo = rest, !.id = f, !.delta = d]
      <3> HIDE DEF d
      <3>1. x \in Flush /\ Holding(x)
        BY <2>2, <2>3 DEF Flush, Holding
      <3>2. worker' = [worker EXCEPT ![w] = x]
        BY <2>4
      <3> QED BY <3>1, <3>2, PutTyped
    <2>5. CASE worker' = [worker EXCEPT ![w].todo = rest, ![w].progress = TRUE]
      <3> DEFINE x == [worker[w] EXCEPT !.todo = rest, !.progress = TRUE]
      <3>1. x \in Flush /\ Holding(x)
        BY <1>6, <2>3 DEF Flush, Holding, drainToPending
      <3>2. worker' = [worker EXCEPT ![w] = x]
        BY <2>5
      <3> QED BY <3>1, <3>2, PutTyped
    <2>6. CASE worker' = [worker EXCEPT ![w].todo = rest, ![w].failed = TRUE]
      <3> DEFINE x == [worker[w] EXCEPT !.todo = rest, !.failed = TRUE]
      <3>1. x \in Flush /\ Holding(x)
        BY <1>6, <2>3 DEF Flush, Holding, drainToPending
      <3>2. worker' = [worker EXCEPT ![w] = x]
        BY <2>6
      <3> QED BY <3>1, <3>2, PutTyped
    <2> QED BY <2>1, <2>4, <2>5, <2>6
  <1>7. CASE upsertWithRetry(w)
    <2>1. CASE GoTo(w, "ack") \/ Fail(w)
      BY <1>7, <2>1, MovesTyped DEF upsertWithRetry
    <2>2. CASE /\ worker[w].tries + 1 < MaxRetries
               /\ worker' = [worker EXCEPT ![w].tries = @ + 1]
      <3> DEFINE x == [worker[w] EXCEPT !.tries = @ + 1]
      <3>1. worker[w].tries + 1 \in 0 .. MaxRetries
        BY SMT, <1>0, <1>7, <2>2, MetricsAssumption DEF Flush, upsertWithRetry
      <3>2. x \in Flush /\ Holding(x)
        BY <1>0, <1>7, <3>1 DEF Flush, Holding, upsertWithRetry
      <3>3. worker' = [worker EXCEPT ![w] = x]
        BY <2>2
      <3> QED BY <3>2, <3>3, PutTyped
    <2> QED BY <1>7, <2>1, <2>2 DEF upsertWithRetry
  <1> QED BY <1>1, <1>2, <1>3, <1>4, <1>5, <1>6, <1>7 DEF FlushStep

(* One step of anybody keeps the stores typed.                             *)
LEMMA TypeStep == TypeOK /\ [Next]_vars => TypeOK'
  <1> SUFFICES ASSUME TypeOK, [Next]_vars PROVE TypeOK'
    OBVIOUS
  <1>0. StoresTyped /\ FlushesTyped
    BY TypeParts
  <1>00. ASSUME worker' = worker PROVE FlushesTyped'
    BY <1>0, <1>00 DEF FlushesTyped
  <1>1. ASSUME NEW e \in Events, NEW m \in Members, trackEvent(e, m)
        PROVE  StoresTyped' /\ FlushesTyped'
    BY <1>0, <1>00, <1>1 DEF trackEvent, StoresTyped, mysql
  <1>2. ASSUME NEW w \in Workers,
               acquireLock(w) \/ FlushStep(w) \/ Shutdown(w) \/ Crash(w)
        PROVE  StoresTyped' /\ FlushesTyped'
    <2>1. FlushesTyped'
      BY <1>2, FlushesStep
    <2>2. CASE \/ acquireLock(w) \/ checkPendingSize(w) \/ acquireThrottle(w)
               \/ sample(w) \/ sampleDone(w) \/ releaseLock(w)
               \/ Shutdown(w) \/ Crash(w)
               \/ \E f \in FlushIDs : loadPendingDelta(w, f)
               \/ \E m \in Members : dropDirtyMember(w, m)
      BY <1>0, <2>1, <2>2
         DEF acquireLock, checkPendingSize, acquireThrottle, sample,
             sampleDone, releaseLock, Shutdown, Crash, loadPendingDelta,
             dropDirtyMember, StoresTyped, redis, mysql
    <2>3. CASE DeleteAppliedFlushesBefore(w)
      BY <1>0, <2>1, <2>3
         DEF DeleteAppliedFlushesBefore, StoresTyped, redis
    <2>4. ASSUME NEW m \in Members, drainToPending(w, m)
          PROVE  StoresTyped'
      <3>1. PICK f \in FlushIDs \ used :
              drainScript(w, m, f) \/ UNCHANGED <<counter, dirty, pending, used>>
        BY <2>4 DEF drainToPending
      <3>2. m \in Resources /\ counter[m] \in SUBSET Events
        BY <1>0, <2>4 DEF drainToPending, StoresTyped
      <3>3. [member |-> m, events |-> counter[m]] \in Delta
        BY <3>2 DEF Delta
      <3>4. CASE drainScript(w, m, f)
        <4>1. pending' \in [FlushIDs -> Delta \cup {None}]
          BY <1>0, <3>3, <3>4 DEF drainScript, StoresTyped
        <4>2. counter' \in [Members -> SUBSET Events]
          BY <1>0, <3>4 DEF drainScript, StoresTyped
        <4> QED BY <1>0, <2>4, <3>4, <4>1, <4>2
                DEF drainScript, drainToPending, StoresTyped, mysql
      <3> QED BY <1>0, <2>4, <3>1, <3>4 DEF drainToPending, StoresTyped, mysql
    <2>5. CASE upsertWithRetry(w)
      <3>1. worker[w].id \in FlushIDs
        BY <2>5, FlushTyped DEF upsertWithRetry, TypeOK, Flush
      <3>2. /\ ledger' \subseteq FlushIDs /\ ledger \subseteq ledger'
            /\ counted' \in [Events -> Nat]
        BY SMT, <1>0, <2>5, <3>1
           DEF upsertWithRetry, UpsertCountsOnce, StoresTyped
      <3> QED BY <1>0, <2>1, <2>5, <3>2 DEF upsertWithRetry, StoresTyped, redis
    <2>6. CASE ackPending(w)
      BY <1>0, <2>1, <2>6 DEF ackPending, StoresTyped, mysql
    <2> QED BY <1>2, <2>1, <2>2, <2>3, <2>4, <2>5, <2>6 DEF FlushStep
  <1>3. ASSUME LockExpires \/ ThrottleExpires
        PROVE  StoresTyped' /\ FlushesTyped'
    BY <1>0, <1>00, <1>3 DEF LockExpires, ThrottleExpires, StoresTyped, mysql
  <1>4. ASSUME NEW f \in FlushIDs, RowAges(f)
        PROVE  StoresTyped' /\ FlushesTyped'
    BY <1>0, <1>00, <1>4 DEF RowAges, StoresTyped, redis
  <1>5. ASSUME UNCHANGED vars
        PROVE  StoresTyped' /\ FlushesTyped'
    BY <1>0, <1>00, <1>5 DEF vars, redis, mysql, StoresTyped
  <1>6. (StoresTyped /\ FlushesTyped)' <=> TypeOK'
    BY TypeParts DEF TypeOK, StoresTyped, FlushesTyped, Holding
  <1> QED BY <1>1, <1>2, <1>3, <1>4, <1>5, <1>6 DEF Next

(* The Redis keys, the MySQL rows and the flushes in progress keep their   *)
(* shapes, and a flush that persists or acknowledges a record has one      *)
(* (flush_worker.go, processPendingDelta and processDirtyMember).          *)
THEOREM TypeCorrect == Spec => []TypeOK
  <1>1. Init => TypeOK
    <2> SUFFICES ASSUME Init PROVE TypeOK
      OBVIOUS
    <2>1. StoresTyped
      BY DEF Init, StoresTyped
    <2>2. FlushesTyped
      BY DEF Init, FlushesTyped, Holding
    <2> QED BY <2>1, <2>2, TypeParts
  <1> QED BY <1>1, TypeStep, PTL DEF Spec

-----------------------------------------------------------------------------
(* The events of an undrained counter were tracked, are not published, and *)
(* are in no other counter.                                                *)
CountersFresh ==
    /\ \A m \in Members : \A e \in counter[m] : e \in tracked /\ counted[e] = 0
    /\ \A m, n \in Members : m # n => counter[m] \cap counter[n] = {}

(* A pending record holds tracked events that are in no counter and in no  *)
(* other record; they are published exactly when the ledger names it.      *)
RecordsExact ==
    /\ \A f \in FlushIDs : pending[f] # None =>
         \A e \in pending[f].events :
            /\ e \in tracked
            /\ \A m \in Members : e \notin counter[m]
            /\ f \in ledger => counted[e] > 0
            /\ f \notin ledger => counted[e] = 0
    /\ \A f, g \in FlushIDs : pending[f] # None /\ pending[g] # None /\ f # g
         => pending[f].events \cap pending[g].events = {}

(* A flush id that was not drawn yet is nowhere.                           *)
FreshIDs ==
    \A f \in FlushIDs \ used :
        /\ pending[f] = None /\ f \notin ledger
        /\ \A w \in Workers : worker[w] # None => worker[w].id # f

(* What a flush is about to persist is the pending record, unless another  *)
(* worker persisted and acknowledged it; what it is about to acknowledge   *)
(* is in the ledger.  Elsewhere it holds no record.                        *)
HeldExact ==
    \A w \in Workers : worker[w] # None /\ worker[w].id # None =>
        /\ worker[w].at \in {"upsert", "ack"}
        /\ \/ /\ pending[worker[w].id] # None
              /\ pending[worker[w].id] = worker[w].delta
           \/ worker[w].id \in ledger
        /\ worker[w].at = "ack" => worker[w].id \in ledger

(* A row that can be cleaned up belongs to no record that could be         *)
(* replayed: where a record may wait that long, the lock is safe and the   *)
(* worker at the clean-up found nothing pending (cleanupFlushLedger).      *)
CleanupSafe ==
    /\ hazard # "outage" => \A f \in aged :
         /\ pending[f] = None
         /\ \A w \in Workers : worker[w] # None => worker[w].id # f
    /\ hazard = "outage" => \A w \in Workers : worker[w] # None =>
         /\ lock = w
         /\ worker[w].at \in {"throttle", "clean"} => Pending = {}

(* An event that was not tracked is not published.                         *)
UntrackedUncounted == \A e \in Events \ tracked : counted[e] = 0

(* A resource with a non-zero counter is marked dirty.                     *)
MarkedDirty == \A m \in Resources : counter[m] # {} => m \in dirty

FlushInv == /\ TypeOK /\ CountersFresh /\ RecordsExact /\ FreshIDs
            /\ HeldExact /\ CleanupSafe /\ UntrackedUncounted
            /\ MarkedDirty /\ NothingLost

-----------------------------------------------------------------------------
(* Steps that only move a flush along.                                     *)

(* What such a step may make of the flush of v: leave it, end it, let it   *)
(* go on without a record, or with a record that is pending.               *)
Moved(v) ==
    \/ worker'[v] = worker[v]
    \/ worker'[v] = None
    \/ worker'[v].id = None
    \/ /\ worker'[v].id \in FlushIDs
       /\ worker'[v].at = "upsert"
       /\ pending[worker'[v].id] # None
       /\ worker'[v].delta = pending[worker'[v].id]

LEMMA QuietStep ==
    ASSUME FlushInv, TypeOK',
           UNCHANGED <<counter, pending, ledger, aged, counted, tracked, used,
                       hazard>>,
           \A m \in Resources : m \in dirty => m \in dirty',
           \A v \in Workers : Moved(v),
           hazard = "outage" => \A v \in Workers : worker'[v] # None =>
              /\ lock' = v
              /\ worker'[v].at \in {"throttle", "clean"} => Pending = {}
    PROVE  FlushInv'
  <1>1. Pending' = Pending
    BY DEF Pending
  <1>2. CountersFresh' /\ UntrackedUncounted' /\ RecordsExact'
    BY DEF FlushInv, CountersFresh, UntrackedUncounted, RecordsExact
  <1>3. MarkedDirty'
    BY DEF FlushInv, MarkedDirty
  <1>4. NothingLost'
    BY <1>1 DEF FlushInv, NothingLost, Recorded
  <1>5. FreshIDs'
    BY SMT, MetricsAssumption DEF FlushInv, FreshIDs, Moved
  <1>6. HeldExact'
    BY DEF FlushInv, HeldExact, Moved
  <1>7. CleanupSafe'
    <2>1. aged \subseteq FlushIDs
      BY DEF FlushInv, TypeOK
    <2> QED BY SMT, <1>1, <2>1, MetricsAssumption
               DEF FlushInv, CleanupSafe, Moved
  <1> QED BY <1>2, <1>3, <1>4, <1>5, <1>6, <1>7 DEF FlushInv

(* The steps of a flush that move nothing between the stores.              *)
LEMMA QuietSteps ==
    ASSUME FlushInv, TypeOK', NEW w \in Workers,
           \/ acquireLock(w) \/ checkPendingSize(w) \/ acquireThrottle(w)
           \/ sample(w) \/ sampleDone(w) \/ releaseLock(w)
           \/ Shutdown(w) \/ Crash(w)
           \/ \E f \in FlushIDs : loadPendingDelta(w, f)
           \/ \E m \in Members : dropDirtyMember(w, m)
    PROVE  FlushInv'
  <1>0. TypeOK /\ HeldExact /\ CleanupSafe
    BY DEF FlushInv
  <1>1. UNCHANGED <<counter, pending, ledger, aged, counted, tracked, used,
                    hazard>>
    BY DEF acquireLock, checkPendingSize, acquireThrottle, sample, sampleDone,
           releaseLock, Shutdown, Crash, loadPendingDelta, dropDirtyMember,
           redis, mysql
  <1>2. \A m \in Resources : m \in dirty => m \in dirty'
    BY MetricsAssumption
       DEF acquireLock, checkPendingSize, acquireThrottle, sample, sampleDone,
           releaseLock, Shutdown, Crash, loadPendingDelta, dropDirtyMember,
           redis
  <1>3. \A v \in Workers : v # w => worker'[v] = worker[v]
    BY ZenonT(30), <1>0
       DEF TypeOK, acquireLock, checkPendingSize, acquireThrottle, sample,
           sampleDone, releaseLock, Shutdown, Crash, loadPendingDelta,
           dropDirtyMember, GoTo, Fail
  <1>4. ASSUME worker[w] # None
        PROVE  worker[w] \in Flush
    BY <1>0, <1>4, FlushTyped
  <1>5. CASE acquireLock(w)
    <2>1. worker'[w] # None => /\ worker'[w].id = None
                               /\ worker'[w].at = "check"
      BY SMT, <1>0, <1>5 DEF acquireLock, TypeOK
    <2>2. hazard = "outage" => \A v \in Workers : worker[v] = None
      BY <1>0, <1>5, MetricsAssumption DEF acquireLock, CleanupSafe
    <2>3. \A v \in Workers : Moved(v)
      BY <1>3, <2>1 DEF Moved
    <2>4. lock' = w
      BY <1>5 DEF acquireLock
    <2> QED BY <1>1, <1>2, <1>3, <2>1, <2>2, <2>3, <2>4, QuietStep
  <1>6. CASE \/ checkPendingSize(w) \/ acquireThrottle(w) \/ sample(w)
             \/ sampleDone(w) \/ Shutdown(w)
             \/ \E f \in FlushIDs : loadPendingDelta(w, f)
             \/ \E m \in Members : dropDirtyMember(w, m)
    <2>1. worker[w] # None /\ worker[w].at \notin {"upsert", "ack"}
      BY <1>6 DEF checkPendingSize, acquireThrottle, sample, sampleDone,
                  Shutdown, loadPendingDelta, dropDirtyMember
    <2>2. worker[w].id = None /\ worker[w] \in Flush
      BY <1>0, <1>4, <2>1 DEF HeldExact
    <2>3. lock' = lock
      BY <1>6 DEF checkPendingSize, acquireThrottle, sample, sampleDone,
                  Shutdown, loadPendingDelta, dropDirtyMember, redis
    <2>4. CASE checkPendingSize(w)
      <3>1. /\ worker'[w].id = None
            /\ worker'[w].at \in {"throttle", "clean"} => Pending = {}
        BY SMT, <1>0, <2>2, <2>4 DEF checkPendingSize, GoTo, TypeOK, Flush
      <3>2. \A v \in Workers : Moved(v)
        BY <1>3, <3>1 DEF Moved
      <3> QED BY <1>0, <1>1, <1>2, <1>3, <2>1, <2>3, <3>1, <3>2, QuietStep
              DEF CleanupSafe
    <2>5. CASE acquireThrottle(w)
      <3>0. GoTo(w, "sample") \/ GoTo(w, "clean")
        BY <2>5 DEF acquireThrottle
      <3>1. worker'[w].id = None /\ worker[w].at = "throttle"
        BY SMT, <1>0, <2>2, <2>5, <3>0 DEF acquireThrottle, GoTo, TypeOK, Flush
      <3>2. \A v \in Workers : Moved(v)
        BY <1>3, <3>1 DEF Moved
      <3> QED BY <1>0, <1>1, <1>2, <1>3, <2>1, <2>3, <3>1, <3>2, QuietStep
              DEF CleanupSafe
    <2>6. CASE sample(w) \/ sampleDone(w) \/ Shutdown(w)
      <3>1. /\ worker'[w].id = None
            /\ worker'[w].at \notin {"throttle", "clean"}
        <4>1. CASE sample(w)
          <5>1. \/ \E batch :
                    worker' = [worker EXCEPT ![w].at = "next",
                                 ![w].todo = batch, ![w].progress = FALSE]
                \/ worker' = [worker EXCEPT ![w].phase = "dirty"]
                \/ GoTo(w, "release")
            BY <4>1 DEF sample
          <5>2. worker[w].at = "sample"
            BY <4>1 DEF sample
          <5>3. ASSUME NEW batch,
                       worker' = [worker EXCEPT ![w].at = "next",
                                    ![w].todo = batch, ![w].progress = FALSE]
                PROVE  worker'[w].id = None /\ worker'[w].at = "next"
            BY <1>0, <2>2, <5>3 DEF TypeOK, Flush
          <5>4. CASE \/ worker' = [worker EXCEPT ![w].phase = "dirty"]
                     \/ GoTo(w, "release")
            BY SMT, <1>0, <2>2, <5>2, <5>4 DEF GoTo, TypeOK, Flush
          <5> QED BY <5>1, <5>3, <5>4
        <4>2. CASE sampleDone(w) \/ Shutdown(w)
          BY SMT, <1>0, <2>2, <4>2 DEF sampleDone, Shutdown, GoTo, TypeOK, Flush
        <4> QED BY <2>6, <4>1, <4>2
      <3>2. \A v \in Workers : Moved(v)
        BY <1>3, <3>1 DEF Moved
      <3> QED BY <1>0, <1>1, <1>2, <1>3, <2>1, <2>3, <3>1, <3>2, QuietStep
              DEF CleanupSafe
    <2>7. ASSUME NEW m \in Members, dropDirtyMember(w, m)
          PROVE  FlushInv'
      <3>1. worker'[w].id = None /\ worker'[w].at = "next"
        BY <1>0, <2>2, <2>7 DEF dropDirtyMember, TypeOK, Flush
      <3>2. \A v \in Workers : Moved(v)
        BY <1>3, <3>1 DEF Moved
      <3> QED BY <1>0, <1>1, <1>2, <1>3, <2>1, <2>3, <3>1, <3>2, QuietStep
              DEF CleanupSafe
    <2>8. ASSUME NEW f \in FlushIDs, loadPendingDelta(w, f)
          PROVE  FlushInv'
      <3>1. /\ worker'[w].at \notin {"throttle", "clean"}
            /\ \/ worker'[w].id = None
               \/ /\ worker'[w].id = f /\ worker'[w].at = "upsert"
                  /\ pending[f] # None /\ worker'[w].delta = pending[f]
        <4>1. CASE worker' = [worker EXCEPT ![w].todo = @ \ {f}]
          BY <1>0, <2>2, <2>8, <4>1 DEF loadPendingDelta, TypeOK, Flush
        <4>2. CASE /\ pending[f] # None
                   /\ worker' = [worker EXCEPT ![w].at = "upsert",
                         ![w].tries = 0, ![w].todo = @ \ {f}, ![w].id = f,
                         ![w].delta = pending[f]]
          BY <1>0, <2>2, <4>2 DEF TypeOK, Flush
        <4>3. CASE Fail(w)
          BY ZenonT(30), <1>0, <2>2, <4>3 DEF Fail, TypeOK, Flush
        <4> QED BY <2>8, <4>1, <4>2, <4>3 DEF loadPendingDelta
      <3>2. \A v \in Workers : Moved(v)
        BY <1>3, <3>1 DEF Moved
      <3> QED BY <1>0, <1>1, <1>2, <1>3, <2>1, <2>3, <3>1, <3>2, QuietStep
              DEF CleanupSafe
    <2> QED BY <1>6, <2>4, <2>5, <2>6, <2>7, <2>8
  <1>7. CASE releaseLock(w) \/ Crash(w)
    <2>1. worker'[w] = None /\ worker[w] # None
      BY <1>0, <1>7 DEF releaseLock, Crash, TypeOK
    <2>2. \A v \in Workers : Moved(v)
      BY <1>3, <2>1 DEF Moved
    <2>3. hazard = "outage" => \A v \in Workers : worker'[v] = None
      BY <1>0, <1>3, <2>1 DEF CleanupSafe
    <2> QED BY <1>1, <1>2, <2>2, <2>3, QuietStep
  <1> QED BY <1>5, <1>6, <1>7

-----------------------------------------------------------------------------
(* Steps that move events between the stores.                              *)

(* trackEvent: a new event enters one counter, and its member is marked.   *)
LEMMA TrackStep ==
    ASSUME FlushInv, TypeOK', NEW e \in Events, NEW m \in Members,
           trackEvent(e, m)
    PROVE  FlushInv'
  <1>0. /\ TypeOK /\ CountersFresh /\ RecordsExact /\ FreshIDs /\ HeldExact
        /\ CleanupSafe /\ UntrackedUncounted /\ MarkedDirty /\ NothingLost
    BY DEF FlushInv
  <1>1. /\ e \notin tracked /\ tracked' = tracked \cup {e}
        /\ dirty' = dirty \cup {m}
        /\ UNCHANGED <<pending, lock, ledger, aged, counted, worker, used,
                       hazard>>
        /\ \A n \in Members : counter'[n] = IF n = m THEN counter[n] \cup {e}
                                                     ELSE counter[n]
    BY <1>0 DEF trackEvent, mysql, TypeOK
  <1>2. Pending' = Pending
    BY <1>1 DEF Pending
  <1>3. counted[e] = 0
    BY <1>0, <1>1 DEF UntrackedUncounted
  <1>4. CountersFresh' /\ UntrackedUncounted'
    <2>1. ASSUME NEW n \in Members, NEW x \in counter'[n]
          PROVE  x \in tracked' /\ counted'[x] = 0
      BY <1>0, <1>1, <1>3 DEF CountersFresh
    <2>2. ASSUME NEW n \in Members, NEW o \in Members, n # o
          PROVE  counter'[n] \cap counter'[o] = {}
      <3>1. e \notin counter[n] /\ e \notin counter[o]
        BY <1>0, <1>1 DEF CountersFresh
      <3>2. counter[n] \cap counter[o] = {}
        BY <1>0, <2>2 DEF CountersFresh
      <3> QED BY <1>1, <2>2, <3>1, <3>2
    <2> QED BY <1>0, <1>1, <2>1, <2>2 DEF CountersFresh, UntrackedUncounted
  <1>5. RecordsExact'
    <2>1. ASSUME NEW f \in FlushIDs, pending[f] # None,
                 NEW x \in pending[f].events
          PROVE  /\ x \in tracked'
                 /\ \A n \in Members : x \notin counter'[n]
                 /\ f \in ledger => counted[x] > 0
                 /\ f \notin ledger => counted[x] = 0
      <3>1. /\ x \in tracked
            /\ \A n \in Members : x \notin counter[n]
            /\ f \in ledger => counted[x] > 0
            /\ f \notin ledger => counted[x] = 0
        BY <1>0, <2>1 DEF RecordsExact
      <3>2. x # e
        BY <1>1, <3>1
      <3> QED BY <1>1, <3>1, <3>2
    <2>2. \A f, g \in FlushIDs : pending[f] # None /\ pending[g] # None /\ f # g
            => pending[f].events \cap pending[g].events = {}
      BY <1>0 DEF RecordsExact
    <2> QED BY <1>1, <2>1, <2>2 DEF RecordsExact
  <1>6. FreshIDs' /\ HeldExact' /\ CleanupSafe'
    BY <1>0, <1>1, <1>2 DEF FreshIDs, HeldExact, CleanupSafe
  <1>7. MarkedDirty'
    BY <1>0, <1>1 DEF MarkedDirty, Members
  <1>8. NothingLost'
    BY <1>0, <1>1, <1>2 DEF NothingLost, Recorded
  <1> QED BY <1>4, <1>5, <1>6, <1>7, <1>8 DEF FlushInv

(* drainToPendingScript: a counter turns into a pending record.            *)
LEMMA DrainStep ==
    ASSUME FlushInv, TypeOK', NEW w \in Workers, NEW m \in Members,
           drainToPending(w, m)
    PROVE  FlushInv'
  <1>0. /\ TypeOK /\ CountersFresh /\ RecordsExact /\ FreshIDs /\ HeldExact
        /\ CleanupSafe /\ UntrackedUncounted /\ MarkedDirty /\ NothingLost
    BY DEF FlushInv
  <1> DEFINE d == [member |-> m, events |-> counter[m]]
             rest == worker[w].todo \ {m}
  <1>1. /\ UNCHANGED <<lock, ledger, aged, counted, tracked, hazard>>
        /\ worker[w] # None /\ worker[w].at = "next"
        /\ m \in Resources
    BY DEF drainToPending, mysql
  <1>2. worker[w] \in Flush /\ worker[w].id = None
    BY <1>0, <1>1, FlushTyped DEF HeldExact
  <1>3. PICK f \in FlushIDs \ used :
         \/ /\ drainScript(w, m, f)
            /\ counter[m] # {}
            /\ worker' = [worker EXCEPT ![w].at = "upsert", ![w].tries = 0,
                 ![w].todo = rest, ![w].id = f, ![w].delta = d]
         \/ /\ drainScript(w, m, f)
            /\ counter[m] = {}
            /\ worker' = [worker EXCEPT ![w].todo = rest, ![w].progress = TRUE]
         \/ /\ drainScript(w, m, f) \/ UNCHANGED <<counter, dirty, pending, used>>
            /\ worker' = [worker EXCEPT ![w].todo = rest, ![w].failed = TRUE]
    BY DEF drainToPending
  <1>4. \A v \in Workers : v # w => worker'[v] = worker[v]
    BY <1>0, <1>3 DEF TypeOK
  <1>5. \/ worker'[w].id = None /\ worker'[w].at = "next"
        \/ /\ drainScript(w, m, f) /\ counter[m] # {}
           /\ worker'[w].id = f /\ worker'[w].delta = d
           /\ worker'[w].at = "upsert"
    <2> HIDE DEF d, rest
    <2>1. CASE /\ drainScript(w, m, f)
               /\ counter[m] # {}
               /\ worker' = [worker EXCEPT ![w].at = "upsert", ![w].tries = 0,
                    ![w].todo = rest, ![w].id = f, ![w].delta = d]
      BY SMT, <1>0, <1>2, <2>1 DEF TypeOK, Flush
    <2>2. CASE worker' = [worker EXCEPT ![w].todo = rest, ![w].progress = TRUE]
      BY <1>0, <1>1, <1>2, <2>2 DEF TypeOK, Flush
    <2>3. CASE worker' = [worker EXCEPT ![w].todo = rest, ![w].failed = TRUE]
      BY <1>0, <1>1, <1>2, <2>3 DEF TypeOK, Flush
    <2> QED BY <1>3, <2>1, <2>2, <2>3
  <1>6. CASE UNCHANGED <<counter, dirty, pending, used>>
    <2>1. worker'[w].id = None /\ worker'[w].at = "next"
      <3>1. drainScript(w, m, f) /\ counter[m] # {} => pending'[f] = d
        BY <1>0 DEF drainScript, TypeOK
      <3>2. pending[f] = None
        BY <1>0 DEF FreshIDs
      <3>3. d # None
        BY SMT, <1>0, <1>1, MetricsAssumption DEF Delta, TypeOK
      <3> QED BY <1>5, <1>6, <3>1, <3>2, <3>3
    <2>2. \A v \in Workers : Moved(v)
      BY <1>4, <2>1 DEF Moved
    <2> QED BY <1>0, <1>1, <1>4, <1>6, <2>1, <2>2, QuietStep DEF CleanupSafe
  <1>7. CASE drainScript(w, m, f) /\ counter[m] = {}
    <2>1. /\ \A n \in Members : counter'[n] = counter[n]
          /\ pending' = pending /\ used' = used /\ dirty' = dirty \ {m}
      BY <1>0, <1>7 DEF drainScript, TypeOK
    <2>2. Pending' = Pending
      BY <2>1 DEF Pending
    <2>3. worker'[w].id = None /\ worker'[w].at = "next"
      BY <1>5, <1>7
    <2>4. CountersFresh' /\ UntrackedUncounted' /\ RecordsExact'
      BY <1>0, <1>1, <2>1 DEF CountersFresh, UntrackedUncounted, RecordsExact
    <2>5. FreshIDs' /\ HeldExact' /\ CleanupSafe'
      BY SMT, <1>0, <1>1, <1>4, <2>1, <2>2, <2>3, MetricsAssumption
         DEF FreshIDs, HeldExact, CleanupSafe, TypeOK
    <2>6. MarkedDirty' /\ NothingLost'
      BY <1>0, <1>1, <1>7, <2>1, <2>2
         DEF MarkedDirty, NothingLost, Recorded, Members
    <2> QED BY <2>4, <2>5, <2>6 DEF FlushInv
  <1>8. CASE drainScript(w, m, f) /\ counter[m] # {}
    <2>1. /\ \A n \in Members : counter'[n] = IF n = m THEN {} ELSE counter[n]
          /\ \A g \in FlushIDs : pending'[g] = IF g = f THEN d ELSE pending[g]
          /\ used' = used \cup {f} /\ dirty' = dirty \ {m}
      BY <1>0, <1>8 DEF drainScript, TypeOK
    <2>2. d # None /\ d.events = counter[m]
      BY SMT, <1>0, <1>1, MetricsAssumption DEF Delta, TypeOK
    <2>3. /\ pending[f] = None /\ f \notin ledger /\ f # None
          /\ \A v \in Workers : worker[v] # None => worker[v].id # f
      BY <1>0, MetricsAssumption DEF FreshIDs
    <2> HIDE DEF d
    <2>4. CountersFresh' /\ UntrackedUncounted'
      BY <1>0, <1>1, <2>1 DEF CountersFresh, UntrackedUncounted
    <2>5. RecordsExact'
      BY SMT, <1>0, <1>1, <2>1, <2>2, <2>3 DEF RecordsExact, CountersFresh
    <2>6. FreshIDs'
      BY SMT, <1>0, <1>1, <1>4, <1>5, <2>1, <2>3, MetricsAssumption DEF FreshIDs
    <2>7. HeldExact'
      <3>1. HeldExact!(w)'
        BY <1>5, <2>1, <2>2, <2>3
      <3>2. ASSUME NEW v \in Workers, v # w PROVE HeldExact!(v)'
        <4>1. worker[v] # None => worker[v].id \in FlushIDs \cup {None}
          BY <1>0, FlushTyped DEF Flush
        <4> QED BY SMT, <1>0, <1>1, <1>4, <2>1, <2>3, <3>2, <4>1 DEF HeldExact
      <3> QED BY <3>1, <3>2 DEF HeldExact
    <2>8. CleanupSafe'
      <3>1. aged \subseteq ledger
        BY <1>0 DEF TypeOK
      <3>2. hazard = "outage" => \A v \in Workers : worker[v] # None => v = w
        BY <1>0, <1>1 DEF CleanupSafe
      <3> QED BY SMT, <1>0, <1>1, <1>4, <1>5, <2>1, <2>3, <3>1, <3>2,
                 MetricsAssumption DEF CleanupSafe, TypeOK
    <2>9. MarkedDirty'
      BY <1>0, <1>1, <2>1 DEF MarkedDirty, Members
    <2>10. NothingLost'
      <3>1. Recorded' = Recorded \cup counter[m]
        BY SMT, <2>1, <2>2, <2>3 DEF Recorded, Pending
      <3> QED BY <1>0, <1>1, <2>1, <3>1 DEF NothingLost
    <2> QED BY <2>4, <2>5, <2>6, <2>7, <2>8, <2>9, <2>10 DEF FlushInv
  <1> QED BY <1>3, <1>6, <1>7, <1>8

(* UpsertCountsOnce: a record that the ledger does not name is published.  *)
LEMMA UpsertStep ==
    ASSUME FlushInv, TypeOK', NEW w \in Workers, upsertWithRetry(w)
    PROVE  /\ FlushInv'
           /\ \/ counted' = counted
              \/ Counter!Count(worker[w].delta.events)
  <1>0. /\ TypeOK /\ CountersFresh /\ RecordsExact /\ FreshIDs /\ HeldExact
        /\ CleanupSafe /\ UntrackedUncounted /\ MarkedDirty /\ NothingLost
    BY DEF FlushInv
  <1> DEFINE f == worker[w].id
             d == worker[w].delta
  <1>1. /\ UNCHANGED <<counter, dirty, pending, lock, aged, tracked, used,
                       hazard>>
        /\ worker[w] # None /\ worker[w].at = "upsert"
    BY DEF upsertWithRetry, redis
  <1>2. /\ worker[w] \in Flush /\ f \in FlushIDs /\ f # None /\ d \in Delta
        /\ f \in used
    BY <1>0, <1>1, FlushTyped DEF TypeOK, Flush, FreshIDs
  <1>3. \A v \in Workers : v # w => worker'[v] = worker[v]
    BY <1>0 DEF upsertWithRetry, GoTo, Fail, TypeOK
  <1>4. \/ /\ worker'[w].id = f /\ worker'[w].delta = d
           /\ \/ worker'[w].at = "upsert"
              \/ worker'[w].at = "ack" /\ UpsertCountsOnce(w)
        \/ worker'[w].id = None /\ worker'[w].at \in {"release", "next"}
    <2>1. CASE GoTo(w, "ack") /\ UpsertCountsOnce(w)
      BY <1>0, <1>2, <2>1 DEF GoTo, TypeOK, Flush
    <2>2. CASE worker' = [worker EXCEPT ![w].tries = @ + 1]
      BY <1>0, <1>1, <1>2, <2>2 DEF TypeOK, Flush
    <2>3. CASE Fail(w)
      BY <1>0, <1>2, <2>3 DEF Fail, TypeOK, Flush
    <2> QED BY <2>1, <2>2, <2>3 DEF upsertWithRetry
  <1>5. Pending' = Pending
    BY <1>1 DEF Pending
  <1>6. \/ UpsertCountsOnce(w)
        \/ UNCHANGED <<ledger, counted>>
    BY DEF upsertWithRetry
  <1>7. CASE UNCHANGED <<ledger, counted>> /\ ~UpsertCountsOnce(w)
    <2>1. /\ CountersFresh' /\ RecordsExact' /\ UntrackedUncounted'
          /\ MarkedDirty' /\ NothingLost'
      BY SMT, <1>0, <1>1, <1>5, <1>7
         DEF CountersFresh, RecordsExact, UntrackedUncounted, MarkedDirty,
             NothingLost, Recorded
    <2>2. FreshIDs'
      BY SMT, <1>0, <1>1, <1>2, <1>3, <1>4, <1>7, MetricsAssumption DEF FreshIDs
    <2>3. HeldExact'
      BY <1>0, <1>1, <1>3, <1>4, <1>7 DEF HeldExact
    <2>4. CleanupSafe'
      BY SMT, <1>0, <1>1, <1>2, <1>3, <1>4, <1>5, <1>7, MetricsAssumption
         DEF CleanupSafe, TypeOK
    <2> QED BY <1>7, <2>1, <2>2, <2>3, <2>4 DEF FlushInv
  <1>8. CASE UpsertCountsOnce(w)
    <2>1. /\ ledger' = ledger \cup {f}
          /\ f \in ledger => counted' = counted
          /\ f \notin ledger => counted' = [e \in Events |-> counted[e] +
                                   IF e \in d.events THEN 1 ELSE 0]
      BY <1>8 DEF UpsertCountsOnce
    <2>2. f \notin ledger => pending[f] # None /\ pending[f] = d
      BY <1>0, <1>1, <1>2 DEF HeldExact
    <2>3. f \notin ledger => \A e \in d.events :
             /\ e \in Events /\ e \in tracked /\ counted[e] = 0
             /\ \A m \in Members : e \notin counter[m]
             /\ \A g \in FlushIDs : pending[g] # None /\ g # f
                                      => e \notin pending[g].events
      BY <1>0, <1>2, <2>2 DEF RecordsExact, TypeOK
    <2>4. \A e \in Events : counted[e] \in Nat
      BY <1>0 DEF TypeOK
    <2>5. /\ \A e \in Events : /\ counted'[e] >= counted[e]
                               /\ counted'[e] \in Nat
          /\ \A e \in Events : f \in ledger \/ e \notin d.events
                                 => counted'[e] = counted[e]
          /\ f \notin ledger => \A e \in d.events : counted'[e] = 1
      BY SMT, <2>1, <2>3, <2>4
    <2> HIDE DEF f, d
    <2>6. CountersFresh' /\ UntrackedUncounted'
      <3>1. \A m \in Members : counter[m] \subseteq Events
        BY <1>0 DEF TypeOK
      <3>2. \A m \in Members : \A e \in counter[m] : counted'[e] = 0
        BY <1>0, <2>3, <2>5, <3>1 DEF CountersFresh
      <3>3. \A e \in Events \ tracked : counted'[e] = 0
        BY <1>0, <2>3, <2>5 DEF UntrackedUncounted
      <3> QED BY <1>0, <1>1, <3>2, <3>3 DEF CountersFresh, UntrackedUncounted
    <2>7. RecordsExact'
      <3>1. ASSUME NEW g \in FlushIDs, pending[g] # None,
                   NEW e \in pending[g].events
            PROVE  /\ g \in ledger' => counted'[e] > 0
                   /\ g \notin ledger' => counted'[e] = 0
        <4>0. e \in Events
          BY <1>0, <3>1 DEF TypeOK, Delta
        <4>1. CASE g = f
          BY SMT, <1>0, <2>1, <2>2, <2>4, <2>5, <3>1, <4>0, <4>1
             DEF RecordsExact
        <4>2. CASE g # f
          <5>1. counted'[e] = counted[e] /\ (g \in ledger' <=> g \in ledger)
            BY <2>1, <2>3, <2>5, <3>1, <4>0, <4>2
          <5> QED BY <1>0, <3>1, <5>1 DEF RecordsExact
        <4> QED BY <4>1, <4>2
      <3> QED BY <1>0, <1>1, <3>1 DEF RecordsExact
    <2>8. FreshIDs'
      BY SMT, <1>0, <1>1, <1>2, <1>3, <1>4, <2>1, MetricsAssumption
         DEF FreshIDs, f
    <2>9. HeldExact'
      <3>1. \A v \in Workers : v # w => HeldExact!(v)'
        BY <1>0, <1>1, <1>3, <2>1 DEF HeldExact
      <3>2. HeldExact!(w)'
        BY <1>1, <1>2, <1>4, <2>1
      <3> QED BY <3>1, <3>2 DEF HeldExact
    <2>10. CleanupSafe'
      BY SMT, <1>0, <1>1, <1>2, <1>3, <1>4, <1>5, MetricsAssumption
         DEF CleanupSafe, TypeOK, f
    <2>11. MarkedDirty' /\ NothingLost'
      BY SMT, <1>0, <1>1, <1>5, <2>4, <2>5
         DEF MarkedDirty, NothingLost, Recorded, TypeOK
    <2>12. counted' = counted \/ Counter!Count(d.events)
      <3>1. CASE f \in ledger
        BY <2>1, <3>1
      <3>2. CASE f \notin ledger /\ d.events = {}
        BY SMT, <1>0, <2>1, <3>2 DEF TypeOK
      <3>3. CASE f \notin ledger /\ d.events # {}
        <4>1. d.events \subseteq {e \in tracked : counted[e] = 0}
          BY <2>3, <3>3
        <4>2. counted' = [e \in Events |-> IF e \in d.events THEN 1
                                                              ELSE counted[e]]
          BY SMT, <2>1, <2>3, <2>4, <3>3
        <4> QED BY <1>1, <3>3, <4>1, <4>2 DEF Counter!Count
      <3> QED BY <3>1, <3>2, <3>3
    <2> QED BY <2>6, <2>7, <2>8, <2>9, <2>10, <2>11, <2>12 DEF FlushInv, d
  <1> QED BY <1>6, <1>7, <1>8

(* ackPendingScript: a record that is published leaves Redis.              *)
LEMMA AckStep ==
    ASSUME FlushInv, TypeOK', NEW w \in Workers, ackPending(w)
    PROVE  FlushInv'
  <1>0. /\ TypeOK /\ CountersFresh /\ RecordsExact /\ FreshIDs /\ HeldExact
        /\ CleanupSafe /\ UntrackedUncounted /\ MarkedDirty /\ NothingLost
    BY DEF FlushInv
  <1> DEFINE f == worker[w].id
  <1>1. /\ UNCHANGED <<counter, dirty, lock, ledger, aged, counted, tracked,
                       used, hazard>>
        /\ worker[w] # None /\ worker[w].at = "ack"
    BY DEF ackPending, mysql
  <1>2. worker[w] \in Flush /\ f \in FlushIDs /\ f \in ledger
    BY <1>0, <1>1, FlushTyped DEF TypeOK, Flush, HeldExact
  <1>3. \A v \in Workers : v # w => worker'[v] = worker[v]
    BY <1>0 DEF ackPending, Done, Fail, TypeOK
  <1>4. worker'[w].id = None /\ worker'[w].at \in {"release", "next"}
    BY SMT, <1>0, <1>2 DEF ackPending, Done, Fail, TypeOK, Flush
  <1>5. \A g \in FlushIDs : \/ pending'[g] = pending[g]
                            \/ pending'[g] = None /\ g = f
    BY <1>0 DEF ackPending, TypeOK
  <1> HIDE DEF f
  <1>6. CountersFresh' /\ UntrackedUncounted' /\ MarkedDirty'
    BY <1>0, <1>1 DEF CountersFresh, UntrackedUncounted, MarkedDirty
  <1>7. RecordsExact'
    BY <1>0, <1>1, <1>5 DEF RecordsExact
  <1>8. FreshIDs'
    BY SMT, <1>0, <1>1, <1>3, <1>4, <1>5, MetricsAssumption DEF FreshIDs
  <1>9. HeldExact'
    <2>1. ASSUME NEW v \in Workers, v # w PROVE HeldExact!(v)'
      <3>1. worker[v] # None => worker[v].id \in FlushIDs \cup {None}
        BY <1>0, FlushTyped DEF Flush
      <3> QED BY <1>0, <1>1, <1>2, <1>3, <1>5, <2>1, <3>1 DEF HeldExact
    <2>2. HeldExact!(w)'
      BY <1>4
    <2> QED BY <2>1, <2>2 DEF HeldExact
  <1>10. CleanupSafe'
    <2>1. Pending' \subseteq Pending
      BY <1>5 DEF Pending
    <2>2. hazard = "outage" => \A v \in Workers : worker[v] # None => v = w
      BY <1>0, <1>1 DEF CleanupSafe
    <2>3. aged \subseteq FlushIDs
      BY <1>0 DEF TypeOK
    <2> QED BY SMT, <1>0, <1>1, <1>3, <1>4, <1>5, <2>1, <2>2, <2>3,
               MetricsAssumption DEF CleanupSafe
  <1>11. NothingLost'
    <2>1. ASSUME NEW e \in Recorded PROVE e \in Recorded' \/ counted[e] > 0
      <3>1. PICK g \in FlushIDs : pending[g] # None /\ e \in pending[g].events
        BY <2>1 DEF Recorded, Pending
      <3>2. CASE pending'[g] = pending[g]
        BY <3>1, <3>2 DEF Recorded, Pending
      <3>3. CASE g = f
        BY <1>0, <1>2, <3>1, <3>3 DEF RecordsExact
      <3> QED BY <1>5, <3>2, <3>3
    <2> QED BY <1>0, <1>1, <2>1 DEF NothingLost
  <1> QED BY <1>6, <1>7, <1>8, <1>9, <1>10, <1>11 DEF FlushInv

(* DeleteAppliedFlushesBefore: only rows of records that are gone for good *)
(* leave the ledger.                                                       *)
LEMMA CleanStep ==
    ASSUME FlushInv, TypeOK', NEW w \in Workers, DeleteAppliedFlushesBefore(w)
    PROVE  FlushInv'
  <1>0. /\ TypeOK /\ CountersFresh /\ RecordsExact /\ FreshIDs /\ HeldExact
        /\ CleanupSafe /\ UntrackedUncounted /\ MarkedDirty /\ NothingLost
    BY DEF FlushInv
  <1>1. /\ UNCHANGED <<counter, dirty, pending, lock, counted, tracked, used,
                       hazard>>
        /\ worker[w] # None /\ worker[w].at = "clean"
        /\ ledger' \subseteq ledger /\ aged' \subseteq aged
        /\ \A f \in ledger : f \notin aged => f \in ledger'
    BY DEF DeleteAppliedFlushesBefore, redis
  <1>2. worker[w] \in Flush /\ worker[w].id = None
    BY <1>0, <1>1, FlushTyped DEF HeldExact
  <1>3. \A v \in Workers : v # w => worker'[v] = worker[v]
    BY <1>0 DEF DeleteAppliedFlushesBefore, GoTo, TypeOK
  <1>4. worker'[w].id = None /\ worker'[w].at = "sample"
    BY <1>0, <1>2 DEF DeleteAppliedFlushesBefore, GoTo, TypeOK, Flush
  <1>5. Pending' = Pending
    BY <1>1 DEF Pending
  <1>6. hazard = "outage" =>
          /\ \A f \in FlushIDs : pending[f] = None
          /\ \A v \in Workers : worker[v] # None => v = w
    BY <1>0, <1>1 DEF CleanupSafe, Pending
  <1>7. /\ \A f \in FlushIDs : pending[f] # None /\ f \in ledger => f \in ledger'
        /\ \A v \in Workers : v # w /\ worker[v] # None
             /\ worker[v].id \in ledger => worker[v].id \in ledger'
    BY <1>0, <1>1, <1>6 DEF CleanupSafe
  <1>8. /\ CountersFresh' /\ UntrackedUncounted' /\ MarkedDirty'
        /\ NothingLost'
    BY <1>0, <1>1, <1>5 DEF CountersFresh, UntrackedUncounted, MarkedDirty,
                            NothingLost, Recorded
  <1>9. RecordsExact'
    BY <1>0, <1>1, <1>7 DEF RecordsExact
  <1>10. FreshIDs'
    BY SMT, <1>0, <1>1, <1>3, <1>4, MetricsAssumption DEF FreshIDs
  <1>11. HeldExact'
    BY <1>0, <1>1, <1>3, <1>4, <1>7 DEF HeldExact
  <1>12. CleanupSafe'
    <2>1. aged \subseteq FlushIDs
      BY <1>0 DEF TypeOK
    <2> QED BY SMT, <1>0, <1>1, <1>3, <1>4, <1>5, <2>1, MetricsAssumption
            DEF CleanupSafe
  <1> QED BY <1>8, <1>9, <1>10, <1>11, <1>12 DEF FlushInv

(* The retention passes, and the lock and the throttle key expire.         *)
LEMMA TimeStep ==
    ASSUME FlushInv, TypeOK',
           \/ LockExpires \/ ThrottleExpires \/ UNCHANGED vars
           \/ \E f \in FlushIDs : RowAges(f)
    PROVE  FlushInv'
  <1>0. /\ TypeOK /\ CountersFresh /\ RecordsExact /\ FreshIDs /\ HeldExact
        /\ CleanupSafe /\ UntrackedUncounted /\ MarkedDirty /\ NothingLost
    BY DEF FlushInv
  <1>1. ASSUME NEW f \in FlushIDs, RowAges(f) PROVE FlushInv'
    <2>1. /\ UNCHANGED <<counter, dirty, pending, lock, ledger, counted,
                         worker, tracked, used, hazard>>
          /\ aged' = aged \cup {f}
          /\ hazard # "outage" => /\ pending[f] = None
                                  /\ \A w \in Workers : worker[w] # None =>
                                       worker[w].id # f
      BY <1>1 DEF RowAges, redis
    <2>2. Pending' = Pending
      BY <2>1 DEF Pending
    <2>3. /\ CountersFresh' /\ UntrackedUncounted' /\ MarkedDirty'
          /\ NothingLost' /\ RecordsExact' /\ FreshIDs' /\ HeldExact'
      BY SMT, <1>0, <2>1, <2>2
         DEF CountersFresh, UntrackedUncounted, MarkedDirty, NothingLost,
             Recorded, RecordsExact, FreshIDs, HeldExact
    <2>4. CleanupSafe'
      BY <1>0, <2>1, <2>2 DEF CleanupSafe
    <2> QED BY <2>3, <2>4 DEF FlushInv
  <1>2. CASE LockExpires \/ ThrottleExpires \/ UNCHANGED vars
    <2>1. /\ UNCHANGED <<counter, dirty, pending, ledger, aged, counted,
                         worker, tracked, used, hazard>>
          /\ \/ lock' = lock
             \/ /\ lock' = None /\ lock # None
                /\ hazard = "expiry" \/ worker[lock] = None
      BY <1>2 DEF LockExpires, ThrottleExpires, vars, redis, mysql
    <2>2. \A v \in Workers : Moved(v)
      BY <2>1 DEF Moved
    <2>3. hazard = "outage" => \A v \in Workers : worker[v] # None => lock' = v
      BY <1>0, <2>1 DEF CleanupSafe
    <2> QED BY <1>0, <2>1, <2>2, <2>3, QuietStep DEF CleanupSafe
  <1> QED BY <1>1, <1>2

-----------------------------------------------------------------------------
(* Together                                                                *)

LEMMA FlushInvStep == FlushInv /\ [Next]_vars => FlushInv'
  <1> SUFFICES ASSUME FlushInv, [Next]_vars PROVE FlushInv'
    OBVIOUS
  <1>0. TypeOK'
    BY TypeStep DEF FlushInv
  <1>1. ASSUME NEW e \in Events, NEW m \in Members, trackEvent(e, m)
        PROVE  FlushInv'
    BY <1>0, <1>1, TrackStep
  <1>2. ASSUME NEW w \in Workers,
               acquireLock(w) \/ FlushStep(w) \/ Shutdown(w) \/ Crash(w)
        PROVE  FlushInv'
    BY <1>0, <1>2, QuietSteps, DrainStep, UpsertStep, AckStep, CleanStep
       DEF FlushStep
  <1>3. CASE \/ LockExpires \/ ThrottleExpires \/ UNCHANGED vars
             \/ \E f \in FlushIDs : RowAges(f)
    BY <1>0, <1>3, TimeStep
  <1> QED BY <1>1, <1>2, <1>3 DEF Next

LEMMA FlushInvInit == Init => FlushInv
  <1> SUFFICES ASSUME Init PROVE FlushInv
    OBVIOUS
  <1>1. TypeOK
    <2>1. StoresTyped
      BY DEF Init, StoresTyped
    <2>2. FlushesTyped
      BY DEF Init, FlushesTyped, Holding
    <2> QED BY <2>1, <2>2, TypeParts
  <1>2. /\ CountersFresh /\ UntrackedUncounted /\ NothingLost
        /\ RecordsExact /\ HeldExact
    BY DEF Init, CountersFresh, UntrackedUncounted, NothingLost, RecordsExact,
           HeldExact
  <1>3. MarkedDirty
    BY DEF Init, MarkedDirty, Members
  <1>4. FreshIDs
    BY DEF Init, FreshIDs
  <1>5. CleanupSafe
    BY DEF Init, CleanupSafe
  <1> QED BY <1>1, <1>2, <1>3, <1>4, <1>5 DEF FlushInv

(* No tracked event is lost by a crash, an expired lock or a lost reply:   *)
(* it is in its counter, in a pending record or published                  *)
(* (drainToPendingScript, ackPending after the commit).                    *)
THEOREM NoEventLost == Spec => []NothingLost
  <1>1. FlushInv => NothingLost
    BY DEF FlushInv
  <1> QED BY <1>1, FlushInvInit, FlushInvStep, PTL DEF Spec

(* What is still to be flushed is in the dirty set, and is neither in a    *)
(* pending record nor published already (trackEventScript and              *)
(* drainToPendingScript change counter and marker together).               *)
THEOREM CountersAreFound == Spec => []UndrainedIsDirty
  <1>1. FlushInv => UndrainedIsDirty
    <2> SUFFICES ASSUME FlushInv, NEW m \in Resources, counter[m] # {}
                 PROVE  /\ m \in dirty
                        /\ counter[m] \cap Recorded = {}
                        /\ \A e \in counter[m] : counted[e] = 0
      BY DEF UndrainedIsDirty
    <2>1. m \in Members
      BY DEF Members
    <2>2. counter[m] \cap Recorded = {}
      BY <2>1 DEF FlushInv, RecordsExact, Recorded, Pending
    <2> QED BY <2>1, <2>2 DEF FlushInv, MarkedDirty, CountersFresh
  <1> QED BY <1>1, FlushInvInit, FlushInvStep, PTL DEF Spec

(* The pipeline implements the abstract counter for any number of workers, *)
(* events and flush ids: whatever crashes, expires or is retried, the      *)
(* published counts change only by batches of tracked events none of which *)
(* was counted before (UpsertCountsOnce, cleanupFlushLedger).              *)
THEOREM FlushImplementsCounter == Spec => CountsExactlyOnce
  <1>1. Init => Counter!Init
    BY DEF Init, Counter!Init
  <1>2. FlushInv /\ [Next]_vars => [Counter!Next]_<<tracked, counted>>
    <2> SUFFICES ASSUME FlushInv, [Next]_vars
                 PROVE  Counter!Next \/ UNCHANGED <<tracked, counted>>
      OBVIOUS
    <2>0. TypeOK /\ TypeOK'
      BY TypeStep DEF FlushInv
    <2>1. ASSUME NEW e \in Events, NEW m \in Members, trackEvent(e, m)
          PROVE  Counter!Track(e)
      BY <2>1 DEF trackEvent, mysql, Counter!Track
    <2>2. ASSUME NEW w \in Workers, upsertWithRetry(w)
          PROVE  Counter!Next \/ UNCHANGED <<tracked, counted>>
      <3>1. worker[w].delta.events \in SUBSET Events
        BY <2>0, <2>2, FlushTyped DEF upsertWithRetry, TypeOK, Flush, Delta
      <3>2. counted' = counted \/ Counter!Count(worker[w].delta.events)
        BY <2>0, <2>2, UpsertStep
      <3>3. tracked' = tracked
        BY <2>2 DEF upsertWithRetry
      <3> QED BY <3>1, <3>2, <3>3 DEF Counter!Next
    <2>3. ASSUME NEW w \in Workers,
                 \/ acquireLock(w) \/ Shutdown(w) \/ Crash(w)
                 \/ FlushStep(w) /\ ~upsertWithRetry(w)
          PROVE  UNCHANGED <<tracked, counted>>
      BY <2>3 DEF acquireLock, Shutdown, Crash, FlushStep, checkPendingSize,
           acquireThrottle, DeleteAppliedFlushesBefore, sample, sampleDone,
           loadPendingDelta, dropDirtyMember, drainToPending, ackPending,
           releaseLock, mysql
    <2>4. CASE \/ LockExpires \/ ThrottleExpires \/ UNCHANGED vars
               \/ \E f \in FlushIDs : RowAges(f)
      BY <2>4 DEF LockExpires, ThrottleExpires, RowAges, vars, mysql
    <2> QED BY <2>1, <2>2, <2>3, <2>4 DEF Next, Counter!Next
  <1> QED BY <1>1, <1>2, FlushInvInit, FlushInvStep, PTL
          DEF Spec, CountsExactlyOnce, Counter!Spec

(* A flush that ends frees the lock only if it still owns it (releaseLock  *)
(* compares the owner in the same script as it deletes the key).           *)
THEOREM LockFreedByOwner == Spec => ReleaseIsOwn
  <1> DEFINE Own == \A w \in Workers :
               worker[w] # None /\ worker'[w] = None /\ lock # w => lock' = lock
  <1>1. TypeOK /\ [Next]_vars => Own
    <2> SUFFICES ASSUME TypeOK, [Next]_vars, NEW w \in Workers,
                        worker[w] # None, worker'[w] = None, lock # w
                 PROVE  lock' = lock
      OBVIOUS
    <2>1. ASSUME NEW v \in Workers, acquireLock(v) \/ releaseLock(v)
          PROVE  lock' = lock
      <3>1. CASE v = w
        BY <2>1, <3>1 DEF acquireLock, releaseLock
      <3>2. CASE v # w
        BY <2>1, <3>2 DEF acquireLock, releaseLock, TypeOK
      <3> QED BY <3>1, <3>2
    <2>2. ASSUME NEW v \in Workers,
                 \/ Shutdown(v) \/ Crash(v)
                 \/ FlushStep(v) /\ ~releaseLock(v)
          PROVE  lock' = lock
      BY <2>2 DEF Shutdown, Crash, FlushStep, checkPendingSize,
           acquireThrottle, DeleteAppliedFlushesBefore, sample, sampleDone,
           loadPendingDelta, dropDirtyMember, drainToPending, upsertWithRetry,
           ackPending, redis
    <2>3. CASE LockExpires \/ ThrottleExpires \/ UNCHANGED vars
      BY <2>3 DEF LockExpires, ThrottleExpires, vars, redis
    <2>4. ASSUME NEW f \in FlushIDs, RowAges(f) PROVE lock' = lock
      BY <2>4 DEF RowAges, redis
    <2>5. ASSUME NEW e \in Events, NEW m \in Members, trackEvent(e, m)
          PROVE  lock' = lock
      BY <2>5 DEF trackEvent
    <2> QED BY <2>1, <2>2, <2>3, <2>4, <2>5 DEF Next
  <1>2. TypeOK /\ [Next]_vars => [Own]_vars
    BY <1>1
  <1> QED BY <1>2, TypeCorrect, PTL DEF Spec, ReleaseIsOwn

(* No tracked event gets lost between Redis and MySQL, and what is left to *)
(* flush is found (trackEventScript, drainToPendingScript).                *)
THEOREM EventsAreKept == Spec => []EventsKept
  <1>1. NothingLost /\ UndrainedIsDirty => EventsKept
    BY DEF EventsKept
  <1> QED BY <1>1, NoEventLost, CountersAreFound, PTL
=============================================================================
