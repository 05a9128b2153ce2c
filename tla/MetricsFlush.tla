---------------------------- MODULE MetricsFlush ----------------------------
(***************************************************************************)
(* The durable flush of the interaction counters.  Handlers count events   *)
(* in Redis; a flush worker in every API process moves the counts into     *)
(* MySQL by way of a pending record in Redis and a ledger of applied       *)
(* flush ids in MySQL (internal/service/metrics/flush_worker.go,           *)
(* internal/repository/metrics/repo.go, internal/redis/client.go).         *)
(*                                                                         *)
(* A counter is the set of events in it, so that a lost and a doubled      *)
(* event can be told apart; the view, download and install counters of a   *)
(* resource, which every script handles together, are one.  Each Redis     *)
(* command, Lua script and MySQL transaction is one action; a worker may   *)
(* crash, or lose its lock to the TTL, between any two of them.            *)
(***************************************************************************)
EXTENDS Naturals, FiniteSets

CONSTANTS
    Resources,   \* dirty-set members of the flushable resource types
    Foreign,     \* members of a type this worker does not know
    Events,      \* tracked events
    Workers,     \* flush workers, one per process
    FlushIDs,    \* flush ids, drawn fresh for every drain
    Batch,       \* members sampled at a time
    MaxRetries,  \* upsertWithRetry's attempts
    Hazard,      \* which of "expiry" and "outage" the environment may choose
    None

Members == Resources \cup Foreign

(* What a pending record holds.                                            *)
Delta == [member : Resources, events : SUBSET Events]

ASSUME MetricsAssumption ==
    /\ Resources \cap Foreign = {}
    /\ Batch \in Nat \ {0}
    /\ MaxRetries \in Nat \ {0}
    /\ Hazard \subseteq {"expiry", "outage"}
    /\ None \notin Workers \cup FlushIDs \cup Members \cup Delta

VARIABLES
    counter,     \* Redis: the events counted per member and not yet drained
    dirty,       \* Redis: the dirty set
    pending,     \* Redis: the pending set and the pending hashes
    lock,        \* Redis: owner of the flush lock, or None
    throttle,    \* Redis: whether the ledger clean-up key is set
    ledger,      \* MySQL: resource_metric_flushes
    aged,        \* ledger rows older than the retention
    counted,     \* MySQL: resource_metrics, as how often an event is in it
    worker,      \* the flush each worker is in
    tracked,     \* history: events recorded so far
    used,        \* history: flush ids drawn so far
    hazard       \* the one hazard of time this behaviour is exposed to

redis == <<counter, dirty, pending, lock, throttle>>
mysql == <<ledger, aged, counted>>
vars  == <<redis, mysql, worker, tracked, used, hazard>>

(* A flush in progress.  phase says whether it retries pending records or  *)
(* drains dirty members; todo is the sample it is working through, id and  *)
(* delta what it is about to persist or acknowledge; failed and progress   *)
(* are totalDBFails > 0 and madeProgress.  seen is a history: the ledger   *)
(* when the flush began.                                                   *)
Flush == [at : {"check", "throttle", "clean", "sample", "next", "upsert",
                "ack", "release"},
          phase : {"pending", "dirty"},
          todo : SUBSET (FlushIDs \cup Members),
          id : FlushIDs \cup {None}, delta : Delta \cup {None},
          tries : 0 .. MaxRetries, failed : BOOLEAN, progress : BOOLEAN,
          seen : SUBSET FlushIDs]

Init ==
    /\ counter  = [m \in Members |-> {}]
    /\ dirty    = {}
    /\ pending  = [f \in FlushIDs |-> None]
    /\ lock     = None
    /\ throttle = FALSE
    /\ ledger   = {}
    /\ aged     = {}
    /\ counted  = [e \in Events |-> 0]
    /\ worker   = [w \in Workers |-> None]
    /\ tracked  = {}
    /\ used     = {}
    /\ hazard \in Hazard

Pending == {f \in FlushIDs : pending[f] # None}

(* Flush w goes on at another place.                                       *)
GoTo(w, at) == worker' = [worker EXCEPT ![w].at = at]

(* totalDBFails++: a retry of pending records ends the flush; a dirty      *)
(* member that fails leaves the rest of the sample to be worked through.   *)
Fail(w) ==
    worker' = [worker EXCEPT
                 ![w].at = IF worker[w].phase = "pending" THEN "release"
                                                          ELSE "next",
                 ![w].id = None, ![w].delta = None, ![w].failed = TRUE]

(* processPendingDelta and processDirtyMember return true.                 *)
Done(w) ==
    worker' = [worker EXCEPT ![w].at = "next", ![w].id = None,
                             ![w].delta = None, ![w].progress = TRUE]

-----------------------------------------------------------------------------
(* Handlers                                                                *)

(* trackEventScript: one script increments and marks dirty.                *)
trackEvent(e, m) ==
    /\ e \notin tracked
    /\ tracked' = tracked \cup {e}
    /\ counter' = [counter EXCEPT ![m] = @ \cup {e}]
    /\ dirty' = dirty \cup {m}
    /\ UNCHANGED <<pending, lock, throttle, mysql, worker, used, hazard>>

-----------------------------------------------------------------------------
(* The flush                                                               *)

(* Mutant: what earlier flushes left pending is not taken up again.        *)
acquireForDirty(w) ==
    /\ worker[w] = None
    /\ lock = None
    /\ lock' = w
    /\ worker' = [worker EXCEPT ![w] =
         [at |-> "check", phase |-> "dirty", todo |-> {}, id |-> None,
          delta |-> None, tries |-> 0, failed |-> FALSE,
          progress |-> FALSE, seen |-> ledger]]
    /\ UNCHANGED <<counter, dirty, pending, throttle, mysql, tracked, used,
                   hazard>>

(* SETNX; when the reply is lost the lock stays until its TTL.             *)
acquireLock(w) ==
    /\ worker[w] = None
    /\ lock = None
    /\ lock' = w
    /\ \/ worker' = [worker EXCEPT ![w] =
            [at |-> "check", phase |-> "pending", todo |-> {}, id |-> None,
             delta |-> None, tries |-> 0, failed |-> FALSE,
             progress |-> FALSE, seen |-> ledger]]
       \/ UNCHANGED worker
    /\ UNCHANGED <<counter, dirty, pending, throttle, mysql, tracked, used,
                   hazard>>

(* Mutant: old rows are deleted while records wait to be replayed.         *)
checkNothingPending(w) ==
    /\ worker[w] # None
    /\ worker[w].at = "check"
    /\ GoTo(w, "throttle") \/ GoTo(w, "sample")
    /\ UNCHANGED <<redis, mysql, tracked, used, hazard>>

(* cleanupFlushLedger asks whether anything is pending ...                 *)
checkPendingSize(w) ==
    /\ worker[w] # None
    /\ worker[w].at = "check"
    /\ \/ Pending = {} /\ GoTo(w, "throttle")
       \/ GoTo(w, "sample")                     \* pending, or Redis failed
    /\ UNCHANGED <<redis, mysql, tracked, used, hazard>>

(* ... and whether another worker cleaned up lately ...                    *)
acquireThrottle(w) ==
    /\ worker[w] # None
    /\ worker[w].at = "throttle"
    /\ \/ throttle' = TRUE /\ GoTo(w, IF throttle THEN "sample" ELSE "clean")
       \/ throttle' \in {throttle, TRUE} /\ GoTo(w, "sample")
    /\ UNCHANGED <<counter, dirty, pending, lock, mysql, tracked, used, hazard>>

(* ... before it deletes the rows past the retention.                      *)
DeleteAppliedFlushesBefore(w) ==
    /\ worker[w] # None
    /\ worker[w].at = "clean"
    /\ ledger' \in {ledger, ledger \ aged}      \* a failure is only logged
    /\ aged' = aged \cap ledger'
    /\ GoTo(w, "sample")
    /\ UNCHANGED <<redis, counted, tracked, used, hazard>>

(* Samples the pending set, and when it is empty goes on to the dirty set; *)
(* stops when that is empty, or fails to be read.                          *)
sample(w) ==
    /\ worker[w] # None
    /\ worker[w].at = "sample"
    /\ LET from == IF worker[w].phase = "pending" THEN Pending ELSE dirty
           size == IF Cardinality(from) < Batch THEN Cardinality(from) ELSE Batch
       IN  \/ /\ from # {}
              /\ \E batch \in SUBSET from :
                   /\ Cardinality(batch) = size
                   /\ worker' = [worker EXCEPT ![w].at = "next",
                                   ![w].todo = batch, ![w].progress = FALSE]
           \/ /\ from = {} /\ worker[w].phase = "pending"
              /\ worker' = [worker EXCEPT ![w].phase = "dirty"]
           \/ /\ from = {} /\ worker[w].phase = "dirty"
              /\ GoTo(w, "release")
           \/ GoTo(w, "release")                \* Redis failed, or shutdown
    /\ UNCHANGED <<redis, mysql, tracked, used, hazard>>

(* The sample is worked through: another one, unless a failure or a sample *)
(* without progress ends the flush.                                        *)
sampleDone(w) ==
    /\ worker[w] # None
    /\ worker[w].at = "next"
    /\ worker[w].todo = {}
    /\ GoTo(w, IF /\ worker[w].phase = "dirty"
                  /\ worker[w].failed \/ ~worker[w].progress
               THEN "release" ELSE "sample")
    /\ UNCHANGED <<redis, mysql, tracked, used, hazard>>

(* Mutant: does not expect the record to be gone.                          *)
loadBlindly(w, f) ==
    /\ worker[w] # None
    /\ worker[w].at = "next" /\ worker[w].phase = "pending"
    /\ f \in worker[w].todo
    /\ worker' = [worker EXCEPT ![w].at = "upsert", ![w].tries = 0,
         ![w].todo = @ \ {f}, ![w].id = f, ![w].delta = pending[f]]
    /\ UNCHANGED <<redis, mysql, tracked, used, hazard>>

(* Takes f from the sample.  A record that another worker acknowledged     *)
(* meanwhile is skipped.                                                   *)
loadPendingDelta(w, f) ==
    /\ worker[w] # None
    /\ worker[w].at = "next" /\ worker[w].phase = "pending"
    /\ f \in worker[w].todo
    /\ \/ /\ pending[f] = None
          /\ worker' = [worker EXCEPT ![w].todo = @ \ {f}]
       \/ /\ pending[f] # None
          /\ worker' = [worker EXCEPT ![w].at = "upsert", ![w].tries = 0,
               ![w].todo = @ \ {f}, ![w].id = f, ![w].delta = pending[f]]
       \/ Fail(w)
    /\ UNCHANGED <<redis, mysql, tracked, used, hazard>>

(* A member of an unknown type loses its dirty marker, not its counter.    *)
dropDirtyMember(w, m) ==
    /\ worker[w] # None
    /\ worker[w].at = "next" /\ worker[w].phase = "dirty"
    /\ m \in worker[w].todo \cap Foreign
    /\ dirty' \in {dirty, dirty \ {m}}
    /\ worker' = [worker EXCEPT ![w].todo = @ \ {m}, ![w].progress = TRUE]
    /\ UNCHANGED <<counter, pending, lock, throttle, mysql, tracked, used,
                   hazard>>

(* Mutant: the drained counts are only in memory until they are persisted. *)
drainToMemory(w, m, f) ==
    /\ counter' = [counter EXCEPT ![m] = {}]
    /\ dirty' = dirty \ {m}
    /\ used' = IF counter[m] = {} THEN used ELSE used \cup {f}
    /\ UNCHANGED pending

(* drainToPendingScript: takes the counters and the dirty marker away and  *)
(* leaves what they held in a pending record, at once.                     *)
drainScript(w, m, f) ==
    /\ counter' = [counter EXCEPT ![m] = {}]
    /\ dirty' = dirty \ {m}
    /\ used' = IF counter[m] = {} THEN used ELSE used \cup {f}
    /\ pending' = IF counter[m] = {} THEN pending
                  ELSE [pending EXCEPT ![f] = [member |-> m,
                                               events |-> counter[m]]]

(* The script may run though its reply is lost.                            *)
drainToPending(w, m) ==
    LET rest == worker[w].todo \ {m} IN
    /\ worker[w] # None
    /\ worker[w].at = "next" /\ worker[w].phase = "dirty"
    /\ m \in worker[w].todo \cap Resources
    /\ \E f \in FlushIDs \ used :
         \/ /\ drainScript(w, m, f)
            /\ counter[m] # {}
            /\ worker' = [worker EXCEPT ![w].at = "upsert", ![w].tries = 0,
                 ![w].todo = rest, ![w].id = f,
                 ![w].delta = [member |-> m, events |-> counter[m]]]
         \/ /\ drainScript(w, m, f)
            /\ counter[m] = {}
            /\ worker' = [worker EXCEPT ![w].todo = rest, ![w].progress = TRUE]
         \/ /\ drainScript(w, m, f) \/ UNCHANGED <<counter, dirty, pending, used>>
            /\ worker' = [worker EXCEPT ![w].todo = rest, ![w].failed = TRUE]
    /\ UNCHANGED <<lock, throttle, mysql, tracked, hazard>>

(* The transaction: the ledger row and the counts, or neither; nothing if  *)
(* the row is there.                                                       *)
UpsertCountsOnce(w) ==
    LET f == worker[w].id IN
    /\ ledger' = ledger \cup {f}
    /\ counted' = IF f \in ledger THEN counted
                  ELSE [e \in Events |-> counted[e] +
                          IF e \in worker[w].delta.events THEN 1 ELSE 0]

(* An attempt succeeds; or it fails, with or without having committed, and *)
(* is repeated while attempts are left.                                    *)
upsertWithRetry(w) ==
    /\ worker[w] # None
    /\ worker[w].at = "upsert"
    /\ \/ UpsertCountsOnce(w) /\ GoTo(w, "ack")
       \/ /\ UpsertCountsOnce(w) \/ UNCHANGED <<ledger, counted>>
          /\ IF worker[w].tries + 1 < MaxRetries
             THEN worker' = [worker EXCEPT ![w].tries = @ + 1]
             ELSE Fail(w)
    /\ UNCHANGED <<redis, aged, tracked, used, hazard>>

(* ackPendingScript; it too may run though the reply is lost.              *)
ackPending(w) ==
    /\ worker[w] # None
    /\ worker[w].at = "ack"
    /\ LET acked == [pending EXCEPT ![worker[w].id] = None] IN
       \/ pending' = acked /\ Done(w)
       \/ pending' \in {acked, pending} /\ Fail(w)
    /\ UNCHANGED <<counter, dirty, lock, throttle, mysql, tracked, used, hazard>>

(* Mutant: deletes the lock whoever owns it.                               *)
releaseAnyLock(w) ==
    /\ worker[w] # None
    /\ worker[w].at = "release"
    /\ lock' = None
    /\ worker' = [worker EXCEPT ![w] = None]
    /\ UNCHANGED <<counter, dirty, pending, throttle, mysql, tracked, used,
                   hazard>>

releaseLock(w) ==
    /\ worker[w] # None
    /\ worker[w].at = "release"
    /\ lock' \in {IF lock = w THEN None ELSE lock, lock}
    /\ worker' = [worker EXCEPT ![w] = None]
    /\ UNCHANGED <<counter, dirty, pending, throttle, mysql, tracked, used,
                   hazard>>

(* The process is told to stop: the rest of the sample is left.            *)
Shutdown(w) ==
    /\ worker[w] # None
    /\ worker[w].at = "next"
    /\ worker[w].todo # {}
    /\ GoTo(w, "release")
    /\ UNCHANGED <<redis, mysql, tracked, used, hazard>>

-----------------------------------------------------------------------------
(* The environment                                                         *)

Crash(w) ==
    /\ worker[w] # None
    /\ worker' = [worker EXCEPT ![w] = None]
    /\ UNCHANGED <<redis, mysql, tracked, used, hazard>>

(* The lock's TTL runs out: after its owner is gone, or, where the hazard  *)
(* is "expiry", while the owner is slow.                                   *)
LockExpires ==
    /\ lock # None
    /\ hazard = "expiry" \/ worker[lock] = None
    /\ lock' = None
    /\ UNCHANGED <<counter, dirty, pending, throttle, mysql, worker, tracked,
                   used, hazard>>

ThrottleExpires ==
    /\ throttle
    /\ throttle' = FALSE
    /\ UNCHANGED <<counter, dirty, pending, lock, mysql, worker, tracked, used,
                   hazard>>

(* A ledger row passes the retention (seven days).  No flush lasts that    *)
(* long: those in progress began when the row was there.  A pending record *)
(* waits that long only where the hazard is "outage".                      *)
RowAges(f) ==
    /\ f \in ledger \ aged
    /\ \A w \in Workers : worker[w] # None => f \in worker[w].seen
    /\ hazard = "outage" \/ /\ pending[f] = None
                            /\ \A w \in Workers : worker[w] # None =>
                                 worker[w].id # f
    /\ aged' = aged \cup {f}
    /\ UNCHANGED <<redis, ledger, counted, worker, tracked, used, hazard>>

FlushStep(w) ==
    \/ checkPendingSize(w)
    \/ acquireThrottle(w)
    \/ DeleteAppliedFlushesBefore(w)
    \/ sample(w)
    \/ sampleDone(w)
    \/ \E f \in FlushIDs : loadPendingDelta(w, f)
    \/ \E m \in Members : dropDirtyMember(w, m) \/ drainToPending(w, m)
    \/ upsertWithRetry(w)
    \/ ackPending(w)
    \/ releaseLock(w)

Next ==
    \/ \E e \in Events, m \in Members : trackEvent(e, m)
    \/ \E w \in Workers : acquireLock(w) \/ FlushStep(w) \/ Shutdown(w)
                            \/ Crash(w)
    \/ LockExpires
    \/ ThrottleExpires
    \/ \E f \in FlushIDs : RowAges(f)

Spec == Init /\ [][Next]_vars

(* From some point on no process crashes or is stopped, and Redis and      *)
(* MySQL answer.                                                           *)
FaultsStop ==
    <>[][\A w \in Workers :
           /\ lock # w /\ lock' = w => worker'[w] # None
           /\ worker[w] # None /\ worker[w].at # "release" =>
                /\ worker'[w] # None
                /\ worker'[w].failed => worker[w].failed
                /\ worker'[w].tries <= worker[w].tries
                /\ worker[w].todo \cap Foreign \cap dirty' \subseteq worker'[w].todo
                /\ worker'[w].at = "release" =>
                     /\ worker[w].todo = {}
                     /\ worker[w].at = "sample" =>
                          worker[w].phase = "dirty" /\ dirty = {}]_vars

(* The ticker fires again and again, a flush that began runs on, and the   *)
(* lock of a lost owner expires.                                           *)
Fairness == /\ \A w \in Workers : /\ WF_vars(acquireLock(w))
                                  /\ WF_vars(FlushStep(w))
            /\ WF_vars(LockExpires)

FairSpec == Spec /\ Fairness /\ FaultsStop

-----------------------------------------------------------------------------
(* The Redis keys, the MySQL rows and the flushes in progress have the     *)
(* shapes the code gives them, and a flush that persists or acknowledges   *)
(* a record has one.                                                       *)
TypeOK ==
    /\ counter \in [Members -> SUBSET Events]
    /\ dirty \subseteq Members
    /\ pending \in [FlushIDs -> Delta \cup {None}]
    /\ lock \in Workers \cup {None}
    /\ throttle \in BOOLEAN
    /\ ledger \subseteq FlushIDs
    /\ aged \subseteq ledger
    /\ counted \in [Events -> Nat]
    /\ worker \in [Workers -> Flush \cup {None}]
    /\ tracked \subseteq Events
    /\ used \subseteq FlushIDs
    /\ hazard \in Hazard
    /\ \A w \in Workers : worker[w] # None /\ worker[w].at \in {"upsert", "ack"}
                            => worker[w].id # None /\ worker[w].delta # None

(* Where the events of the flushable resources are.                        *)
Undrained == UNION {counter[m] : m \in Resources}
Recorded  == UNION {pending[f].events : f \in Pending}

(* No event is ever lost: each one that was tracked is still in its        *)
(* counter, or in a pending record, or in resource_metrics, whatever       *)
(* crashed in between (drainToPendingScript, ackPending after the commit). *)
NothingLost ==
    \A e \in tracked : \/ \E m \in Members : e \in counter[m]
                       \/ e \in Recorded
                       \/ counted[e] > 0

(* What is still to be flushed will be found: a resource with a non-zero   *)
(* counter is in the dirty set, and the events of an undrained counter are *)
(* in no pending record and in no published count.                         *)
UndrainedIsDirty ==
    \A m \in Resources :
        counter[m] # {} => /\ m \in dirty
                           /\ counter[m] \cap Recorded = {}
                           /\ \A e \in counter[m] : counted[e] = 0

(* A worker whose lock expired never frees the lock of its successor       *)
(* (releaseLock compares before it deletes).                               *)
ReleaseIsOwn ==
    [][\A w \in Workers : worker[w] # None /\ worker'[w] = None /\ lock # w
                            => lock' = lock]_vars

(* The flush implements the abstract counter: every transaction adds a     *)
(* batch of tracked events none of which was counted before, and nothing   *)
(* else changes the published counts (UpsertCountsOnce and the ledger).    *)
Counter == INSTANCE MetricsCounter WITH Events  <- Events,
                                       tracked <- tracked,
                                       counted <- counted

CountsExactlyOnce == Counter!Spec

(* Every event tracked for a flushable resource is eventually published,   *)
(* once the faults stop (processPending retries what a crash left behind). *)
EventuallyCounted ==
    \A e \in Events : e \in tracked ~>
        (counted[e] > 0 \/ \E m \in Foreign : e \in counter[m])

(* Every event is kept where the next flush finds it (trackEvent,          *)
(* drainToPendingScript, ackPending).                                      *)
EventsKept ==
  /\ NothingLost
  /\ UndrainedIsDirty
=============================================================================
