-------------------------- MODULE ParseTaskProofs ---------------------------
(***************************************************************************)
(* Proofs about ParseTask, for any tasks, processes, goroutines and        *)
(* requests in flight.                                                     *)
(***************************************************************************)
EXTENDS ParseTask, Integers, FiniteSetTheorems, TLAPS

(* A leaf that names no prover is left to Zenon: most need no more than    *)
(* first-order reasoning about the facts they cite.                        *)
USE Zenon

-----------------------------------------------------------------------------
(* Queues                                                                  *)

LEMMA EmptyQueue ==
    ASSUME NEW J
    PROVE  /\ <<>> \in Seq(J) /\ Len(<<>>) = 0 /\ DOMAIN <<>> = {}
           /\ \A q \in Seq(J) : q # <<>> => Len(q) \in Nat \ {0}
  BY SMT

LEMMA QueueLen ==
    ASSUME NEW J, NEW q \in Seq(J)
    PROVE  Len(q) \in Nat /\ DOMAIN q = 1 .. Len(q) /\ q \in [1 .. Len(q) -> J]
  BY SMT

(* A goroutine takes the oldest job.                                       *)
LEMMA QueueTaken ==
    ASSUME NEW J, NEW q \in Seq(J), q # <<>>
    PROVE  /\ Head(q) \in J /\ Tail(q) \in Seq(J)
           /\ Len(Tail(q)) = Len(q) - 1
           /\ \A i \in 1 .. Len(Tail(q)) : Tail(q)[i] = q[i + 1]
  BY SMT

(* A job joins at the end.                                                 *)
LEMMA QueueAdded ==
    ASSUME NEW J, NEW q \in Seq(J), NEW job \in J
    PROVE  LET longer == Append(q, job) IN
           /\ longer \in Seq(J) /\ longer # <<>>
           /\ Len(longer) = Len(q) + 1
           /\ longer[Len(q) + 1] = job
           /\ \A i \in 1 .. Len(q) : longer[i] = q[i]
  BY SMT

LEMMA QueueElement ==
    ASSUME NEW J, NEW q \in Seq(J), NEW i \in 1 .. Len(q)
    PROVE  q[i] \in J
  BY SMT

LEMMA QueuesAreFunctions == \A J : Seq(J) = UNION {[1 .. n -> J] : n \in Nat}
  BY SMT

-----------------------------------------------------------------------------

Labels == {"submit", "restore", "enqueue", "wait", "ensure", "status",
           "recover", "exhaust", "fail", "incomplete", "import", "release"}

(* The requests and the pools keep their shapes.                           *)
RequestsTyped ==
    /\ http \in [Clients -> Request \cup {Idle}]
    /\ \A c \in Clients : http[c] # Idle =>
         (http[c].op = "import" <=> http[c].at \in {"import", "release"})

PoolsTyped ==
    /\ queue \in [Pods -> Seq(parseJob)]
    /\ \A p \in Pods : Len(queue[p]) <= QueueSize
    /\ pool \in [Pods -> [Slots -> parseJob \cup {None}]]

Waits(c, p) == http[c] # Idle /\ http[c].at = "wait" /\ http[c].pod = p

(* The request that a job reports to is waiting for it in the same         *)
(* process, and for no other job.                                          *)
JobsAwaited ==
    \A c \in Clients, p \in Pods :
        /\ \A i \in DOMAIN queue[p] : queue[p][i].ctx = c =>
             /\ Waits(c, p)
             /\ \A j \in DOMAIN queue[p] : queue[p][j].ctx = c => i = j
             /\ \A s \in Slots : pool[p][s] # None => pool[p][s].ctx # c
        /\ \A s \in Slots : pool[p][s] # None /\ pool[p][s].ctx = c =>
             /\ Waits(c, p)
             /\ \A r \in Slots : pool[p][r] # None /\ pool[p][r].ctx = c
                                    => r = s

PoolInv == RequestsTyped /\ PoolsTyped /\ JobsAwaited

LEMMA IdleIsNoRequest == Idle \notin Request
  BY DEF Idle, Request

LEMMA LabelsAll == Request = [op : {"trigger", "sync", "poll", "import"},
                              pod : Pods, task : Tasks, last : BOOLEAN,
                              at : Labels]
  BY DEF Request, Labels

(* What a request in flight is.                                            *)
LEMMA InFlight ==
    ASSUME RequestsTyped, NEW c \in Clients, http[c] # Idle
    PROVE  /\ http[c] \in Request
           /\ http[c].op \in {"trigger", "sync", "poll", "import"}
           /\ http[c].pod \in Pods /\ http[c].task \in Tasks
           /\ http[c].last \in BOOLEAN /\ http[c].at \in Labels
  BY LabelsAll DEF RequestsTyped

(* A request goes on at another place, or returns.                         *)
LEMMA Moves ==
    ASSUME RequestsTyped, NEW c \in Clients, http[c] # Idle,
           \/ \E label \in Labels :
                /\ http[c].op = "import" <=> label \in {"import", "release"}
                /\ GoTo(c, label)
           \/ Return(c)
    PROVE  /\ RequestsTyped'
           /\ \A d \in Clients : d # c => http'[d] = http[d]
  <1>1. \A d \in Clients : d # c => http'[d] = http[d]
    BY DEF GoTo, Return, RequestsTyped
  <1>2. ASSUME NEW label \in Labels, GoTo(c, label),
               http[c].op = "import" <=> label \in {"import", "release"}
        PROVE  RequestsTyped'
    <2> DEFINE x == [http[c] EXCEPT !.at = label]
    <2>1. x \in Request /\ x.op = http[c].op /\ x.at = label
      BY InFlight, LabelsAll
    <2>2. http' = [http EXCEPT ![c] = x]
      BY <1>2 DEF GoTo
    <2>3. http'[c] = x /\ http' \in [Clients -> Request \cup {Idle}]
      BY <2>1, <2>2 DEF RequestsTyped
    <2> HIDE DEF x
    <2> QED BY <1>1, <1>2, <2>1, <2>3 DEF RequestsTyped
  <1>3. CASE Return(c)
    <2>1. http' \in [Clients -> Request \cup {Idle}] /\ http'[c] = Idle
      BY <1>3 DEF Return, RequestsTyped
    <2> QED BY <1>1, <2>1 DEF RequestsTyped
  <1> QED BY <1>1, <1>2, <1>3

(* A request begins.                                                       *)
LEMMA Opens ==
    ASSUME RequestsTyped, NEW c \in Clients, NEW x \in Request,
           http' = [http EXCEPT ![c] = x],
           x.op = "import" <=> x.at \in {"import", "release"}
    PROVE  /\ RequestsTyped'
           /\ http'[c] = x
           /\ \A d \in Clients : d # c => http'[d] = http[d]
  BY DEF RequestsTyped

(* Steps that leave the pools and the waiting requests alone.              *)
LEMMA AwaitKept ==
    ASSUME PoolInv, queue' = queue, pool' = pool,
           \A d \in Clients : http[d] # Idle /\ http[d].at = "wait"
                                => http'[d] = http[d]
    PROVE  PoolsTyped' /\ JobsAwaited'
  <1>1. PoolsTyped'
    BY DEF PoolInv, PoolsTyped
  <1>2. \A c \in Clients, p \in Pods : Waits(c, p) => Waits(c, p)'
    BY DEF Waits
  <1>3. JobsAwaited'
    BY SMT, <1>2 DEF PoolInv, JobsAwaited
  <1> QED BY <1>1, <1>3

(* A request that waits for no job goes on, and the pools do not.          *)
LEMMA QuietRequest ==
    ASSUME PoolInv, NEW c \in Clients, http[c] # Idle, http[c].at # "wait",
           queue' = queue, pool' = pool,
           \/ \E label \in Labels :
                /\ http[c].op = "import" <=> label \in {"import", "release"}
                /\ GoTo(c, label)
           \/ Return(c)
    PROVE  PoolInv'
  BY Moves, AwaitKept DEF PoolInv

LEMMA QuietOpen ==
    ASSUME PoolInv, NEW c \in Clients, NEW x \in Request,
           http[c] = Idle \/ http[c].at # "wait",
           queue' = queue, pool' = pool, http' = [http EXCEPT ![c] = x],
           x.op = "import" <=> x.at \in {"import", "release"}
    PROVE  PoolInv'
  BY Opens, AwaitKept DEF PoolInv

(* The steps of requests outside the pools.                                *)
LEMMA OutsideSteps ==
    ASSUME PoolInv, NEW c \in Clients,
           \/ Restore(c) \/ ensureTerminalState(c) \/ MarkIncomplete(c)
           \/ StatusAfterSync(c) \/ Recover(c) \/ Exhaust(c) \/ FailTask(c)
           \/ importConsumedTask(c) \/ Release(c) \/ StoreFails(c)
    PROVE  PoolInv'
  <1>0. RequestsTyped
    BY DEF PoolInv
  <1>1. http[c] # Idle /\ http[c].at # "wait" /\ queue' = queue /\ pool' = pool
    BY DEF Restore, ensureTerminalState, MarkIncomplete, StatusAfterSync,
           Recover, Exhaust, FailTask, importConsumedTask, Release, StoreFails,
           At, workers
  <1>2. http[c] \in Request /\ http[c].at \in Labels
    BY <1>0, <1>1, InFlight
  <1>3. http[c].op = "import" <=> http[c].at \in {"import", "release"}
    BY <1>0, <1>1 DEF RequestsTyped
  <1>4. CASE Restore(c) \/ Exhaust(c) \/ FailTask(c) \/ Release(c)
    BY <1>1, <1>4, QuietRequest DEF Restore, Exhaust, FailTask, Release
  <1>5. CASE ensureTerminalState(c) \/ MarkIncomplete(c)
    <2>1. /\ http[c].op # "import"
          /\ \/ GoTo(c, "status") \/ GoTo(c, "incomplete") \/ GoTo(c, "exhaust")
             \/ Return(c)
      BY <1>3, <1>5 DEF ensureTerminalState, MarkIncomplete, Incomplete, At
    <2> QED BY <1>1, <2>1, QuietRequest DEF Labels
  <1>6. CASE StatusAfterSync(c)
    <2>1. http[c].op # "import" /\ (GoTo(c, "fail") \/ Return(c))
      BY <1>3, <1>6 DEF StatusAfterSync, At
    <2> QED BY <1>1, <2>1, QuietRequest DEF Labels
  <1>7. CASE importConsumedTask(c)
    <2>1. http[c].op = "import" /\ (GoTo(c, "release") \/ Return(c))
      BY <1>3, <1>7 DEF importConsumedTask, At
    <2> QED BY <1>1, <2>1, QuietRequest DEF Labels
  <1>8. CASE StoreFails(c)
    <2>1. CASE http[c].at \in {"ensure", "incomplete"}
      <3>1. http[c].op # "import" /\ (GoTo(c, "exhaust") \/ Return(c))
        BY <1>3, <1>8, <2>1 DEF StoreFails, Incomplete
      <3> QED BY <1>1, <3>1, QuietRequest DEF Labels
    <2>2. CASE http[c].at \notin {"ensure", "incomplete"}
      BY <1>1, <1>8, <2>2, QuietRequest DEF StoreFails
    <2> QED BY <2>1, <2>2
  <1>9. CASE Recover(c)
    <2>1. http[c].op # "import"
      BY <1>3, <1>9 DEF Recover, At
    <2>2. CASE Return(c)
      BY <1>1, <2>2, QuietRequest
    <2>3. CASE http' = [http EXCEPT ![c].last = FALSE,
                   ![c].at = IF http[c].last THEN "enqueue" ELSE "submit"]
      <3> DEFINE x == [http[c] EXCEPT !.last = FALSE,
                         !.at = IF http[c].last THEN "enqueue" ELSE "submit"]
      <3>1. /\ x \in Request /\ x.op = http[c].op
            /\ x.at \in {"enqueue", "submit"}
        BY <1>2 DEF Request
      <3>2. http' = [http EXCEPT ![c] = x]
        BY <2>3
      <3> HIDE DEF x
      <3> QED BY <1>1, <2>1, <3>1, <3>2, QuietOpen
    <2> QED BY <1>9, <2>2, <2>3 DEF Recover
  <1> QED BY <1>4, <1>5, <1>6, <1>7, <1>8, <1>9

(* The beginnings of requests, and the steps of no request.                *)
LEMMA BeginningSteps ==
    ASSUME PoolInv, NEW t \in Tasks,
           \/ \E skill \in BOOLEAN : InitUpload(t, skill)
           \/ UpdateSkillAndConsumeTask(t) \/ GrowStale(t)
           \/ UNCHANGED vars
           \/ \E c \in Clients, p \in Pods :
                \/ \E op \in {"trigger", "sync"} : Claim(c, p, t, op)
                \/ GetParseStatus(c, p, t)
                \/ Consume(c, p, t)
    PROVE  PoolInv'
  <1>1. queue' = queue /\ pool' = pool
    BY DEF InitUpload, UpdateSkillAndConsumeTask, GrowStale, vars, Claim,
           GetParseStatus, Consume, workers
  <1>2. CASE http' = http
    <2>1. RequestsTyped'
      BY <1>2 DEF PoolInv, RequestsTyped
    <2> QED BY <1>1, <1>2, <2>1, AwaitKept DEF PoolInv
  <1>3. ASSUME NEW c \in Clients, NEW p \in Pods, NEW op \in {"trigger", "sync"},
               Claim(c, p, t, op)
        PROVE  PoolInv'
    <2> DEFINE x == [op |-> op, pod |-> p, task |-> t, last |-> FALSE,
                     at |-> IF op = "trigger" THEN "submit" ELSE "enqueue"]
    <2>1. x \in Request /\ x.op # "import" /\ x.at \notin {"import", "release"}
      BY DEF Request
    <2>2. http' = [http EXCEPT ![c] = x] /\ http[c] = Idle
      BY <1>3 DEF Claim, Open
    <2> HIDE DEF x
    <2> QED BY <1>1, <2>1, <2>2, QuietOpen
  <1>4. ASSUME NEW c \in Clients, NEW p \in Pods, GetParseStatus(c, p, t),
               http' # http
        PROVE  PoolInv'
    <2> DEFINE x == [op |-> "poll", pod |-> p, task |-> t,
                     last |-> task[t].attempts + 1 = MaxAttempts,
                     at |-> IF task[t].attempts >= MaxAttempts
                            THEN "exhaust" ELSE "recover"]
    <2>1. x \in Request /\ x.op # "import" /\ x.at \notin {"import", "release"}
      BY DEF Request
    <2>2. http' = [http EXCEPT ![c] = x] /\ http[c] = Idle
      BY <1>4 DEF GetParseStatus
    <2> HIDE DEF x
    <2> QED BY <1>1, <2>1, <2>2, QuietOpen
  <1>5. ASSUME NEW c \in Clients, NEW p \in Pods, Consume(c, p, t)
        PROVE  PoolInv'
    <2> DEFINE x == [op |-> "import", pod |-> p, task |-> t, last |-> FALSE,
                     at |-> "import"]
    <2>1. x \in Request /\ x.op = "import" /\ x.at \in {"import", "release"}
      BY DEF Request
    <2>2. http' = [http EXCEPT ![c] = x] /\ http[c] = Idle
      BY <1>5 DEF Consume, Open
    <2> HIDE DEF x
    <2> QED BY <1>1, <2>1, <2>2, QuietOpen
  <1>6. ASSUME \/ \E skill \in BOOLEAN : InitUpload(t, skill)
               \/ UpdateSkillAndConsumeTask(t) \/ GrowStale(t)
               \/ UNCHANGED vars
        PROVE  http' = http
    BY <1>6 DEF InitUpload, UpdateSkillAndConsumeTask, GrowStale, vars
  <1> QED BY <1>2, <1>3, <1>4, <1>5, <1>6

-----------------------------------------------------------------------------
(* The steps of the pools                                                  *)

(* Pushing a job leaves the others where they are.                         *)
LEMMA Pushed ==
    ASSUME PoolInv, NEW p \in Pods, NEW j \in parseJob, Push(p, j), Room(p)
    PROVE  /\ queue' \in [Pods -> Seq(parseJob)]
           /\ \A q \in Pods : Len(queue'[q]) <= QueueSize
           /\ \A q \in Pods : q # p => queue'[q] = queue[q]
           /\ \A i \in DOMAIN queue'[p] :
                \/ i \in DOMAIN queue[p] /\ queue'[p][i] = queue[p][i]
                \/ i = Len(queue[p]) + 1 /\ queue'[p][i] = j
  <1>0. queue \in [Pods -> Seq(parseJob)] /\ queue[p] \in Seq(parseJob)
    BY DEF PoolInv, PoolsTyped
  <1>1. /\ queue'[p] = Append(queue[p], j)
        /\ \A q \in Pods : q # p => queue'[q] = queue[q]
    BY <1>0 DEF Push
  <1>2. /\ queue'[p] \in Seq(parseJob)
        /\ Len(queue'[p]) = Len(queue[p]) + 1
        /\ Len(queue[p]) \in Nat
        /\ DOMAIN queue'[p] = 1 .. Len(queue[p]) + 1
        /\ DOMAIN queue[p] = 1 .. Len(queue[p])
        /\ \A i \in 1 .. Len(queue[p]) : queue'[p][i] = queue[p][i]
        /\ queue'[p][Len(queue[p]) + 1] = j
    BY SMT, <1>0, <1>1, QueueAdded, QueueLen
  <1>3. queue' \in [Pods -> Seq(parseJob)]
    BY <1>0, <1>2 DEF Push
  <1>4. Len(queue'[p]) <= QueueSize
    BY SMT, <1>2, ParseAssumption DEF Room
  <1>5. \A i \in 1 .. Len(queue[p]) + 1 :
          i \in 1 .. Len(queue[p]) \/ i = Len(queue[p]) + 1
    BY SMT, <1>2
  <1> QED BY <1>1, <1>2, <1>3, <1>4, <1>5 DEF PoolInv, PoolsTyped

(* Worker.Submit.                                                          *)
LEMMA SubmitStep ==
    ASSUME PoolInv, NEW c \in Clients, Submit(c)
    PROVE  PoolInv'
  <1>0. /\ RequestsTyped /\ PoolsTyped /\ JobsAwaited
        /\ http[c] # Idle /\ http[c].at = "submit" /\ pool' = pool
        /\ http[c].op # "import"
    BY DEF PoolInv, Submit, At, RequestsTyped
  <1>1. CASE ~Room(http[c].pod)
    <2>1. /\ GoTo(c, "restore") \/ GoTo(c, "fail")
          /\ queue' = queue
      BY <1>1 DEF Submit
    <2> QED BY <1>0, <2>1, QuietRequest DEF Labels
  <1>2. CASE Room(http[c].pod)
    <2> DEFINE p == http[c].pod
               j == [task |-> http[c].task, ctx |-> None]
    <2>1. p \in Pods /\ j \in parseJob /\ j.ctx \notin Clients
      BY <1>0, InFlight, ParseAssumption DEF parseJob
    <2>2. Push(p, j) /\ Return(c)
      BY <1>2 DEF Submit
    <2>3. RequestsTyped' /\ \A d \in Clients : d # c => http'[d] = http[d]
      BY <1>0, <2>2, Moves
    <2>4. \A d \in Clients, q \in Pods : Waits(d, q) => Waits(d, q)'
      BY <1>0, <2>3 DEF Waits
    <2>5. /\ queue' \in [Pods -> Seq(parseJob)]
          /\ \A q \in Pods : Len(queue'[q]) <= QueueSize
          /\ \A q \in Pods : q # p => queue'[q] = queue[q]
          /\ \A i \in DOMAIN queue'[p] :
               \/ i \in DOMAIN queue[p] /\ queue'[p][i] = queue[p][i]
               \/ queue'[p][i] = j
      BY SMT, <1>2, <2>1, <2>2, Pushed
    <2>6. PoolsTyped'
      BY <1>0, <2>5 DEF PoolsTyped
    <2> HIDE DEF p, j
    <2>7. ASSUME NEW d \in Clients, NEW q \in Pods, NEW i \in DOMAIN queue'[q],
                 queue'[q][i].ctx = d
          PROVE  i \in DOMAIN queue[q] /\ queue'[q][i] = queue[q][i]
      BY <2>1, <2>5, <2>7
    <2>8. JobsAwaited'
      BY SMT, <1>0, <2>4, <2>7 DEF JobsAwaited
    <2> QED BY <2>3, <2>6, <2>8 DEF PoolInv
  <1> QED BY <1>1, <1>2

(* Worker.ProcessSync puts its job into the queue.                         *)
LEMMA EnqueueStep ==
    ASSUME PoolInv, NEW c \in Clients, Enqueue(c)
    PROVE  PoolInv'
  <1>0. /\ RequestsTyped /\ PoolsTyped /\ JobsAwaited
        /\ http[c] # Idle /\ http[c].at = "enqueue" /\ pool' = pool
        /\ http[c].op # "import" /\ Room(http[c].pod)
    BY DEF PoolInv, Enqueue, At, RequestsTyped
  <1>p. PICK p \in Pods : p = http[c].pod
    BY <1>0, InFlight
  <1>j. PICK j \in parseJob : j = [task |-> http[c].task, ctx |-> c]
    BY <1>0, InFlight DEF parseJob
  <1>1. j.ctx = c /\ http[c] \in Request
    BY <1>0, <1>j, InFlight
  <1>2. Push(p, j) /\ GoTo(c, "wait")
    BY <1>p, <1>j DEF Enqueue
  <1>3. RequestsTyped' /\ \A d \in Clients : d # c => http'[d] = http[d]
    BY <1>0, <1>2, Moves DEF Labels
  <1>4. http'[c] # Idle /\ http'[c].at = "wait" /\ http'[c].pod = p
    <2>1. http'[c] = [http[c] EXCEPT !.at = "wait"]
      BY <1>0, <1>2 DEF GoTo, RequestsTyped
    <2>2. [http[c] EXCEPT !.at = "wait"] \in Request
      BY <1>1 DEF Request
    <2> QED BY <1>1, <1>p, <2>1, <2>2, IdleIsNoRequest DEF Request
  <1>5. \A d \in Clients, q \in Pods : Waits(d, q) => Waits(d, q)' /\ d # c
    BY <1>0, <1>3 DEF Waits
  <1>6. /\ queue' \in [Pods -> Seq(parseJob)]
        /\ \A q \in Pods : Len(queue'[q]) <= QueueSize
        /\ \A q \in Pods : q # p => queue'[q] = queue[q]
        /\ \A i \in DOMAIN queue'[p] :
             \/ i \in DOMAIN queue[p] /\ queue'[p][i] = queue[p][i]
             \/ i = Len(queue[p]) + 1 /\ queue'[p][i] = j
    BY <1>0, <1>2, <1>p, Pushed
  <1>7. PoolsTyped'
    BY <1>0, <1>6 DEF PoolsTyped
  <1>8. /\ \A q \in Pods : \A i \in DOMAIN queue[q] : queue[q][i].ctx # c
        /\ \A q \in Pods, s \in Slots : pool[q][s] # None => pool[q][s].ctx # c
    BY <1>0, <1>5 DEF JobsAwaited
  <1>9. Waits(c, p)'
    BY <1>4 DEF Waits
  <1>10. ASSUME NEW d \in Clients, NEW q \in Pods, NEW i \in DOMAIN queue'[q],
                queue'[q][i].ctx = d
         PROVE  /\ Waits(d, q)'
                /\ \A k \in DOMAIN queue'[q] : queue'[q][k].ctx = d => i = k
                /\ \A s \in Slots : pool'[q][s] # None => pool'[q][s].ctx # d
    <2>1. CASE q # p
      BY SMT, <1>0, <1>5, <1>6, <1>10, <2>1 DEF JobsAwaited
    <2>2. CASE q = p /\ i \in DOMAIN queue[p] /\ queue'[p][i] = queue[p][i]
      <3>1. d # c
        BY <1>8, <1>10, <2>2
      <3>2. ASSUME NEW k \in DOMAIN queue'[p], queue'[p][k].ctx = d
            PROVE  k \in DOMAIN queue[p] /\ queue[p][k].ctx = d
        BY <1>1, <1>6, <3>1, <3>2
      <3> QED BY SMT, <1>0, <1>5, <1>10, <2>2, <3>2 DEF JobsAwaited
    <2>3. CASE q = p /\ i = Len(queue[p]) + 1 /\ queue'[p][i] = j
      BY SMT, <1>0, <1>1, <1>6, <1>8, <1>9, <1>10, <2>3
    <2> QED BY <1>6, <1>10, <2>1, <2>2, <2>3
  <1>11. \A d \in Clients, q \in Pods, s \in Slots :
           pool'[q][s] # None /\ pool'[q][s].ctx = d =>
               /\ Waits(d, q)'
               /\ \A r \in Slots : pool'[q][r] # None /\ pool'[q][r].ctx = d
                                      => r = s
    BY SMT, <1>0, <1>5 DEF JobsAwaited
  <1>12. JobsAwaited'
    BY SMT, <1>10, <1>11 DEF JobsAwaited
  <1> QED BY <1>3, <1>7, <1>12 DEF PoolInv

(* A goroutine takes the first job.                                        *)
LEMMA RunStep ==
    ASSUME PoolInv, NEW p \in Pods, NEW s \in Slots, run(p, s)
    PROVE  PoolInv'
  <1>0. /\ RequestsTyped /\ PoolsTyped /\ JobsAwaited
        /\ http' = http /\ pool[p][s] = None /\ queue[p] # <<>>
        /\ pool' = [pool EXCEPT ![p][s] = Head(queue[p])]
        /\ queue' = [queue EXCEPT ![p] = Tail(@)]
    BY DEF PoolInv, run
  <1>1. queue[p] \in Seq(parseJob)
    BY <1>0 DEF PoolsTyped
  <1>2. /\ Head(queue[p]) \in parseJob /\ Head(queue[p]) = queue[p][1]
        /\ Tail(queue[p]) \in Seq(parseJob)
        /\ Len(queue[p]) \in Nat \ {0}
        /\ Len(Tail(queue[p])) = Len(queue[p]) - 1
        /\ DOMAIN queue[p] = 1 .. Len(queue[p])
        /\ DOMAIN Tail(queue[p]) = 1 .. Len(queue[p]) - 1
        /\ \A i \in 1 .. Len(queue[p]) - 1 : Tail(queue[p])[i] = queue[p][i + 1]
    BY SMT, <1>0, <1>1, QueueTaken, QueueLen, EmptyQueue
  <1>3. /\ queue'[p] = Tail(queue[p])
        /\ \A q \in Pods : q # p => queue'[q] = queue[q]
        /\ queue' \in [Pods -> Seq(parseJob)]
    BY <1>0, <1>2 DEF PoolsTyped
  <1>4. /\ pool'[p][s] = queue[p][1]
        /\ \A q \in Pods, r \in Slots : <<q, r>> # <<p, s>> =>
             pool'[q][r] = pool[q][r]
        /\ pool' \in [Pods -> [Slots -> parseJob \cup {None}]]
    BY <1>0, <1>2 DEF PoolsTyped
  <1>5. PoolsTyped'
    BY SMT, <1>0, <1>2, <1>3, <1>4, ParseAssumption DEF PoolsTyped
  <1>6. RequestsTyped' /\ \A c \in Clients, q \in Pods : Waits(c, q) => Waits(c, q)'
    BY <1>0 DEF RequestsTyped, Waits
  <1>7. /\ 1 \in DOMAIN queue[p]
        /\ \A i \in DOMAIN queue'[p] :
             /\ i + 1 \in DOMAIN queue[p] /\ i + 1 # 1
             /\ queue'[p][i] = queue[p][i + 1]
        /\ \A i, j \in DOMAIN queue'[p] : i + 1 = j + 1 => i = j
    BY SMT, <1>2, <1>3
  <1>8. ASSUME NEW c \in Clients, NEW q \in Pods, NEW i \in DOMAIN queue'[q],
               queue'[q][i].ctx = c
        PROVE  /\ Waits(c, q)'
               /\ \A j \in DOMAIN queue'[q] : queue'[q][j].ctx = c => i = j
               /\ \A r \in Slots : pool'[q][r] # None => pool'[q][r].ctx # c
    <2>1. CASE q # p
      BY SMT, <1>0, <1>3, <1>4, <1>6, <1>8, <2>1 DEF JobsAwaited
    <2>2. CASE q = p
      <3>1. i + 1 \in DOMAIN queue[p] /\ queue[p][i + 1].ctx = c
        BY <1>7, <1>8, <2>2
      <3>2. /\ Waits(c, p)
            /\ \A j \in DOMAIN queue[p] : queue[p][j].ctx = c => i + 1 = j
            /\ \A r \in Slots : pool[p][r] # None => pool[p][r].ctx # c
        BY <1>0, <3>1 DEF JobsAwaited
      <3>3. \A j \in DOMAIN queue'[p] : queue'[p][j].ctx = c => i = j
        BY <1>7, <1>8, <2>2, <3>2
      <3>4. queue[p][1].ctx # c
        BY <1>7, <1>8, <2>2, <3>2
      <3> QED BY <1>4, <1>6, <2>2, <3>2, <3>3, <3>4
    <2> QED BY <2>1, <2>2
  <1>9. ASSUME NEW c \in Clients, NEW q \in Pods, NEW r \in Slots,
               pool'[q][r] # None, pool'[q][r].ctx = c
        PROVE  /\ Waits(c, q)'
               /\ \A u \in Slots : pool'[q][u] # None /\ pool'[q][u].ctx = c
                                     => u = r
    <2>1. CASE q # p
      BY SMT, <1>0, <1>4, <1>6, <1>9, <2>1 DEF JobsAwaited
    <2>2. CASE q = p /\ r = s
      <3>1. /\ Waits(c, p)
            /\ \A u \in Slots : pool[p][u] # None => pool[p][u].ctx # c
        BY <1>0, <1>4, <1>7, <1>9, <2>2 DEF JobsAwaited
      <3> QED BY <1>4, <1>6, <2>2, <3>1
    <2>3. CASE q = p /\ r # s
      <3>1. /\ Waits(c, p) /\ pool[p][r] # None /\ pool[p][r].ctx = c
            /\ \A u \in Slots : pool[p][u] # None /\ pool[p][u].ctx = c => u = r
        BY SMT, <1>0, <1>4, <1>9, <2>3 DEF JobsAwaited
      <3>2. queue[p][1].ctx # c
        BY <1>0, <1>7, <2>3, <3>1 DEF JobsAwaited
      <3> QED BY <1>4, <1>6, <2>3, <3>1, <3>2
    <2> QED BY <2>1, <2>2, <2>3
  <1>10. JobsAwaited'
    BY SMT, <1>8, <1>9 DEF JobsAwaited
  <1> QED BY <1>5, <1>6, <1>10 DEF PoolInv

(* A job ends, and the request waiting for it goes on.                     *)
LEMMA JobDoneStep ==
    ASSUME PoolInv, NEW p \in Pods, NEW s \in Slots, pool[p][s] # None,
           JobDone(p, s), queue' = queue
    PROVE  PoolInv'
  <1>0. RequestsTyped /\ PoolsTyped /\ JobsAwaited
    BY DEF PoolInv
  <1>1. /\ pool'[p][s] = None
        /\ \A q \in Pods, r \in Slots : <<q, r>> # <<p, s>> =>
             pool'[q][r] = pool[q][r]
        /\ pool' \in [Pods -> [Slots -> parseJob \cup {None}]]
    BY <1>0 DEF PoolsTyped, JobDone
  <1>2. PoolsTyped'
    BY <1>0, <1>1 DEF PoolsTyped
  <1>3. CASE pool[p][s].ctx \notin Clients
    <2>1. http' = http
      BY <1>3 DEF JobDone
    <2>2. RequestsTyped' /\ \A c \in Clients, q \in Pods : Waits(c, q) => Waits(c, q)'
      BY <1>0, <2>1 DEF RequestsTyped, Waits
    <2>3. JobsAwaited'
      BY SMT, <1>0, <1>1, <2>2 DEF JobsAwaited
    <2> QED BY <1>2, <2>2, <2>3 DEF PoolInv
  <1>4. ASSUME NEW c \in Clients, pool[p][s].ctx = c
        PROVE  PoolInv'
    <2>1. Waits(c, p) /\ GoTo(c, "ensure")
      BY <1>0, <1>4 DEF JobDone, JobsAwaited
    <2>2. http[c].op # "import" /\ http[c] # Idle
      BY <1>0, <2>1 DEF RequestsTyped, Waits
    <2>3. RequestsTyped' /\ \A d \in Clients : d # c => http'[d] = http[d]
      BY <1>0, <2>1, <2>2, Moves DEF Labels
    <2>4. \A d \in Clients, q \in Pods : d # c /\ Waits(d, q) => Waits(d, q)'
      BY <2>3 DEF Waits
    <2>5. /\ \A q \in Pods : \A i \in DOMAIN queue[q] : queue[q][i].ctx # c
          /\ \A q \in Pods, r \in Slots :
               pool[q][r] # None /\ pool[q][r].ctx = c => q = p /\ r = s
      BY SMT, <1>0, <1>4, <2>1 DEF JobsAwaited, Waits
    <2>6. \A q \in Pods, r \in Slots : pool'[q][r] # None =>
            pool'[q][r] = pool[q][r] /\ pool[q][r].ctx # c
      BY SMT, <1>1, <2>5
    <2>7. JobsAwaited'
      BY SMT, <1>0, <2>4, <2>5, <2>6 DEF JobsAwaited
    <2> QED BY <1>2, <2>3, <2>7 DEF PoolInv
  <1> QED BY <1>3, <1>4

(* A function on the indices of a sequence is a sequence of that length.   *)
LEMMA SameLength ==
    ASSUME NEW S, NEW u \in Seq(S), NEW v \in [DOMAIN u -> S]
    PROVE  v \in Seq(S) /\ Len(v) = Len(u)
  <1>1. Len(u) \in Nat /\ DOMAIN u = 1 .. Len(u)
    BY QueueLen
  <1>2. v \in [1 .. Len(u) -> S]
    BY <1>1
  <1>3. v \in Seq(S)
    BY <1>1, <1>2, QueuesAreFunctions
  <1>4. Len(v) \in Nat /\ DOMAIN v = 1 .. Len(v)
    BY <1>3, QueueLen
  <1>5. 1 .. Len(v) = 1 .. Len(u)
    BY <1>1, <1>2, <1>4
  <1>6. Len(v) = Len(u)
    <2>1. CASE Len(v) > Len(u)
      BY SMT, <1>1, <1>4, <1>5, <2>1
    <2>2. CASE Len(v) < Len(u)
      BY SMT, <1>1, <1>4, <1>5, <2>2
    <2> QED BY SMT, <1>1, <1>4, <2>1, <2>2
  <1> QED BY <1>3, <1>6

(* The request's context ends before its job is done.                      *)
LEMMA LeaveStep ==
    ASSUME PoolInv, NEW c \in Clients, Leave(c)
    PROVE  PoolInv'
  <1>0. /\ RequestsTyped /\ PoolsTyped /\ JobsAwaited
        /\ http[c] # Idle /\ http[c].at \in {"enqueue", "wait"}
        /\ http[c].op # "import"
    BY DEF PoolInv, Leave, At, RequestsTyped
  <1>1. RequestsTyped' /\ \A d \in Clients : d # c => http'[d] = http[d]
    <2>1. GoTo(c, "exhaust") \/ Return(c)
      BY DEF Leave, Incomplete
    <2> QED BY <1>0, <2>1, Moves DEF Labels
  <1>2. \A d \in Clients, q \in Pods : d # c /\ Waits(d, q) => Waits(d, q)'
    BY <1>1 DEF Waits
  <1>3. ASSUME NEW p \in Pods
        PROVE  /\ queue'[p] \in Seq(parseJob) /\ Len(queue'[p]) = Len(queue[p])
               /\ DOMAIN queue'[p] = DOMAIN queue[p]
               /\ \A i \in DOMAIN queue[p] :
                    \/ queue'[p][i] = queue[p][i] /\ queue[p][i].ctx # c
                    \/ queue'[p][i].ctx = "canceled"
    <2>0. queue[p] \in Seq(parseJob)
      BY <1>0 DEF PoolsTyped
    <2>1. \A i \in DOMAIN queue[p] : queue[p][i] \in parseJob
      BY <2>0, QueueElement, QueueLen
    <2>2. queue'[p] = [i \in DOMAIN queue[p] |->
                         IF queue[p][i].ctx = c
                         THEN [queue[p][i] EXCEPT !.ctx = "canceled"]
                         ELSE queue[p][i]]
      BY DEF Leave
    <2>3. \A i \in DOMAIN queue[p] :
            /\ [queue[p][i] EXCEPT !.ctx = "canceled"] \in parseJob
            /\ [queue[p][i] EXCEPT !.ctx = "canceled"].ctx = "canceled"
      BY <2>1 DEF parseJob
    <2>4. queue'[p] \in [DOMAIN queue[p] -> parseJob]
      BY <2>1, <2>2, <2>3
    <2>5. \A i \in DOMAIN queue[p] :
            \/ queue'[p][i] = queue[p][i] /\ queue[p][i].ctx # c
            \/ queue'[p][i].ctx = "canceled"
      BY <2>2, <2>3
    <2> QED BY <2>0, <2>4, <2>5, SameLength
  <1>4. /\ pool' \in [Pods -> [Slots -> parseJob \cup {None}]]
        /\ \A p \in Pods, s \in Slots : pool'[p][s] # None =>
             /\ pool[p][s] # None
             /\ \/ pool'[p][s] = pool[p][s] /\ pool[p][s].ctx # c
                \/ pool'[p][s].ctx = None
    <2>1. pool' = [p \in Pods |-> [s \in Slots |->
                     IF pool[p][s] # None /\ pool[p][s].ctx = c
                     THEN [pool[p][s] EXCEPT !.ctx = None] ELSE pool[p][s]]]
      BY DEF Leave
    <2>2. \A p \in Pods, s \in Slots : pool[p][s] # None =>
            /\ pool[p][s] \in parseJob
            /\ [pool[p][s] EXCEPT !.ctx = None] \in parseJob
            /\ [pool[p][s] EXCEPT !.ctx = None].ctx = None
      <3>1. \A p \in Pods, s \in Slots : pool[p][s] # None =>
              pool[p][s] \in parseJob
        BY <1>0 DEF PoolsTyped
      <3> QED BY <3>1 DEF parseJob
    <2>3. pool' \in [Pods -> [Slots -> parseJob \cup {None}]]
      BY <2>1, <2>2
    <2> QED BY <2>1, <2>2, <2>3
  <1>5. PoolsTyped'
    <2>1. queue' \in [Pods -> Seq(parseJob)]
      <3>1. queue' = [p \in Pods |-> queue'[p]]
        BY DEF Leave
      <3> QED BY <1>3, <3>1
    <2> QED BY <1>0, <1>3, <1>4, <2>1 DEF PoolsTyped
  <1>6. /\ \A d \in Clients, p \in Pods : \A i \in DOMAIN queue'[p] :
             queue'[p][i].ctx = d =>
               /\ d # c /\ i \in DOMAIN queue[p] /\ queue[p][i].ctx = d
        /\ \A d \in Clients, p \in Pods, s \in Slots :
             pool'[p][s] # None /\ pool'[p][s].ctx = d =>
               d # c /\ pool[p][s] # None /\ pool[p][s].ctx = d
    BY SMT, <1>3, <1>4, ParseAssumption
  <1>7. JobsAwaited'
    BY SMT, <1>0, <1>2, <1>6 DEF JobsAwaited
  <1> QED BY <1>1, <1>5, <1>7 DEF PoolInv

(* A process dies.                                                         *)
LEMMA CrashStep ==
    ASSUME PoolInv, NEW p \in Pods, Crash(p)
    PROVE  PoolInv'
  <1>0. RequestsTyped /\ PoolsTyped /\ JobsAwaited
    BY DEF PoolInv
  <1>1. \A c \in Clients : http'[c] = IF http[c] # Idle /\ http[c].pod = p
                                      THEN Idle ELSE http[c]
    BY DEF Crash
  <1>2. RequestsTyped'
    <2>1. http' \in [Clients -> Request \cup {Idle}]
      BY <1>0 DEF Crash, RequestsTyped
    <2> QED BY <1>0, <1>1, <2>1 DEF RequestsTyped
  <1>3. /\ queue'[p] = <<>> /\ \A s \in Slots : pool'[p][s] = None
        /\ \A q \in Pods : q # p => queue'[q] = queue[q] /\ pool'[q] = pool[q]
        /\ pool' \in [Pods -> [Slots -> parseJob \cup {None}]]
    BY <1>0 DEF Crash, PoolsTyped
  <1>4. queue' \in [Pods -> Seq(parseJob)] /\ Len(queue'[p]) = 0
    <2>1. <<>> \in Seq(parseJob) /\ Len(<<>>) = 0
      BY EmptyQueue
    <2> QED BY <1>0, <1>3, <2>1 DEF Crash, PoolsTyped
  <1>5. PoolsTyped'
    <2>1. ASSUME NEW q \in Pods PROVE Len(queue'[q]) <= QueueSize
      <3>1. CASE q = p
        BY SMT, <1>4, <3>1, ParseAssumption
      <3>2. CASE q # p
        BY <1>0, <1>3, <3>2 DEF PoolsTyped
      <3> QED BY <3>1, <3>2
    <2> QED BY <1>3, <1>4, <2>1 DEF PoolsTyped
  <1>6. \A c \in Clients, q \in Pods : q # p /\ Waits(c, q) => Waits(c, q)'
    BY <1>1 DEF Waits
  <1>7. DOMAIN queue'[p] = {}
    <2>1. DOMAIN queue'[p] = 1 .. 0
      BY <1>4, QueueLen
    <2> QED BY SMT, <2>1
  <1>8. JobsAwaited'
    BY SMT, <1>0, <1>3, <1>6, <1>7 DEF JobsAwaited
  <1> QED BY <1>2, <1>5, <1>8 DEF PoolInv

LEMMA PoolInvStep == PoolInv /\ [Next]_vars => PoolInv'
  <1> SUFFICES ASSUME PoolInv, [Next]_vars PROVE PoolInv'
    OBVIOUS
  <1>1. ASSUME NEW t \in Tasks,
               \/ \E skill \in BOOLEAN : InitUpload(t, skill)
               \/ UpdateSkillAndConsumeTask(t) \/ GrowStale(t)
        PROVE  PoolInv'
    BY <1>1, BeginningSteps
  <1>2. ASSUME NEW c \in Clients, NEW t \in Tasks, NEW p \in Pods,
               \/ \E op \in {"trigger", "sync"} : Claim(c, p, t, op)
               \/ GetParseStatus(c, p, t) \/ Consume(c, p, t)
        PROVE  PoolInv'
    BY <1>2, BeginningSteps
  <1>3. ASSUME NEW c \in Clients, ClientStep(c) \/ Leave(c) \/ StoreFails(c)
        PROVE  PoolInv'
    BY <1>3, OutsideSteps, SubmitStep, EnqueueStep, LeaveStep DEF ClientStep
  <1>4. ASSUME NEW p \in Pods, NEW s \in Slots,
               run(p, s) \/ process(p, s) \/ processUnsaved(p, s)
        PROVE  PoolInv'
    BY <1>4, RunStep, JobDoneStep DEF process, processUnsaved
  <1>5. ASSUME NEW p \in Pods, Crash(p) PROVE PoolInv'
    BY <1>5, CrashStep
  <1>6. CASE UNCHANGED vars
    <2>1. RequestsTyped'
      BY <1>6 DEF PoolInv, RequestsTyped, vars
    <2> QED BY <1>6, <2>1, AwaitKept DEF vars, PoolInv
  <1> QED BY <1>1, <1>2, <1>3, <1>4, <1>5, <1>6 DEF Next

-----------------------------------------------------------------------------
(* The rows                                                                *)

RowsTyped == /\ task \in [Tasks -> ParseTaskRow]
             /\ \A t \in Tasks : /\ task[t].status = "pending" =>
                                      task[t].attempts < MaxAttempts
                                 /\ task[t].status = "absent" =>
                                      task[t].attempts = 0

(* How a step may change the row t.                                        *)
RowMove(t) ==
    \/ task'[t] = task[t]
    \/ /\ task[t].status = "absent" /\ task'[t].status = "pending"
       /\ task'[t].attempts = task[t].attempts
    \/ /\ task[t].status = "pending" /\ task'[t].status = "parsing"
       /\ task'[t].attempts = task[t].attempts + 1
    \/ /\ task[t].status = "parsing" /\ task'[t].status = "pending"
       /\ task'[t].attempts = IF task[t].attempts > 0
                              THEN task[t].attempts - 1 ELSE 0
    \/ /\ task[t].status = "parsing" /\ task'[t].status = "parsing"
       /\ task[t].attempts < MaxAttempts
       /\ task'[t].attempts = task[t].attempts + 1
    \/ /\ task'[t].attempts = task[t].attempts
       /\ task'[t].status = task[t].status \/ task'[t].status \in Terminal

Grows(t) == task'[t].attempts >= task[t].attempts

(* Writing one row.                                                        *)
LEMMA RowWritten ==
    ASSUME RowsTyped, NEW t \in Tasks, NEW x \in ParseTaskRow,
           task' = [task EXCEPT ![t] = x]
    PROVE  /\ task' \in [Tasks -> ParseTaskRow]
           /\ task'[t] = x
           /\ \A o \in Tasks : o # t => task'[o] = task[o]
  BY DEF RowsTyped

(* The same, with a row that is as the others are.                         *)
LEMMA RowReplaced ==
    ASSUME RowsTyped, NEW t \in Tasks, NEW x \in ParseTaskRow,
           task' = [task EXCEPT ![t] = x],
           \/ x.status = "pending" /\ x.attempts < MaxAttempts
           \/ x.status \notin {"pending", "absent"}
    PROVE  /\ RowsTyped' /\ task'[t] = x
           /\ \A o \in Tasks : o # t => task'[o] = task[o]
  <1>1. /\ task' \in [Tasks -> ParseTaskRow] /\ task'[t] = x
        /\ \A o \in Tasks : o # t => task'[o] = task[o]
    BY RowWritten
  <1> QED BY <1>1 DEF RowsTyped

(* What the rollback of a claim writes.                                    *)
LEMMA RestoreMoves ==
    ASSUME RowsTyped, NEW t \in Tasks, RestoreParsingToPending(t)
    PROVE  /\ RowsTyped' /\ RowMove(t)
           /\ task[t].attempts \in Nat /\ task'[t].attempts \in Nat
           /\ task'[t].attempts + 1 >= task[t].attempts
           /\ \A o \in Tasks : o # t => task'[o] = task[o]
  <1> DEFINE a == IF task[t].attempts > 0 THEN task[t].attempts - 1 ELSE 0
             x == [task[t] EXCEPT !.status = "pending", !.stale = FALSE,
                                  !.attempts = a]
  <1>0. /\ task[t] \in ParseTaskRow /\ task[t].attempts \in 0 .. MaxAttempts
        /\ MaxAttempts \in Nat /\ "pending" \in Status
    BY ParseAssumption DEF RowsTyped, ParseTaskRow, Status
  <1>1. /\ a \in 0 .. MaxAttempts /\ a < MaxAttempts
        /\ a + 1 >= task[t].attempts /\ task[t].status = "parsing"
    BY SMT, <1>0, ParseAssumption DEF RestoreParsingToPending
  <1>2. x \in ParseTaskRow /\ x.status = "pending" /\ x.attempts = a
    BY <1>0, <1>1 DEF ParseTaskRow
  <1>3. task' = [task EXCEPT ![t] = x]
    BY DEF RestoreParsingToPending
  <1> HIDE DEF x
  <1>4. /\ RowsTyped' /\ task'[t] = x
        /\ \A o \in Tasks : o # t => task'[o] = task[o]
    BY <1>1, <1>2, <1>3, RowReplaced
  <1>5. RowMove(t)
    BY <1>1, <1>2, <1>4 DEF RowMove
  <1> QED BY SMT, <1>0, <1>1, <1>2, <1>4, <1>5

(* What every other statement writes.                                      *)
LEMMA StatementMoves ==
    ASSUME RowsTyped, NEW t \in Tasks,
           \/ UNCHANGED task
           \/ /\ task[t].status = "absent"
              /\ \E skill \in BOOLEAN :
                   task' = [task EXCEPT ![t].status = "pending",
                                        ![t].bound = skill]
           \/ TransitionPendingToParsing(t)
           \/ TryRecoverStaleParsing(t)
           \/ \E s \in Terminal : task' = SetStatus(t, s)
           \/ task' = [task EXCEPT ![t].stale = TRUE]
    PROVE  /\ RowsTyped' /\ RowMove(t) /\ Grows(t)
           /\ \A o \in Tasks : o # t => task'[o] = task[o]
  <1>0. /\ task[t] \in ParseTaskRow /\ task[t].attempts \in 0 .. MaxAttempts
        /\ MaxAttempts \in Nat /\ Terminal \subseteq Status
        /\ "pending" \in Status /\ "parsing" \in Status
        /\ "pending" \notin Terminal /\ "absent" \notin Terminal
    BY ParseAssumption DEF RowsTyped, ParseTaskRow, Status, Terminal
  <1>1. CASE UNCHANGED task
    BY SMT, <1>0, <1>1 DEF RowsTyped, RowMove, Grows
  <1>2. ASSUME NEW skill \in BOOLEAN, task[t].status = "absent",
               task' = [task EXCEPT ![t].status = "pending", ![t].bound = skill]
        PROVE  /\ RowsTyped' /\ RowMove(t) /\ Grows(t)
               /\ \A o \in Tasks : o # t => task'[o] = task[o]
    <2> DEFINE x == [task[t] EXCEPT !.status = "pending", !.bound = skill]
    <2>1. /\ x \in ParseTaskRow /\ x.status = "pending"
          /\ x.attempts = task[t].attempts
      BY <1>0 DEF ParseTaskRow
    <2>2. task' = [task EXCEPT ![t] = x]
      BY <1>2
    <2> HIDE DEF x
    <2>3. x.attempts < MaxAttempts
      <3>1. task[t].attempts = 0
        BY <1>2 DEF RowsTyped
      <3> QED BY SMT, <2>1, <3>1, ParseAssumption
    <2>4. /\ RowsTyped' /\ task'[t] = x
          /\ \A o \in Tasks : o # t => task'[o] = task[o]
      BY <2>1, <2>2, <2>3, RowReplaced
    <2>5. RowMove(t)
      BY <1>2, <2>1, <2>4 DEF RowMove
    <2> QED BY SMT, <1>0, <2>1, <2>4, <2>5 DEF Grows
  <1>3. CASE TransitionPendingToParsing(t)
    <2> DEFINE x == [task[t] EXCEPT !.status = "parsing", !.stale = FALSE,
                                    !.attempts = task[t].attempts + 1]
    <2>0. task[t].attempts + 1 \in 0 .. MaxAttempts /\ task[t].status = "pending"
      BY SMT, <1>0, <1>3 DEF TransitionPendingToParsing, RowsTyped
    <2>1. /\ x \in ParseTaskRow /\ x.status = "parsing"
          /\ x.attempts = task[t].attempts + 1
      BY <1>0, <2>0 DEF ParseTaskRow
    <2>2. task' = [task EXCEPT ![t] = x]
      BY <1>3 DEF TransitionPendingToParsing
    <2> HIDE DEF x
    <2>4. /\ RowsTyped' /\ task'[t] = x
          /\ \A o \in Tasks : o # t => task'[o] = task[o]
      BY <2>1, <2>2, RowReplaced
    <2>5. RowMove(t)
      BY <2>0, <2>1, <2>4 DEF RowMove
    <2> QED BY SMT, <1>0, <2>1, <2>4, <2>5 DEF Grows
  <1>4. CASE TryRecoverStaleParsing(t)
    <2> DEFINE x == [task[t] EXCEPT !.attempts = task[t].attempts + 1,
                                    !.stale = FALSE]
    <2>0. /\ task[t].attempts + 1 \in 0 .. MaxAttempts
          /\ task[t].attempts < MaxAttempts /\ task[t].status = "parsing"
      BY SMT, <1>0, <1>4 DEF TryRecoverStaleParsing
    <2>1. /\ x \in ParseTaskRow /\ x.status = "parsing"
          /\ x.attempts = task[t].attempts + 1
      BY <1>0, <2>0 DEF ParseTaskRow
    <2>2. task' = [task EXCEPT ![t] = x]
      BY <1>4 DEF TryRecoverStaleParsing
    <2> HIDE DEF x
    <2>4. /\ RowsTyped' /\ task'[t] = x
          /\ \A o \in Tasks : o # t => task'[o] = task[o]
      BY <2>1, <2>2, RowReplaced
    <2>5. RowMove(t)
      BY <2>0, <2>1, <2>4 DEF RowMove
    <2> QED BY SMT, <1>0, <2>1, <2>4, <2>5 DEF Grows
  <1>5. ASSUME NEW s \in Terminal, task' = SetStatus(t, s)
        PROVE  /\ RowsTyped' /\ RowMove(t) /\ Grows(t)
               /\ \A o \in Tasks : o # t => task'[o] = task[o]
    <2> DEFINE x == [task[t] EXCEPT !.status = s, !.stale = FALSE]
    <2>1. /\ x \in ParseTaskRow /\ x.status = s
          /\ x.attempts = task[t].attempts
      BY <1>0 DEF ParseTaskRow
    <2>2. task' = [task EXCEPT ![t] = x]
      BY <1>5 DEF SetStatus
    <2> HIDE DEF x
    <2>4. /\ RowsTyped' /\ task'[t] = x
          /\ \A o \in Tasks : o # t => task'[o] = task[o]
      BY <1>0, <2>1, <2>2, RowReplaced
    <2>5. RowMove(t)
      BY <2>1, <2>4 DEF RowMove
    <2> QED BY SMT, <1>0, <2>1, <2>4, <2>5 DEF Grows
  <1>6. CASE task' = [task EXCEPT ![t].stale = TRUE]
    <2> DEFINE x == [task[t] EXCEPT !.stale = TRUE]
    <2>1. /\ x \in ParseTaskRow /\ x.status = task[t].status
          /\ x.attempts = task[t].attempts
      BY <1>0 DEF ParseTaskRow
    <2>2. task' = [task EXCEPT ![t] = x]
      BY <1>6
    <2> HIDE DEF x
    <2>3. /\ task' \in [Tasks -> ParseTaskRow] /\ task'[t] = x
          /\ \A o \in Tasks : o # t => task'[o] = task[o]
      BY <2>1, <2>2, RowWritten
    <2>4. RowsTyped'
      BY <2>1, <2>3 DEF RowsTyped
    <2>5. RowMove(t)
      BY <2>1, <2>3 DEF RowMove
    <2> QED BY SMT, <1>0, <2>1, <2>3, <2>4, <2>5 DEF Grows
  <1> QED BY <1>1, <1>2, <1>3, <1>4, <1>5, <1>6

(* One step of anybody moves one row at most, and takes back an attempt    *)
(* only as the rollback of a claim.                                        *)
LEMMA RowsStep ==
    ASSUME PoolInv, RowsTyped, [Next]_vars
    PROVE  /\ RowsTyped' /\ \A t \in Tasks : RowMove(t)
           /\ \/ \A t \in Tasks : Grows(t)
              \/ \E c \in Clients : /\ Restore(c)
                                   /\ RestoreParsingToPending(http[c].task)
  <1> DEFINE Wrote(t) ==
        \/ UNCHANGED task
        \/ /\ task[t].status = "absent"
           /\ \E skill \in BOOLEAN :
                task' = [task EXCEPT ![t].status = "pending", ![t].bound = skill]
        \/ TransitionPendingToParsing(t)
        \/ TryRecoverStaleParsing(t)
        \/ \E s \in Terminal : task' = SetStatus(t, s)
        \/ task' = [task EXCEPT ![t].stale = TRUE]
  <1>0. {"failed", "success", "consumed"} = Terminal
    BY DEF Terminal
  <1>1. ASSUME NEW t \in Tasks, Wrote(t)
        PROVE  /\ RowsTyped' /\ \A o \in Tasks : RowMove(o)
               /\ \A o \in Tasks : Grows(o)
    <2>1. /\ RowsTyped' /\ RowMove(t) /\ Grows(t)
          /\ \A o \in Tasks : o # t => task'[o] = task[o]
      BY <1>1, StatementMoves
    <2>2. \A o \in Tasks : task[o].attempts \in Int
      BY SMT DEF RowsTyped, ParseTaskRow
    <2> QED BY SMT, <2>1, <2>2 DEF RowMove, Grows
  <1>2. ASSUME UNCHANGED task
        PROVE  /\ RowsTyped' /\ \A o \in Tasks : RowMove(o)
               /\ \A o \in Tasks : Grows(o)
    <2>2. \A o \in Tasks : task[o].attempts \in Int
      BY SMT DEF RowsTyped, ParseTaskRow
    <2> QED BY SMT, <1>2, <2>2 DEF RowMove, RowsTyped, Grows
  <1>3. ASSUME NEW t \in Tasks,
               \/ \E skill \in BOOLEAN : InitUpload(t, skill)
               \/ UpdateSkillAndConsumeTask(t) \/ GrowStale(t)
               \/ \E c \in Clients, p \in Pods :
                    \/ \E op \in {"trigger", "sync"} : Claim(c, p, t, op)
                    \/ GetParseStatus(c, p, t)
                    \/ Consume(c, p, t)
        PROVE  Wrote(t)
    BY <1>0, <1>3
       DEF InitUpload, UpdateSkillAndConsumeTask, GrowStale, Claim,
           GetParseStatus, Consume, MarkParseTaskConsumed
  <1>4. ASSUME NEW c \in Clients, ClientStep(c) \/ Leave(c) \/ StoreFails(c)
        PROVE  \/ UNCHANGED task \/ \E t \in Tasks : Wrote(t)
               \/ Restore(c) /\ RestoreParsingToPending(http[c].task)
    <2>1. CASE \/ Submit(c) \/ Enqueue(c) \/ ensureTerminalState(c)
               \/ StatusAfterSync(c) \/ importConsumedTask(c) \/ Leave(c)
               \/ StoreFails(c)
      BY <2>1 DEF Submit, Enqueue, ensureTerminalState, StatusAfterSync,
                  importConsumedTask, Leave, StoreFails
    <2>2. CASE \/ Restore(c) \/ MarkIncomplete(c) \/ Recover(c) \/ Exhaust(c)
               \/ FailTask(c) \/ Release(c)
      <3>1. http[c].task \in Tasks
        BY <2>2, InFlight DEF PoolInv, Restore, MarkIncomplete, Recover,
           Exhaust, FailTask, Release, At
      <3>2. \/ Wrote(http[c].task)
            \/ Restore(c) /\ RestoreParsingToPending(http[c].task)
        BY <1>0, <2>2
           DEF Restore, MarkIncomplete, Recover, Exhaust, FailTask, Release,
               UpdateFailed, MarkRetryExhausted, ReleaseConsumedParseTask
      <3> QED BY <3>1, <3>2
    <2> QED BY <1>4, <2>1, <2>2 DEF ClientStep
  <1>5. ASSUME NEW p \in Pods, NEW s \in Slots,
               run(p, s) \/ process(p, s) \/ processUnsaved(p, s)
        PROVE  UNCHANGED task \/ \E t \in Tasks : Wrote(t)
    <2>1. CASE process(p, s)
      <3>1. pool[p][s].task \in Tasks
        BY <2>1 DEF process, PoolInv, PoolsTyped, parseJob
      <3> QED BY <1>0, <2>1, <3>1 DEF process, UpdateSuccess, UpdateFailed
    <2>2. CASE run(p, s) \/ processUnsaved(p, s)
      BY <2>2 DEF run, processUnsaved
    <2> QED BY <1>5, <2>1, <2>2
  <1>6. ASSUME NEW p \in Pods, Crash(p) PROVE UNCHANGED task
    BY <1>6 DEF Crash
  <1>7. ASSUME UNCHANGED vars PROVE UNCHANGED task
    BY <1>7 DEF vars
  <1>8. ASSUME NEW c \in Clients, Restore(c),
               RestoreParsingToPending(http[c].task)
        PROVE  RowsTyped' /\ \A o \in Tasks : RowMove(o)
    <2>1. http[c].task \in Tasks
      BY <1>8, InFlight DEF PoolInv, Restore, At
    <2>2. /\ RowsTyped' /\ RowMove(http[c].task)
          /\ \A o \in Tasks : o # http[c].task => task'[o] = task[o]
      BY <1>8, <2>1, RestoreMoves
    <2> QED BY <2>2 DEF RowMove
  <1> HIDE DEF Wrote
  <1> QED BY <1>1, <1>2, <1>3, <1>4, <1>5, <1>6, <1>7, <1>8 DEF Next

LEMMA PoolInvInit == Init => PoolInv
  <1> SUFFICES ASSUME Init PROVE PoolInv
    OBVIOUS
  <1>1. RequestsTyped
    BY DEF Init, RequestsTyped
  <1>2. <<>> \in Seq(parseJob) /\ Len(<<>>) = 0 /\ DOMAIN <<>> = {}
    BY EmptyQueue
  <1>3. PoolsTyped
    BY SMT, <1>2, ParseAssumption DEF Init, PoolsTyped
  <1>4. JobsAwaited
    BY <1>2 DEF Init, JobsAwaited
  <1> QED BY <1>1, <1>3, <1>4 DEF PoolInv

LEMMA RowsInit == Init => RowsTyped
  BY SMT, ParseAssumption DEF Init, RowsTyped, ParseTaskRow, Status, Terminal

(* A parse outcome is never undone: no rollback or recovery still under    *)
(* way takes a task back to be parsed or claimed again, for any number of  *)
(* requests, processes and faults (RestoreParsingToPending and             *)
(* TryRecoverStaleParsing ask for "parsing").                              *)
THEOREM OutcomesAreFinal == Spec => OutcomesStay
  <1> DEFINE Inv  == PoolInv /\ RowsTyped
             Stay == \A t \in Tasks : task[t].status \in Terminal
                                        => task'[t].status \in Terminal
  <1>1. Init => Inv
    BY PoolInvInit, RowsInit
  <1>2. Inv /\ [Next]_vars => Inv'
    BY PoolInvStep, RowsStep
  <1>3. Inv /\ [Next]_vars => [Stay]_vars
    <2>1. ASSUME NEW t \in Tasks, RowMove(t), task[t].status \in Terminal
          PROVE  task'[t].status \in Terminal
      BY <2>1 DEF RowMove, Terminal
    <2> QED BY <2>1, RowsStep
  <1> QED BY <1>1, <1>2, <1>3, PTL DEF Spec, OutcomesStay

-----------------------------------------------------------------------------
(* Attempts and uses                                                       *)

(* The requests that hold an attempt of t not yet handed to a pool.        *)
Held == {"submit", "enqueue", "restore"}

Launching(t) == {c \in Clients : /\ http[c] # Idle /\ http[c].task = t
                                 /\ http[c].at \in Held}

(* Every attempt but those is one that was handed to a pool.               *)
AttemptsCover ==
    \A t \in Tasks : launched[t] + Cardinality(Launching(t)) <= task[t].attempts

(* Counting a set of requests.                                             *)
LEMMA CountRequests ==
    ASSUME NEW A \in SUBSET Clients, NEW B \in SUBSET Clients
    PROVE  /\ Cardinality(A) \in Nat /\ Cardinality(B) \in Nat
           /\ A \subseteq B => Cardinality(A) <= Cardinality(B)
           /\ \A c \in Clients : c \notin A /\ B = A \cup {c}
                => Cardinality(B) = Cardinality(A) + 1
           /\ \A c \in Clients : c \in A /\ B = A \ {c}
                => Cardinality(B) = Cardinality(A) - 1
  <1>1. IsFiniteSet(A) /\ IsFiniteSet(B)
    BY ParseAssumption, FS_Subset
  <1>2. Cardinality(A) \in Nat /\ Cardinality(B) \in Nat
    BY <1>1, FS_CardinalityType
  <1>3. A \subseteq B => Cardinality(A) <= Cardinality(B)
    BY <1>1, FS_Subset
  <1>4. ASSUME NEW c \in Clients, c \notin A, B = A \cup {c}
        PROVE  Cardinality(B) = Cardinality(A) + 1
    BY <1>1, <1>4, FS_AddElement
  <1>5. ASSUME NEW c \in Clients, c \in A, B = A \ {c}
        PROVE  Cardinality(B) = Cardinality(A) - 1
    BY <1>1, <1>5, FS_RemoveElement
  <1> QED BY <1>2, <1>3, <1>4, <1>5


(* What a step may do with a request without taking an attempt for it ...  *)
Calm(d) == \/ http'[d] = http[d] \/ http'[d] = Idle \/ http'[d].at \notin Held
           \/ /\ http[d] # Idle /\ http[d].at \in Held
              /\ http'[d].task = http[d].task

(* ... and without making or ending a use of a task.                       *)
Keeps(d) == \/ http'[d] = http[d]
            \/ /\ http[d] = Idle \/ http[d].op # "import"
               /\ http'[d] = Idle \/ http'[d].op # "import"
            \/ /\ http[d] # Idle /\ http'[d] # Idle
               /\ http'[d].op = http[d].op /\ http'[d].task = http[d].task

(* A request that goes on keeps its operation and its task.                *)
LEMMA GoesTo ==
    ASSUME RequestsTyped, NEW c \in Clients, http[c] # Idle,
           NEW label \in Labels, GoTo(c, label)
    PROVE  /\ http'[c] # Idle /\ http'[c].at = label
           /\ http'[c].op = http[c].op /\ http'[c].task = http[c].task
           /\ \A d \in Clients : d # c => http'[d] = http[d]
  <1> DEFINE x == [http[c] EXCEPT !.at = label]
  <1>1. /\ x \in Request /\ x.op = http[c].op /\ x.at = label
        /\ x.task = http[c].task
    BY InFlight, LabelsAll
  <1>2. http' = [http EXCEPT ![c] = x]
    BY DEF GoTo
  <1> HIDE DEF x
  <1> QED BY <1>1, <1>2, IdleIsNoRequest DEF RequestsTyped

LEMMA Returns ==
    ASSUME RequestsTyped, NEW c \in Clients, Return(c)
    PROVE  http'[c] = Idle /\ \A d \in Clients : d # c => http'[d] = http[d]
  BY DEF RequestsTyped, Return

(* The steps of requests that neither take, hand on nor give back an       *)
(* attempt and make or end no use of a task.                               *)
LEMMA PlainSteps ==
    ASSUME PoolInv, NEW c \in Clients,
           \/ ensureTerminalState(c) \/ MarkIncomplete(c)
           \/ StatusAfterSync(c) \/ Exhaust(c) \/ FailTask(c) \/ Leave(c)
           \/ StoreFails(c) /\ http[c].at # "release"
           \/ Restore(c)
           \/ Recover(c) /\ ~ TryRecoverStaleParsing(http[c].task)
           \/ Submit(c) /\ ~ Room(http[c].pod)
    PROVE  /\ \A d \in Clients : Calm(d) /\ Keeps(d)
           /\ UNCHANGED <<launched, uses>> /\ stranded' = stranded
  <1>0. RequestsTyped
    BY DEF PoolInv
  <1>1. /\ http[c] # Idle /\ http[c].at \notin {"import", "release"}
        /\ UNCHANGED <<launched, uses>> /\ stranded' = stranded
    BY DEF ensureTerminalState, MarkIncomplete, StatusAfterSync, Exhaust,
           FailTask, Leave, StoreFails, Restore, Recover, Submit, At, history
  <1>2. http[c].op # "import"
    BY <1>0, <1>1 DEF RequestsTyped
  <1>3. \/ Return(c)
        \/ \E label \in Labels :
             /\ GoTo(c, label)
             /\ label \notin Held \/ http[c].at \in Held
    <2>1. CASE Recover(c) /\ ~ TryRecoverStaleParsing(http[c].task)
      BY <2>1 DEF Recover
    <2>2. CASE Submit(c) /\ ~ Room(http[c].pod)
      BY <2>2 DEF Submit, At, Labels, Held
    <2>3. CASE Restore(c) \/ Exhaust(c) \/ FailTask(c)
      BY <2>3 DEF Restore, Exhaust, FailTask
    <2>4. CASE \/ ensureTerminalState(c) \/ MarkIncomplete(c)
               \/ StatusAfterSync(c) \/ Leave(c) \/ StoreFails(c)
      BY <2>4 DEF ensureTerminalState, MarkIncomplete, StatusAfterSync, Leave,
                  StoreFails, Incomplete, Labels, Held
    <2> QED BY <2>1, <2>2, <2>3, <2>4
  <1>4. CASE Return(c)
    BY <1>0, <1>1, <1>2, <1>4, Returns DEF Calm, Keeps
  <1>5. ASSUME NEW label \in Labels, GoTo(c, label),
               label \notin Held \/ http[c].at \in Held
        PROVE  \A d \in Clients : Calm(d) /\ Keeps(d)
    BY <1>0, <1>1, <1>2, <1>5, GoesTo DEF Calm, Keeps
  <1> QED BY <1>1, <1>3, <1>4, <1>5

(* The other steps that leave attempts and uses alone.                     *)
LEMMA PlainOthers ==
    ASSUME PoolInv,
           \/ \E t \in Tasks : \/ \E skill \in BOOLEAN : InitUpload(t, skill)
                               \/ GrowStale(t)
           \/ \E c \in Clients, t \in Tasks, p \in Pods : GetParseStatus(c, p, t)
           \/ \E p \in Pods, s \in Slots : run(p, s) \/ process(p, s)
                                             \/ processUnsaved(p, s)
           \/ UNCHANGED vars
    PROVE  /\ \A d \in Clients : Calm(d) /\ Keeps(d)
           /\ UNCHANGED <<launched, uses>> /\ stranded' = stranded
  <1>0. RequestsTyped
    BY DEF PoolInv
  <1>1. CASE \/ \E t \in Tasks : \/ \E skill \in BOOLEAN : InitUpload(t, skill)
                                 \/ GrowStale(t)
             \/ \E p \in Pods, s \in Slots : run(p, s)
             \/ UNCHANGED vars
    BY <1>1 DEF InitUpload, GrowStale, run, vars, history, Calm, Keeps
  <1>2. ASSUME NEW c \in Clients, NEW t \in Tasks, NEW p \in Pods,
               GetParseStatus(c, p, t)
        PROVE  /\ \A d \in Clients : Calm(d) /\ Keeps(d)
               /\ UNCHANGED <<launched, uses>> /\ stranded' = stranded
    <2>1. UNCHANGED <<launched, uses>> /\ stranded' = stranded /\ http[c] = Idle
      BY <1>2 DEF GetParseStatus, history
    <2>2. CASE UNCHANGED http
      BY <2>1, <2>2 DEF Calm, Keeps
    <2>3. CASE ~ UNCHANGED http
      <3>1. \E x \in {"exhaust", "recover"}, l \in BOOLEAN :
              http' = [http EXCEPT ![c] = [op |-> "poll", pod |-> p, task |-> t,
                                           last |-> l, at |-> x]]
        BY <1>2, <2>3 DEF GetParseStatus
      <3>2. PICK x \in {"exhaust", "recover"}, l \in BOOLEAN :
              http' = [http EXCEPT ![c] = [op |-> "poll", pod |-> p, task |-> t,
                                           last |-> l, at |-> x]]
        BY <3>1
      <3>3. /\ http'[c].at = x /\ http'[c].op = "poll"
            /\ \A d \in Clients : d # c => http'[d] = http[d]
        BY <1>0, <3>2 DEF RequestsTyped
      <3> QED BY <2>1, <3>3 DEF Calm, Keeps, Held
    <2> QED BY <2>2, <2>3
  <1>3. ASSUME NEW p \in Pods, NEW s \in Slots,
               process(p, s) \/ processUnsaved(p, s)
        PROVE  /\ \A d \in Clients : Calm(d) /\ Keeps(d)
               /\ UNCHANGED <<launched, uses>> /\ stranded' = stranded
    <2>1. /\ UNCHANGED <<launched, uses>> /\ stranded' = stranded
          /\ pool[p][s] # None /\ JobDone(p, s)
      BY <1>3 DEF process, processUnsaved, history
    <2>2. CASE UNCHANGED http
      BY <2>1, <2>2 DEF Calm, Keeps
    <2>3. ASSUME NEW c \in Clients, pool[p][s].ctx = c, GoTo(c, "ensure")
          PROVE  \A d \in Clients : Calm(d) /\ Keeps(d)
      <3>1. http[c] # Idle
        BY SMT, <2>1, <2>3 DEF PoolInv, JobsAwaited, Waits
      <3> QED BY <1>0, <2>3, <3>1, GoesTo DEF Calm, Keeps, Held, Labels
    <2> QED BY <2>1, <2>2, <2>3 DEF JobDone
  <1> QED BY <1>1, <1>2, <1>3

(* The steps of the consumers and a crash take no attempt either.          *)
LEMMA UsingSteps ==
    ASSUME PoolInv,
           \/ \E t \in Tasks : UpdateSkillAndConsumeTask(t)
           \/ \E c \in Clients : \/ importConsumedTask(c) \/ Release(c)
                                 \/ StoreFails(c) /\ http[c].at = "release"
           \/ \E c \in Clients, t \in Tasks, p \in Pods : Consume(c, p, t)
           \/ \E p \in Pods : Crash(p)
    PROVE  (\A d \in Clients : Calm(d)) /\ launched' = launched
  <1>0. RequestsTyped
    BY DEF PoolInv
  <1>1. CASE \E t \in Tasks : UpdateSkillAndConsumeTask(t)
    BY <1>1 DEF UpdateSkillAndConsumeTask, Calm
  <1>2. ASSUME NEW c \in Clients,
               \/ importConsumedTask(c) \/ Release(c)
               \/ StoreFails(c) /\ http[c].at = "release"
        PROVE  (\A d \in Clients : Calm(d)) /\ launched' = launched
    <2>1. /\ http[c] # Idle /\ launched' = launched
          /\ Return(c) \/ GoTo(c, "release")
      BY <1>2 DEF importConsumedTask, Release, StoreFails, At, history
    <2> QED BY <1>0, <2>1, Returns, GoesTo DEF Calm, Held, Labels
  <1>3. ASSUME NEW c \in Clients, NEW t \in Tasks, NEW p \in Pods,
               Consume(c, p, t)
        PROVE  (\A d \in Clients : Calm(d)) /\ launched' = launched
    <2>1. /\ http'[c].at = "import" /\ launched' = launched
          /\ \A d \in Clients : d # c => http'[d] = http[d]
      BY <1>0, <1>3 DEF Consume, Open, history, RequestsTyped
    <2> QED BY <2>1 DEF Calm, Held
  <1>4. CASE \E p \in Pods : Crash(p)
    BY <1>4 DEF Crash, Calm
  <1> QED BY <1>1, <1>2, <1>3, <1>4

Counted == /\ launched \in [Tasks -> Nat]
           /\ AttemptsCover

LEMMA CalmSteps ==
    ASSUME Counted, RowsTyped, RowsTyped', \A d \in Clients : Calm(d),
           launched' = launched, \A t \in Tasks : Grows(t)
    PROVE  Counted'
  <1>1. ASSUME NEW t \in Tasks PROVE Launching(t)' \subseteq Launching(t)
    BY DEF Launching, Calm
  <1>2. ASSUME NEW t \in Tasks
        PROVE  launched'[t] + Cardinality(Launching(t)') <= task'[t].attempts
    <2>1. PICK A \in SUBSET Clients : A = Launching(t)
      BY DEF Launching
    <2>2. PICK B \in SUBSET Clients : B = Launching(t)'
      BY DEF Launching
    <2>3. /\ Cardinality(A) \in Nat /\ Cardinality(B) \in Nat
          /\ Cardinality(B) <= Cardinality(A)
      BY <1>1, <2>1, <2>2, CountRequests
    <2>4. launched[t] + Cardinality(A) <= task[t].attempts /\ launched[t] \in Nat
      BY <2>1 DEF Counted, AttemptsCover
    <2>5. task[t].attempts \in Nat /\ task'[t].attempts \in Nat
      BY SMT, ParseAssumption DEF RowsTyped, ParseTaskRow
    <2> QED BY SMT, <2>2, <2>3, <2>4, <2>5 DEF Grows
  <1> QED BY <1>2 DEF Counted, AttemptsCover

(* A request c is one more, or one fewer, that holds an attempt of t.      *)
LEMMA AttemptTaken ==
    ASSUME Counted, RowsTyped, RowsTyped', NEW c \in Clients, NEW t \in Tasks,
           c \notin Launching(t), Launching(t)' = Launching(t) \cup {c},
           launched' = launched, task'[t].attempts = task[t].attempts + 1,
           \A o \in Tasks : o # t =>
             /\ Launching(o)' = Launching(o)
             /\ task'[o] = task[o]
    PROVE  Counted'
  <1>1. launched'[t] + Cardinality(Launching(t)') <= task'[t].attempts
    <2>1. PICK A \in SUBSET Clients : A = Launching(t)
      BY DEF Launching
    <2>2. PICK B \in SUBSET Clients : B = Launching(t)'
      BY DEF Launching
    <2>3. Cardinality(A) \in Nat /\ Cardinality(B) = Cardinality(A) + 1
      BY <2>1, <2>2, CountRequests
    <2>4. launched[t] + Cardinality(A) <= task[t].attempts /\ launched[t] \in Nat
      BY <2>1 DEF Counted, AttemptsCover
    <2>5. task[t].attempts \in Nat /\ task'[t].attempts \in Nat
      BY SMT, ParseAssumption DEF RowsTyped, ParseTaskRow
    <2> QED BY SMT, <2>2, <2>3, <2>4, <2>5
  <1>2. ASSUME NEW o \in Tasks, o # t
        PROVE  launched'[o] + Cardinality(Launching(o)') <= task'[o].attempts
    BY <1>2 DEF Counted, AttemptsCover
  <1> QED BY <1>1, <1>2 DEF Counted, AttemptsCover

LEMMA AttemptGone ==
    ASSUME Counted, RowsTyped, RowsTyped', NEW c \in Clients, NEW t \in Tasks,
           c \in Launching(t), Launching(t)' = Launching(t) \ {c},
           \/ launched' = [launched EXCEPT ![t] = @ + 1] /\ task' = task
           \/ /\ launched' = launched
              /\ task'[t].attempts + 1 >= task[t].attempts
              /\ \A o \in Tasks : o # t => task'[o] = task[o],
           \A o \in Tasks : o # t => Launching(o)' = Launching(o)
    PROVE  Counted'
  <1>0. launched' \in [Tasks -> Nat]
    BY SMT DEF Counted
  <1>1. launched'[t] + Cardinality(Launching(t)') <= task'[t].attempts
    <2>1. PICK A \in SUBSET Clients : A = Launching(t)
      BY DEF Launching
    <2>2. PICK B \in SUBSET Clients : B = Launching(t)'
      BY DEF Launching
    <2>3. Cardinality(A) \in Nat /\ Cardinality(B) = Cardinality(A) - 1
      BY <2>1, <2>2, CountRequests
    <2>4. launched[t] + Cardinality(A) <= task[t].attempts /\ launched[t] \in Nat
      BY <2>1 DEF Counted, AttemptsCover
    <2>5. task[t].attempts \in Nat /\ task'[t].attempts \in Nat
      BY SMT, ParseAssumption DEF RowsTyped, ParseTaskRow
    <2>6. \/ launched'[t] = launched[t] + 1 /\ task'[t].attempts = task[t].attempts
          \/ /\ launched'[t] = launched[t]
             /\ task'[t].attempts + 1 >= task[t].attempts
      BY DEF Counted
    <2> QED BY SMT, <2>2, <2>3, <2>4, <2>5, <2>6
  <1>2. ASSUME NEW o \in Tasks, o # t
        PROVE  launched'[o] + Cardinality(Launching(o)') <= task'[o].attempts
    BY <1>2 DEF Counted, AttemptsCover
  <1> QED BY <1>0, <1>1, <1>2 DEF Counted, AttemptsCover

(* One request changes what it holds.                                      *)
LEMMA HoldsNow ==
    ASSUME NEW c \in Clients, NEW t \in Tasks,
           http[c] = Idle \/ http[c].at \notin Held,
           http'[c] # Idle, http'[c].task = t, http'[c].at \in Held,
           \A d \in Clients : d # c => http'[d] = http[d]
    PROVE  /\ c \notin Launching(t) /\ Launching(t)' = Launching(t) \cup {c}
           /\ \A o \in Tasks : o # t => Launching(o)' = Launching(o)
  BY DEF Launching

LEMMA HoldsNoMore ==
    ASSUME NEW c \in Clients, NEW t \in Tasks,
           http[c] # Idle, http[c].task = t, http[c].at \in Held,
           http'[c] = Idle \/ http'[c].at \notin Held,
           \A d \in Clients : d # c => http'[d] = http[d]
    PROVE  /\ c \in Launching(t) /\ Launching(t)' = Launching(t) \ {c}
           /\ \A o \in Tasks : o # t => Launching(o)' = Launching(o)
  BY DEF Launching

LEMMA ClaimCounts ==
    ASSUME PoolInv, RowsTyped, RowsTyped', Counted,
           NEW c \in Clients, NEW t \in Tasks, NEW p \in Pods,
           NEW op \in {"trigger", "sync"}, Claim(c, p, t, op)
    PROVE  Counted'
  <1> DEFINE x == [op |-> op, pod |-> p, task |-> t, last |-> FALSE,
                   at |-> IF op = "trigger" THEN "submit" ELSE "enqueue"]
  <1>1. x \in Request /\ x.task = t /\ x.at \in Held
    BY DEF Request, Held
  <1>2. http' = [http EXCEPT ![c] = x] /\ http[c] = Idle /\ launched' = launched
    BY DEF Claim, Open, history
  <1> HIDE DEF x
  <1>3. http'[c] = x /\ \A d \in Clients : d # c => http'[d] = http[d]
    BY <1>2 DEF PoolInv, RequestsTyped
  <1>4. /\ task'[t].attempts = task[t].attempts + 1
        /\ \A o \in Tasks : o # t => task'[o] = task[o]
    BY DEF Claim, TransitionPendingToParsing, RowsTyped, ParseTaskRow
  <1>5. /\ c \notin Launching(t) /\ Launching(t)' = Launching(t) \cup {c}
        /\ \A o \in Tasks : o # t => Launching(o)' = Launching(o)
    BY <1>1, <1>2, <1>3, IdleIsNoRequest, HoldsNow
  <1> QED BY <1>2, <1>4, <1>5, AttemptTaken

LEMMA RecoverCounts ==
    ASSUME PoolInv, RowsTyped, RowsTyped', Counted, NEW c \in Clients,
           Recover(c), TryRecoverStaleParsing(http[c].task)
    PROVE  Counted'
  <1>0. http[c] # Idle /\ http[c].at = "recover" /\ launched' = launched
    BY DEF Recover, At, history
  <1>1. http[c] \in Request /\ http[c].last \in BOOLEAN /\ http[c].task \in Tasks
    BY <1>0, InFlight DEF PoolInv
  <1>2. PICK t \in Tasks : t = http[c].task
    BY <1>1
  <1> DEFINE x == [http[c] EXCEPT !.last = FALSE,
                     !.at = IF http[c].last THEN "enqueue" ELSE "submit"]
  <1>3. x \in Request /\ x.task = t /\ x.at \in Held
    BY <1>1, <1>2 DEF Request, Held
  <1>4. http' = [http EXCEPT ![c] = x]
    BY DEF Recover, TryRecoverStaleParsing
  <1> HIDE DEF x
  <1>5. http'[c] = x /\ \A d \in Clients : d # c => http'[d] = http[d]
    BY <1>4 DEF PoolInv, RequestsTyped
  <1>6. /\ task'[t].attempts = task[t].attempts + 1
        /\ \A o \in Tasks : o # t => task'[o] = task[o]
    BY <1>2 DEF TryRecoverStaleParsing, RowsTyped, ParseTaskRow
  <1>7. /\ c \notin Launching(t) /\ Launching(t)' = Launching(t) \cup {c}
        /\ \A o \in Tasks : o # t => Launching(o)' = Launching(o)
    <2>1. http[c].at \notin Held
      BY <1>0 DEF Held
    <2> QED BY <1>3, <1>5, <2>1, IdleIsNoRequest, HoldsNow
  <1> QED BY <1>0, <1>6, <1>7, AttemptTaken

LEMMA PushCounts ==
    ASSUME PoolInv, RowsTyped, RowsTyped', Counted, NEW c \in Clients,
           (Submit(c) /\ Room(http[c].pod)) \/ Enqueue(c)
    PROVE  Counted'
  <1>0. http[c] # Idle /\ http[c].at \in Held /\ task' = task
    BY DEF Submit, Enqueue, At, Held
  <1>1. http[c].task \in Tasks
    BY <1>0, InFlight DEF PoolInv
  <1>2. PICK t \in Tasks : t = http[c].task
    BY <1>1
  <1>3. launched' = [launched EXCEPT ![t] = @ + 1]
    BY <1>2 DEF Submit, Enqueue, Push
  <1>4. /\ http'[c] = Idle \/ http'[c].at \notin Held
        /\ \A d \in Clients : d # c => http'[d] = http[d]
    <2>1. Return(c) \/ GoTo(c, "wait")
      BY DEF Submit, Enqueue
    <2>2. RequestsTyped /\ "wait" \in Labels /\ "wait" \notin Held
      BY DEF PoolInv, Labels, Held
    <2>3. CASE Return(c)
      BY <2>2, <2>3, Returns
    <2>4. CASE GoTo(c, "wait")
      BY <1>0, <2>2, <2>4, GoesTo
    <2> QED BY <2>1, <2>3, <2>4
  <1>5. /\ c \in Launching(t) /\ Launching(t)' = Launching(t) \ {c}
        /\ \A o \in Tasks : o # t => Launching(o)' = Launching(o)
    BY <1>0, <1>2, <1>4, HoldsNoMore
  <1> QED BY <1>0, <1>3, <1>5, AttemptGone

LEMMA RestoreCounts ==
    ASSUME PoolInv, RowsTyped, RowsTyped', Counted, NEW c \in Clients,
           Restore(c), RestoreParsingToPending(http[c].task)
    PROVE  Counted'
  <1>0. http[c] # Idle /\ http[c].at \in Held /\ launched' = launched
    BY DEF Restore, At, Held, history
  <1>1. http[c].task \in Tasks
    BY <1>0, InFlight DEF PoolInv
  <1>2. PICK t \in Tasks : t = http[c].task
    BY <1>1
  <1>3. /\ task'[t].attempts + 1 >= task[t].attempts
        /\ \A o \in Tasks : o # t => task'[o] = task[o]
    BY <1>2, RestoreMoves
  <1>4. http'[c] = Idle /\ \A d \in Clients : d # c => http'[d] = http[d]
    BY Returns DEF Restore, PoolInv
  <1>5. /\ c \in Launching(t) /\ Launching(t)' = Launching(t) \ {c}
        /\ \A o \in Tasks : o # t => Launching(o)' = Launching(o)
    BY <1>0, <1>2, <1>4, HoldsNoMore
  <1> QED BY <1>0, <1>3, <1>5, AttemptGone

LEMMA CountedStep ==
    ASSUME PoolInv, RowsTyped, Counted, [Next]_vars
    PROVE  Counted'
  <1>0. /\ RowsTyped'
        /\ \/ \A t \in Tasks : Grows(t)
           \/ \E c \in Clients : /\ Restore(c)
                                /\ RestoreParsingToPending(http[c].task)
    BY RowsStep
  <1>1. CASE \E c \in Clients : /\ Restore(c)
                                /\ RestoreParsingToPending(http[c].task)
    BY <1>0, <1>1, RestoreCounts
  <1>2. ASSUME \A t \in Tasks : Grows(t), launched' = launched,
               \A d \in Clients : Calm(d)
        PROVE  Counted'
    BY <1>0, <1>2, CalmSteps
  <1>3. ASSUME NEW c \in Clients, ClientStep(c) \/ Leave(c) \/ StoreFails(c),
               \A t \in Tasks : Grows(t)
        PROVE  Counted'
    <2>1. CASE (Submit(c) /\ Room(http[c].pod)) \/ Enqueue(c)
      BY <1>0, <2>1, PushCounts
    <2>2. CASE Recover(c) /\ TryRecoverStaleParsing(http[c].task)
      BY <1>0, <2>2, RecoverCounts
    <2>3. CASE \/ ensureTerminalState(c) \/ MarkIncomplete(c)
               \/ StatusAfterSync(c) \/ Exhaust(c) \/ FailTask(c) \/ Leave(c)
               \/ StoreFails(c) /\ http[c].at # "release"
               \/ Restore(c)
               \/ Recover(c) /\ ~ TryRecoverStaleParsing(http[c].task)
               \/ Submit(c) /\ ~ Room(http[c].pod)
      BY <1>2, <1>3, <2>3, PlainSteps
    <2>4. CASE \/ importConsumedTask(c) \/ Release(c)
               \/ StoreFails(c) /\ http[c].at = "release"
      BY <1>2, <1>3, <2>4, UsingSteps
    <2> QED BY <1>3, <2>1, <2>2, <2>3, <2>4 DEF ClientStep
  <1>4. ASSUME NEW c \in Clients, NEW t \in Tasks, NEW p \in Pods,
               NEW op \in {"trigger", "sync"}, Claim(c, p, t, op)
        PROVE  Counted'
    BY <1>0, <1>4, ClaimCounts
  <1>5. ASSUME \A t \in Tasks : Grows(t),
               \/ \E t \in Tasks : \/ \E skill \in BOOLEAN : InitUpload(t, skill)
                                   \/ GrowStale(t)
               \/ \E c \in Clients, t \in Tasks, p \in Pods :
                    GetParseStatus(c, p, t)
               \/ \E p \in Pods, s \in Slots : run(p, s) \/ process(p, s)
                                                 \/ processUnsaved(p, s)
               \/ UNCHANGED vars
        PROVE  Counted'
    BY <1>2, <1>5, PlainOthers
  <1>6. ASSUME \A t \in Tasks : Grows(t),
               \/ \E t \in Tasks : UpdateSkillAndConsumeTask(t)
               \/ \E c \in Clients, t \in Tasks, p \in Pods : Consume(c, p, t)
               \/ \E p \in Pods : Crash(p)
        PROVE  Counted'
    BY <1>2, <1>6, UsingSteps
  <1> QED BY <1>0, <1>1, <1>3, <1>4, <1>5, <1>6 DEF Next

LEMMA CountedInit == Init => Counted
  <1> SUFFICES ASSUME Init PROVE Counted
    OBVIOUS
  <1>1. ASSUME NEW t \in Tasks PROVE Launching(t) = {}
    BY DEF Init, Launching
  <1>2. \A t \in Tasks : /\ Cardinality(Launching(t)) = 0 /\ launched[t] = 0
                          /\ task[t].attempts = 0
    BY <1>1, FS_EmptySet DEF Init
  <1>3. launched \in [Tasks -> Nat]
    BY DEF Init
  <1> QED BY SMT, <1>2, <1>3 DEF Counted, AttemptsCover

(* The pool gets a task no more often than the attempts column says, for   *)
(* any number of requests, processes and faults: a rollback takes back at  *)
(* most the attempt of the request that rolls back, which was never        *)
(* handed on (RestoreParsingToPending, TryRecoverStaleParsing).            *)
THEOREM AttemptsBoundJobs == Spec => []JobsWithinAttempts
  <1> DEFINE Inv == PoolInv /\ RowsTyped /\ Counted
  <1>1. Init => Inv
    BY PoolInvInit, RowsInit, CountedInit
  <1>2. Inv /\ [Next]_vars => Inv'
    BY PoolInvStep, RowsStep, CountedStep
  <1>3. Inv => JobsWithinAttempts
    <2> SUFFICES ASSUME Inv, NEW t \in Tasks PROVE launched[t] <= task[t].attempts
      BY DEF JobsWithinAttempts
    <2>1. PICK A \in SUBSET Clients : A = Launching(t)
      BY DEF Launching
    <2>2. Cardinality(A) \in Nat
      BY CountRequests
    <2>3. launched[t] + Cardinality(A) <= task[t].attempts /\ launched[t] \in Nat
      BY <2>1 DEF Counted, AttemptsCover
    <2>4. task[t].attempts \in Nat
      BY SMT, ParseAssumption DEF RowsTyped, ParseTaskRow
    <2> QED BY SMT, <2>2, <2>3, <2>4
  <1> QED BY <1>1, <1>2, <1>3, PTL DEF Spec

(* Making and ending uses of a task.                                       *)
UsesTyped == /\ uses \in [Tasks -> Nat] /\ stranded \subseteq Tasks
             /\ \A t \in Tasks : Claims(t) <= MaxUses

LEMMA HoldersKept ==
    ASSUME \A d \in Clients : Keeps(d)
    PROVE  \A t \in Tasks : Holders(t)' = Holders(t)
  BY DEF Holders, Keeps

(* Most steps do not touch a use, and consume no task.                     *)
LEMMA KeptUses ==
    ASSUME UsesTyped, ConsumedIsUsed, \A t \in Tasks : Holders(t)' = Holders(t),
           UNCHANGED uses, stranded' = stranded,
           \A t \in Tasks : task'[t].status = "consumed"
                              => task[t].status = "consumed"
    PROVE  UsesTyped' /\ ConsumedIsUsed'
  BY DEF UsesTyped, ConsumedIsUsed, Claims

LEMMA NotConsumed ==
    ASSUME RowsTyped, NEW t \in Tasks,
           \/ UNCHANGED task
           \/ \E skill \in BOOLEAN :
                task' = [task EXCEPT ![t].status = "pending", ![t].bound = skill]
           \/ TransitionPendingToParsing(t)
           \/ RestoreParsingToPending(t)
           \/ TryRecoverStaleParsing(t)
           \/ \E s \in {"failed", "success"} : task' = SetStatus(t, s)
           \/ task' = [task EXCEPT ![t].stale = TRUE]
    PROVE  \A o \in Tasks : task'[o].status = "consumed"
                              => task[o].status = "consumed"
  BY SMT DEF RowsTyped, ParseTaskRow, TransitionPendingToParsing, SetStatus,
         RestoreParsingToPending, TryRecoverStaleParsing

(* The steps of requests that make and end no use.                         *)
LEMMA RequestKeeps ==
    ASSUME PoolInv, NEW c \in Clients,
           \/ Submit(c) \/ Restore(c) \/ Enqueue(c) \/ Recover(c)
           \/ ensureTerminalState(c) \/ MarkIncomplete(c) \/ StatusAfterSync(c)
           \/ Exhaust(c) \/ FailTask(c) \/ Leave(c)
           \/ StoreFails(c) /\ http[c].at # "release"
    PROVE  /\ \A d \in Clients : Keeps(d)
           /\ UNCHANGED uses /\ stranded' = stranded
           /\ http[c].task \in Tasks
  <1>0. RequestsTyped
    BY DEF PoolInv
  <1>1. /\ http[c] # Idle /\ http[c].at \notin {"import", "release"}
        /\ UNCHANGED uses /\ stranded' = stranded
    BY DEF ensureTerminalState, MarkIncomplete, StatusAfterSync, Exhaust,
           FailTask, Leave, StoreFails, Restore, Recover, Submit, Enqueue, At,
           history
  <1>2. http[c].op # "import" /\ http[c].task \in Tasks
    BY <1>0, <1>1, InFlight DEF RequestsTyped
  <1>3. \A d \in Clients : Keeps(d)
    <2>1. CASE \/ ensureTerminalState(c) \/ MarkIncomplete(c)
               \/ StatusAfterSync(c) \/ Exhaust(c) \/ FailTask(c) \/ Leave(c)
               \/ StoreFails(c) /\ http[c].at # "release"
               \/ Restore(c)
               \/ Recover(c) /\ ~ TryRecoverStaleParsing(http[c].task)
               \/ Submit(c) /\ ~ Room(http[c].pod)
      BY <2>1, PlainSteps
    <2>2. CASE Enqueue(c) \/ (Submit(c) /\ Room(http[c].pod))
      <3>1. Return(c) \/ GoTo(c, "wait")
        BY <2>2 DEF Submit, Enqueue
      <3>2. CASE Return(c)
        BY <1>0, <1>2, <3>2, Returns DEF Keeps
      <3>3. CASE GoTo(c, "wait")
        BY <1>0, <1>1, <1>2, <3>3, GoesTo DEF Keeps, Labels
      <3> QED BY <3>1, <3>2, <3>3
    <2>3. CASE Recover(c) /\ TryRecoverStaleParsing(http[c].task)
      <3> DEFINE x == [http[c] EXCEPT !.last = FALSE,
                         !.at = IF http[c].last THEN "enqueue" ELSE "submit"]
      <3>1. x.op = http[c].op
        BY <1>0, <1>1, InFlight, LabelsAll
      <3>2. http' = [http EXCEPT ![c] = x]
        BY <2>3 DEF Recover, TryRecoverStaleParsing
      <3> HIDE DEF x
      <3>3. http'[c] = x /\ \A d \in Clients : d # c => http'[d] = http[d]
        BY <1>0, <3>2 DEF RequestsTyped
      <3> QED BY <1>2, <3>1, <3>3 DEF Keeps
    <2>4. CASE Recover(c)
      BY <2>1, <2>3, <2>4
    <2>5. CASE Submit(c)
      BY <2>1, <2>2, <2>5
    <2>6. CASE Enqueue(c)
      BY <2>2, <2>6
    <2> QED BY <2>1, <2>4, <2>5, <2>6
  <1> QED BY <1>1, <1>2, <1>3

LEMMA RequestUses ==
    ASSUME PoolInv, RowsTyped, UsesTyped, ConsumedIsUsed, NEW c \in Clients,
           \/ Submit(c) \/ Restore(c) \/ Enqueue(c) \/ Recover(c)
           \/ ensureTerminalState(c) \/ MarkIncomplete(c) \/ StatusAfterSync(c)
           \/ Exhaust(c) \/ FailTask(c) \/ Leave(c)
           \/ StoreFails(c) /\ http[c].at # "release"
    PROVE  UsesTyped' /\ ConsumedIsUsed'
  <1>1. /\ \A d \in Clients : Keeps(d)
        /\ UNCHANGED uses /\ stranded' = stranded
        /\ http[c].task \in Tasks
    BY RequestKeeps
  <1>4. \A o \in Tasks : task'[o].status = "consumed"
                           => task[o].status = "consumed"
    <2>1. PICK t \in Tasks : t = http[c].task
      BY <1>1
    <2>2. \/ UNCHANGED task
          \/ RestoreParsingToPending(t)
          \/ TryRecoverStaleParsing(t)
          \/ \E s \in {"failed", "success"} : task' = SetStatus(t, s)
      BY <2>1 DEF ensureTerminalState, MarkIncomplete, StatusAfterSync, Exhaust,
           FailTask, Leave, StoreFails, Restore, Recover, Submit, Enqueue,
           UpdateFailed, MarkRetryExhausted
    <2> QED BY <2>2, NotConsumed
  <1> QED BY <1>1, <1>4, HoldersKept, KeptUses

LEMMA OtherUses ==
    ASSUME PoolInv, RowsTyped, UsesTyped, ConsumedIsUsed,
           \/ \E t \in Tasks : \/ \E skill \in BOOLEAN : InitUpload(t, skill)
                               \/ GrowStale(t)
           \/ \E c \in Clients, t \in Tasks, p \in Pods : GetParseStatus(c, p, t)
           \/ \E p \in Pods, s \in Slots : run(p, s) \/ process(p, s)
                                             \/ processUnsaved(p, s)
           \/ UNCHANGED vars
    PROVE  UsesTyped' /\ ConsumedIsUsed'
  <1>1. \A o \in Tasks : task'[o].status = "consumed"
                           => task[o].status = "consumed"
    <2>1. CASE UNCHANGED task
      BY <2>1
    <2>2. ASSUME NEW t \in Tasks,
                 \/ \E skill \in BOOLEAN : InitUpload(t, skill)
                 \/ GrowStale(t)
          PROVE  \A o \in Tasks : task'[o].status = "consumed"
                                    => task[o].status = "consumed"
      BY <2>2, NotConsumed DEF InitUpload, GrowStale
    <2>3. ASSUME NEW p \in Pods, NEW s \in Slots, process(p, s)
          PROVE  \A o \in Tasks : task'[o].status = "consumed"
                                    => task[o].status = "consumed"
      <3>1. pool[p][s] \in parseJob
        BY <2>3 DEF process, PoolInv, PoolsTyped
      <3>2. PICK t \in Tasks : t = pool[p][s].task
        BY <3>1 DEF parseJob
      <3>3. \E st \in {"failed", "success"} : task' = SetStatus(t, st)
        BY <2>3, <3>2 DEF process, UpdateSuccess, UpdateFailed
      <3> QED BY <3>3, NotConsumed
    <2>4. CASE \/ \E c \in Clients, t \in Tasks, p \in Pods :
                    GetParseStatus(c, p, t)
               \/ \E p \in Pods, s \in Slots : run(p, s) \/ processUnsaved(p, s)
               \/ UNCHANGED vars
      <3>1. UNCHANGED task
        BY <2>4 DEF GetParseStatus, run, processUnsaved, vars
      <3> QED BY <2>1, <3>1
    <2> QED BY <2>2, <2>3, <2>4
  <1> QED BY <1>1, PlainOthers, HoldersKept, KeptUses

LEMMA ClaimKeeps ==
    ASSUME PoolInv, NEW c \in Clients, NEW t \in Tasks, NEW p \in Pods,
           NEW op \in {"trigger", "sync"}, Claim(c, p, t, op)
    PROVE  /\ \A d \in Clients : Keeps(d)
           /\ UNCHANGED uses /\ stranded' = stranded
  <1>1. UNCHANGED uses /\ stranded' = stranded /\ http[c] = Idle
    BY DEF Claim, history
  <1>2. http'[c].op = op /\ \A d \in Clients : d # c => http'[d] = http[d]
    BY DEF Claim, Open, PoolInv, RequestsTyped
  <1> QED BY <1>1, <1>2 DEF Keeps

LEMMA ClaimUses ==
    ASSUME PoolInv, RowsTyped, UsesTyped, ConsumedIsUsed,
           NEW c \in Clients, NEW t \in Tasks, NEW p \in Pods,
           NEW op \in {"trigger", "sync"}, Claim(c, p, t, op)
    PROVE  UsesTyped' /\ ConsumedIsUsed'
  <1>1. \A o \in Tasks : task'[o].status = "consumed"
                           => task[o].status = "consumed"
    BY NotConsumed DEF Claim
  <1> QED BY <1>1, ClaimKeeps, HoldersKept, KeptUses

(* A use is made.                                                          *)
LEMMA ConsumeUses ==
    ASSUME PoolInv, RowsTyped, UsesTyped, ConsumedIsUsed,
           NEW c \in Clients, NEW t \in Tasks, NEW p \in Pods, Consume(c, p, t)
    PROVE  UsesTyped' /\ ConsumedIsUsed'
  <1> DEFINE x == [op |-> "import", pod |-> p, task |-> t, last |-> FALSE,
                   at |-> "import"]
  <1>1. x \in Request /\ x.task = t /\ x.op = "import"
    BY DEF Request
  <1>2. /\ http' = [http EXCEPT ![c] = x] /\ http[c] = Idle
        /\ uses' = uses /\ stranded' = stranded /\ Claims(t) < MaxUses
    BY DEF Consume, Open, history
  <1> HIDE DEF x
  <1>3. http'[c] = x /\ \A d \in Clients : d # c => http'[d] = http[d]
    BY <1>2 DEF PoolInv, RequestsTyped
  <1>4. /\ c \notin Holders(t) /\ Holders(t)' = Holders(t) \cup {c}
        /\ \A o \in Tasks : o # t => Holders(o)' = Holders(o)
    BY <1>1, <1>2, <1>3, IdleIsNoRequest DEF Holders
  <1>5. \A o \in Tasks : o # t => task'[o] = task[o]
    BY DEF Consume, MarkParseTaskConsumed, SetStatus, RowsTyped
  <1>6. Claims(t)' <= MaxUses
    <2>1. PICK A \in SUBSET Clients : A = Holders(t)
      BY DEF Holders
    <2>2. PICK B \in SUBSET Clients : B = Holders(t)'
      BY DEF Holders
    <2>3. Cardinality(A) \in Nat /\ Cardinality(B) = Cardinality(A) + 1
      BY <1>4, <2>1, <2>2, CountRequests
    <2>4. uses[t] \in Nat /\ MaxUses \in Nat
      BY ParseAssumption DEF UsesTyped
    <2>5. uses[t] + Cardinality(A) < MaxUses
      BY <1>2, <2>1 DEF Claims
    <2>6. Claims(t)' = uses[t] + Cardinality(B)
      BY <1>2, <2>2 DEF Claims
    <2> QED BY SMT, <2>3, <2>4, <2>5, <2>6
  <1>7. UsesTyped'
    BY <1>2, <1>4, <1>6 DEF UsesTyped, Claims
  <1>8. ConsumedIsUsed'
    BY <1>2, <1>4, <1>5 DEF ConsumedIsUsed
  <1> QED BY <1>7, <1>8

LEMMA ReuploadUses ==
    ASSUME PoolInv, RowsTyped, UsesTyped, ConsumedIsUsed,
           NEW t \in Tasks, UpdateSkillAndConsumeTask(t)
    PROVE  UsesTyped' /\ ConsumedIsUsed'
  <1>1. /\ uses' = [uses EXCEPT ![t] = @ + 1] /\ http' = http
        /\ stranded' = stranded /\ Claims(t) < MaxUses
        /\ \A o \in Tasks : o # t => task'[o] = task[o]
    BY DEF UpdateSkillAndConsumeTask, MarkParseTaskConsumed, SetStatus, RowsTyped
  <1>2. \A o \in Tasks : Holders(o)' = Holders(o)
    BY <1>1 DEF Holders
  <1>3. /\ uses' \in [Tasks -> Nat] /\ uses'[t] = uses[t] + 1 /\ uses[t] \in Nat
        /\ \A o \in Tasks : o # t => uses'[o] = uses[o]
    BY SMT, <1>1 DEF UsesTyped
  <1>4. Claims(t)' <= MaxUses
    <2>1. PICK A \in SUBSET Clients : A = Holders(t)
      BY DEF Holders
    <2>2. Cardinality(A) \in Nat
      BY CountRequests
    <2>3. uses[t] + Cardinality(A) < MaxUses
      BY <1>1, <2>1 DEF Claims
    <2>4. Claims(t)' = uses[t] + 1 + Cardinality(A)
      BY <1>2, <1>3, <2>1 DEF Claims
    <2> QED BY SMT, <1>3, <2>2, <2>3, <2>4, ParseAssumption
  <1>5. UsesTyped'
    BY <1>1, <1>2, <1>3, <1>4 DEF UsesTyped, Claims
  <1>6. ConsumedIsUsed'
    BY SMT, <1>1, <1>2, <1>3 DEF ConsumedIsUsed
  <1> QED BY <1>5, <1>6

(* A use is committed or given back: c holds the task t no more.           *)
LEMMA EndsUse ==
    ASSUME PoolInv, RowsTyped, UsesTyped, ConsumedIsUsed,
           NEW c \in Clients, NEW t \in Tasks,
           http[c] # Idle, http[c].op = "import", http[c].task = t, Return(c),
           \/ /\ uses' = [uses EXCEPT ![t] = @ + 1] /\ task' = task
              /\ stranded' = stranded
           \/ /\ uses' = uses /\ stranded' = stranded
              /\ ReleaseConsumedParseTask(t)
           \/ /\ uses' = uses /\ task' = task
              /\ stranded' = stranded \cup {t}
    PROVE  UsesTyped' /\ ConsumedIsUsed'
  <1>1. http'[c] = Idle /\ \A d \in Clients : d # c => http'[d] = http[d]
    BY Returns DEF PoolInv
  <1>2. /\ c \in Holders(t) /\ Holders(t)' = Holders(t) \ {c}
        /\ \A o \in Tasks : o # t => Holders(o)' = Holders(o)
    BY <1>1 DEF Holders
  <1>3. /\ uses' \in [Tasks -> Nat] /\ uses[t] \in Nat
        /\ uses'[t] \in {uses[t], uses[t] + 1}
        /\ \A o \in Tasks : o # t => uses'[o] = uses[o]
    BY SMT DEF UsesTyped
  <1>4. Claims(t)' <= MaxUses
    <2>1. PICK A \in SUBSET Clients : A = Holders(t)
      BY DEF Holders
    <2>2. PICK B \in SUBSET Clients : B = Holders(t)'
      BY DEF Holders
    <2>3. Cardinality(A) \in Nat /\ Cardinality(B) = Cardinality(A) - 1
      BY <1>2, <2>1, <2>2, CountRequests
    <2>4. uses[t] + Cardinality(A) <= MaxUses
      BY <2>1 DEF Claims, UsesTyped
    <2>5. Claims(t)' = uses'[t] + Cardinality(B)
      BY <2>2 DEF Claims
    <2> QED BY SMT, <1>3, <2>3, <2>4, <2>5, ParseAssumption
  <1>5. stranded' \subseteq Tasks
    BY DEF UsesTyped
  <1>6. UsesTyped'
    BY <1>2, <1>3, <1>4, <1>5 DEF UsesTyped, Claims
  <1>7. /\ \A o \in Tasks : o # t => task'[o] = task[o]
        /\ \/ uses'[t] > 0 \/ t \in stranded' \/ task'[t].status # "consumed"
    <2>1. CASE uses' = [uses EXCEPT ![t] = @ + 1] /\ task' = task
      <3>1. uses'[t] = uses[t] + 1
        BY <2>1 DEF UsesTyped
      <3> QED BY SMT, <1>3, <2>1, <3>1
    <2>2. CASE ReleaseConsumedParseTask(t)
      <3>1. CASE task[t].status = "consumed"
        BY SMT, <2>2, <3>1 DEF ReleaseConsumedParseTask, SetStatus, RowsTyped,
                          ParseTaskRow
      <3>2. CASE task[t].status # "consumed"
        BY <2>2, <3>2 DEF ReleaseConsumedParseTask
      <3> QED BY <3>1, <3>2
    <2>3. CASE task' = task /\ stranded' = stranded \cup {t}
      BY <2>3
    <2> QED BY <2>1, <2>2, <2>3
  <1>8. stranded \subseteq stranded'
    OBVIOUS
  <1>9. ConsumedIsUsed'
    BY <1>2, <1>3, <1>7, <1>8 DEF ConsumedIsUsed
  <1> QED BY <1>6, <1>9

LEMMA ImportUses ==
    ASSUME PoolInv, RowsTyped, UsesTyped, ConsumedIsUsed, NEW c \in Clients,
           \/ importConsumedTask(c) \/ Release(c)
           \/ StoreFails(c) /\ http[c].at = "release"
    PROVE  UsesTyped' /\ ConsumedIsUsed'
  <1>0. RequestsTyped
    BY DEF PoolInv
  <1>1. http[c] # Idle /\ http[c].at \in {"import", "release"}
    BY DEF importConsumedTask, Release, StoreFails, At
  <1>2. http[c].op = "import" /\ http[c].task \in Tasks
    BY <1>0, <1>1, InFlight DEF RequestsTyped
  <1>3. CASE importConsumedTask(c) /\ GoTo(c, "release") /\ UNCHANGED uses
    <2>1. stranded' = stranded /\ task' = task
      BY <1>3 DEF importConsumedTask
    <2>2. \A d \in Clients : Keeps(d)
      BY <1>0, <1>1, <1>3, GoesTo DEF Keeps, Labels
    <2> QED BY <1>3, <2>1, <2>2, HoldersKept, KeptUses
  <1>4. CASE ~ (importConsumedTask(c) /\ GoTo(c, "release") /\ UNCHANGED uses)
    <2>1. PICK t \in Tasks : t = http[c].task
      BY <1>2
    <2>2. /\ Return(c)
          /\ \/ /\ uses' = [uses EXCEPT ![t] = @ + 1] /\ task' = task
                /\ stranded' = stranded
             \/ /\ uses' = uses /\ stranded' = stranded
                /\ ReleaseConsumedParseTask(t)
             \/ /\ uses' = uses /\ task' = task
                /\ stranded' = stranded \cup {t}
      BY <1>4, <2>1 DEF importConsumedTask, Release, StoreFails, history
    <2> QED BY <1>1, <1>2, <2>1, <2>2, EndsUse
  <1> QED BY <1>3, <1>4

LEMMA CrashUses ==
    ASSUME PoolInv, RowsTyped, UsesTyped, ConsumedIsUsed, NEW p \in Pods, Crash(p)
    PROVE  UsesTyped' /\ ConsumedIsUsed'
  <1>0. RequestsTyped
    BY DEF PoolInv
  <1>1. /\ uses' = uses /\ task' = task /\ stranded \subseteq stranded'
        /\ \A c \in Clients : http[c] # Idle /\ http[c].pod = p
             => http'[c] = Idle
        /\ \A c \in Clients : http[c] # Idle /\ http[c].pod # p
             => http'[c] = http[c]
        /\ \A c \in Clients : http[c] = Idle => http'[c] = Idle
    BY DEF Crash
  <1>2. \A c \in Clients :
          http[c] # Idle /\ http[c].op = "import" /\ http[c].pod = p
            => http[c].task \in stranded'
    BY DEF Crash
  <1>3. stranded' \subseteq Tasks
    <2>1. \A c \in Clients : http[c] # Idle => http[c].task \in Tasks
      BY <1>0, InFlight
    <2> QED BY <2>1 DEF Crash, UsesTyped
  <1>4. ASSUME NEW t \in Tasks
        PROVE  /\ Holders(t)' \subseteq Holders(t)
               /\ Holders(t)' = Holders(t) \/ t \in stranded'
    BY <1>1, <1>2 DEF Holders
  <1>5. ASSUME NEW t \in Tasks PROVE Claims(t)' <= MaxUses
    <2>1. PICK A \in SUBSET Clients : A = Holders(t)
      BY DEF Holders
    <2>2. PICK B \in SUBSET Clients : B = Holders(t)'
      BY DEF Holders
    <2>3. /\ Cardinality(A) \in Nat /\ Cardinality(B) \in Nat
          /\ Cardinality(B) <= Cardinality(A)
      BY <1>4, <2>1, <2>2, CountRequests
    <2>4. uses[t] + Cardinality(A) <= MaxUses /\ uses[t] \in Nat
      BY <2>1 DEF Claims, UsesTyped
    <2>5. Claims(t)' = uses[t] + Cardinality(B)
      BY <1>1, <2>2 DEF Claims
    <2> QED BY SMT, <2>3, <2>4, <2>5, ParseAssumption
  <1>6. UsesTyped'
    BY <1>1, <1>3, <1>5 DEF UsesTyped
  <1>7. ConsumedIsUsed'
    BY <1>1, <1>4 DEF ConsumedIsUsed
  <1> QED BY <1>6, <1>7

LEMMA UsesStep ==
    ASSUME PoolInv, RowsTyped, UsesTyped, ConsumedIsUsed, [Next]_vars
    PROVE  UsesTyped' /\ ConsumedIsUsed'
  <1>1. ASSUME NEW c \in Clients, ClientStep(c) \/ Leave(c) \/ StoreFails(c)
        PROVE  UsesTyped' /\ ConsumedIsUsed'
    BY <1>1, RequestUses, ImportUses DEF ClientStep
  <1>2. ASSUME NEW c \in Clients, NEW t \in Tasks, NEW p \in Pods,
               \/ \E op \in {"trigger", "sync"} : Claim(c, p, t, op)
               \/ Consume(c, p, t)
        PROVE  UsesTyped' /\ ConsumedIsUsed'
    BY <1>2, ClaimUses, ConsumeUses
  <1> QED BY <1>1, <1>2, OtherUses, ReuploadUses, CrashUses DEF Next

LEMMA UsesInit == Init => UsesTyped /\ ConsumedIsUsed
  <1> SUFFICES ASSUME Init PROVE UsesTyped /\ ConsumedIsUsed
    OBVIOUS
  <1>1. ASSUME NEW t \in Tasks PROVE Holders(t) = {}
    BY DEF Init, Holders
  <1>2. \A t \in Tasks : Claims(t) = 0
    <2>1. \A t \in Tasks : Cardinality(Holders(t)) = 0 /\ uses[t] = 0
      BY <1>1, FS_EmptySet DEF Init
    <2> QED BY SMT, <2>1 DEF Claims
  <1>3. uses \in [Tasks -> Nat] /\ stranded \subseteq Tasks
    BY DEF Init
  <1>4. UsesTyped
    BY SMT, <1>2, <1>3, ParseAssumption DEF UsesTyped
  <1>5. ConsumedIsUsed
    BY DEF Init, ConsumedIsUsed
  <1> QED BY <1>4, <1>5

(* A failed import makes its upload available again, for any number of     *)
(* imports, reuploads and late jobs of the same task: one that is consumed *)
(* and used by nobody was left so by a crash or by a release that itself   *)
(* failed (import.go, "Every failure below releases it").                  *)
THEOREM ConsumedIsAccountedFor == Spec => []ConsumedIsUsed
  <1> DEFINE Inv == PoolInv /\ RowsTyped /\ UsesTyped /\ ConsumedIsUsed
  <1>1. Init => Inv
    BY PoolInvInit, RowsInit, UsesInit
  <1>2. Inv /\ [Next]_vars => Inv'
    BY PoolInvStep, RowsStep, UsesStep
  <1>3. Inv => ConsumedIsUsed
    OBVIOUS
  <1> QED BY <1>1, <1>2, <1>3, PTL DEF Spec

(* Faults are used up, and a behaviour is patient throughout or never.     *)
LEMMA WorldStep ==
    ASSUME [Next]_vars
    PROVE  /\ UNCHANGED patient
           /\ \/ faults' = faults
              \/ faults > 0 /\ faults' = faults - 1
  <1> DEFINE Spent == /\ UNCHANGED patient
                      /\ \/ faults' = faults
                         \/ faults > 0 /\ faults' = faults - 1
  <1> SUFFICES Spent
    OBVIOUS
  <1>1. CASE \E t \in Tasks : \/ \E skill \in BOOLEAN : InitUpload(t, skill)
                             \/ UpdateSkillAndConsumeTask(t)
                             \/ GrowStale(t)
    BY <1>1 DEF InitUpload, UpdateSkillAndConsumeTask, GrowStale, world
  <1>2. ASSUME NEW c \in Clients, ClientStep(c) PROVE Spent
    BY <1>2 DEF ClientStep, Submit, Restore, Enqueue, ensureTerminalState,
         MarkIncomplete, StatusAfterSync, Recover, Exhaust, FailTask,
         importConsumedTask, Release, world
  <1>3. ASSUME NEW c \in Clients, Leave(c) \/ StoreFails(c) PROVE Spent
    BY <1>3 DEF Leave, StoreFails, world
  <1>4. ASSUME NEW c \in Clients, NEW t \in Tasks, NEW p \in Pods,
               \/ \E op \in {"trigger", "sync"} : Claim(c, p, t, op)
               \/ GetParseStatus(c, p, t) \/ Consume(c, p, t)
        PROVE  Spent
    BY <1>4 DEF Claim, GetParseStatus, Consume, world
  <1>5. ASSUME NEW p \in Pods,
               \/ Crash(p)
               \/ \E s \in Slots : run(p, s) \/ process(p, s)
                                      \/ processUnsaved(p, s)
        PROVE  Spent
    BY <1>5 DEF Crash, run, process, processUnsaved, world
  <1>6. CASE UNCHANGED vars
    BY <1>6 DEF vars
  <1> HIDE DEF Spent
  <1> QED BY <1>1, <1>2, <1>3, <1>4, <1>5, <1>6 DEF Next

(* The type invariant, for every value of the constants: attempts never    *)
(* exceed SKILL_PARSE_MAX_ATTEMPTS and a queue never its capacity.         *)
THEOREM TypeCorrect == Spec => []TypeOK
  <1> DEFINE World == faults \in 0 .. MaxFaults /\ patient \in BOOLEAN
             Inv == /\ PoolInv /\ RowsTyped /\ UsesTyped /\ ConsumedIsUsed
                    /\ Counted /\ World
  <1>1. Init => Inv
    <2>1. Init => World
      BY SMT, ParseAssumption DEF Init
    <2> QED BY <2>1, PoolInvInit, RowsInit, UsesInit, CountedInit
  <1>2. Inv /\ [Next]_vars => Inv'
    <2> SUFFICES ASSUME Inv, [Next]_vars PROVE Inv'
      OBVIOUS
    <2>2. World'
      BY SMT, WorldStep, ParseAssumption
    <2> QED BY <2>2, PoolInvStep, RowsStep, UsesStep, CountedStep
  <1>3. Inv => TypeOK
    <2> SUFFICES ASSUME Inv PROVE TypeOK
      OBVIOUS
    <2>1. uses \in [Tasks -> 0 .. MaxUses]
      <3>1. ASSUME NEW t \in Tasks PROVE uses[t] \in 0 .. MaxUses
        <4>1. PICK A \in SUBSET Clients : A = Holders(t)
          BY DEF Holders
        <4>2. Cardinality(A) \in Nat
          BY CountRequests
        <4>3. uses[t] + Cardinality(A) <= MaxUses /\ uses[t] \in Nat
          BY <4>1 DEF UsesTyped, Claims
        <4> QED BY SMT, <4>2, <4>3, ParseAssumption
      <3> QED BY <3>1 DEF UsesTyped
    <2> QED BY <2>1 DEF TypeOK, PoolInv, RequestsTyped, PoolsTyped, RowsTyped,
                        Counted, UsesTyped
  <1> QED BY <1>1, <1>2, <1>3, PTL DEF Spec
=============================================================================
