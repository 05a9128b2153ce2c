-------------------------- MODULE ParseOnceProofs ---------------------------
(***************************************************************************)
(* Where nobody is still at work on a task that grows stale, a parse       *)
(* result is used once (ParseTask, PatientUsedOnce).  The argument: at     *)
(* most one request or job at a time can still write the row of a task     *)
(* (WorkSound), and none once its result can be used, so a consumed task   *)
(* stays consumed until its use is given back (ClaimsSound).               *)
(***************************************************************************)
EXTENDS ParseTaskProofs

(* A leaf that names no prover is left to Zenon: most need no more than    *)
(* first-order reasoning about the facts they cite.                        *)
USE Zenon

(* The requests that will still hand on, roll back or fail t, and the      *)
(* requests that are about to read the outcome of their job.               *)
Driving == {"submit", "restore", "enqueue", "fail", "incomplete"}

Drives(c, t) == http[c] # Idle /\ http[c].task = t /\ http[c].at \in Driving
Looks(c, t)  == http[c] # Idle /\ http[c].task = t /\ http[c].at = "ensure"

(* Where work on a task can be found: at a request, in a queue, in a pool. *)
Sites == ({"request"} \X Clients \X {0}) \cup ({"queue"} \X Pods \X Nat)
           \cup ({"pool"} \X Pods \X Slots)

(* What is found there writes the row of t whatever it says by then ...    *)
Acts(x, t) ==
    \/ x[1] = "request" /\ Drives(x[2], t)
    \/ /\ x[1] = "queue" /\ x[3] \in DOMAIN queue[x[2]]
       /\ queue[x[2]][x[3]].task = t
    \/ /\ x[1] = "pool" /\ pool[x[2]][x[3]] # None
       /\ pool[x[2]][x[3]].task = t

(* ... or does so if it finds the row still parsing.                       *)
Works(x, t) == Acts(x, t) \/ (x[1] = "request" /\ Looks(x[2], t))

(* At most one of them at a time, none for a row that waits or is stale,   *)
(* and none that writes blindly once the result can be used.               *)
WorkSound(t) ==
    /\ \A x \in Sites : Acts(x, t) => task[t].status \in {"parsing", "failed"}
    /\ \A x, y \in Sites : Acts(x, t) /\ Acts(y, t) => x = y
    /\ \A x, y \in Sites :
         task[t].status = "parsing" /\ Works(x, t) /\ Works(y, t) => x = y
    /\ \A x \in Sites : Works(x, t) =>
         /\ task[t].status \notin {"absent", "pending"}
         /\ ~ (task[t].status = "parsing" /\ task[t].stale)

ClaimsSound(t) ==
    /\ Claims(t) <= 1
    /\ Claims(t) = 1 => task[t].status = "consumed"

(* A request that has read an outcome finds one when it reads again.       *)
StatusRead ==
    \A c \in Clients : http[c] # Idle /\ http[c].at = "status" =>
        task[http[c].task].status \in Terminal

(* A job belongs to the task of the request that waits for it.             *)
Awaits(c, t) ==
    \E p \in Pods :
      \/ \E i \in DOMAIN queue[p] : queue[p][i].ctx = c /\ queue[p][i].task = t
      \/ \E s \in Slots : /\ pool[p][s] # None
                          /\ pool[p][s].ctx = c /\ pool[p][s].task = t

JobsMatch == \A c \in Clients, t \in Tasks : Awaits(c, t) => http[c].task = t

PatientInv ==
    /\ StatusRead /\ JobsMatch
    /\ patient => \A t \in Tasks : WorkSound(t) /\ ClaimsSound(t)

(* The shapes a step can have for a task.  What works on it afterwards     *)
(* worked on it before, one for one ...                                    *)
Carries(t) ==
    \A x, y \in Sites : Works(x, t)' /\ Works(y, t)' =>
        \E a, b \in Sites :
          /\ Works(a, t) /\ Works(b, t)
          /\ Acts(x, t)' => Acts(a, t)
          /\ Acts(y, t)' => Acts(b, t)
          /\ a = b => x = y

(* ... while the row stays, fails or changes between its outcomes; or      *)
(* nothing works on it; or one alone does, on a fresh claim; or an outcome *)
(* is written and nothing is left that would write over it.                *)
WorkStep(t) ==
    \/ /\ Carries(t)
       /\ \/ task'[t] = task[t]
          \/ task'[t].status = "failed"
          \/ /\ task[t].status \in {"success", "consumed"}
             /\ task'[t].status \in {"success", "consumed"}
    \/ \A x \in Sites : ~ Works(x, t)'
    \/ /\ \A x, y \in Sites : Works(x, t)' /\ Works(y, t)' => x = y
       /\ task'[t].status = "parsing" /\ ~ task'[t].stale
    \/ /\ \A x \in Sites : ~ Acts(x, t)'
       /\ task'[t].status \in Terminal

LEMMA WorkKept ==
    ASSUME NEW t \in Tasks, WorkSound(t), WorkStep(t)
    PROVE  WorkSound(t)'
  <1>0. \A x \in Sites : Acts(x, t)' => Works(x, t)'
    BY DEF Works
  <1>1. CASE /\ Carries(t)
             /\ \/ task'[t] = task[t]
                \/ task'[t].status = "failed"
                \/ /\ task[t].status \in {"success", "consumed"}
                   /\ task'[t].status \in {"success", "consumed"}
    <2>1. \A x, y \in Sites : Acts(x, t)' /\ Acts(y, t)' => x = y
      BY <1>0, <1>1 DEF Carries, WorkSound
    <2>2. \A x \in Sites : Acts(x, t)' => \E a \in Sites : Acts(a, t)
      BY <1>0, <1>1 DEF Carries
    <2>3. \A x \in Sites : Works(x, t)' => \E a \in Sites : Works(a, t)
      BY <1>1 DEF Carries
    <2>4. \A x, y \in Sites : task'[t] = task[t] /\ task[t].status = "parsing"
            /\ Works(x, t)' /\ Works(y, t)' => x = y
      BY <1>1 DEF Carries, WorkSound
    <2>5. \A x \in Sites : Acts(x, t)' => task'[t].status \in {"parsing", "failed"}
      BY <1>1, <2>2 DEF WorkSound
    <2>6. \A x, y \in Sites :
            task'[t].status = "parsing" /\ Works(x, t)' /\ Works(y, t)' => x = y
      BY <1>1, <2>4
    <2>7. \A x \in Sites : Works(x, t)' =>
            /\ task'[t].status \notin {"absent", "pending"}
            /\ ~ (task'[t].status = "parsing" /\ task'[t].stale)
      BY <1>1, <2>3 DEF WorkSound
    <2> QED BY <2>1, <2>5, <2>6, <2>7 DEF WorkSound
  <1>2. CASE \A x \in Sites : ~ Works(x, t)'
    BY <1>0, <1>2 DEF WorkSound
  <1>3. CASE /\ \A x, y \in Sites : Works(x, t)' /\ Works(y, t)' => x = y
             /\ task'[t].status = "parsing" /\ ~ task'[t].stale
    BY <1>0, <1>3 DEF WorkSound
  <1>4. CASE (\A x \in Sites : ~ Acts(x, t)') /\ task'[t].status \in Terminal
    BY <1>0, <1>4 DEF WorkSound, Terminal
  <1> QED BY <1>1, <1>2, <1>3, <1>4 DEF WorkStep

(* A request does nothing new on a task.                                   *)
Quiet(d) ==
    \/ http'[d] = http[d] \/ http'[d] = Idle
    \/ http'[d].at \notin Driving \cup {"ensure"}
    \/ /\ http[d] # Idle /\ http[d].at \in Driving /\ http'[d].at \in Driving
       /\ http'[d].task = http[d].task

(* No job is new.                                                          *)
JobsStay ==
    \A p \in Pods :
      /\ \A i \in DOMAIN queue'[p] : /\ i \in DOMAIN queue[p]
                                     /\ queue'[p][i].task = queue[p][i].task
      /\ \A s \in Slots : pool'[p][s] # None =>
           pool[p][s] # None /\ pool'[p][s].task = pool[p][s].task

Fewer(t) ==
    \A x \in Sites : /\ Works(x, t)' => Works(x, t)
                     /\ Acts(x, t)' => Acts(x, t)

LEMMA FewerCarries ==
    ASSUME NEW t \in Tasks, Fewer(t) PROVE Carries(t)
  BY DEF Fewer, Carries

LEMMA SiteForms ==
    ASSUME NEW x \in Sites
    PROVE  \/ \E c \in Clients : x = <<"request", c, 0>>
           \/ \E p \in Pods, i \in Nat : x = <<"queue", p, i>>
           \/ \E p \in Pods, s \in Slots : x = <<"pool", p, s>>
  BY SMT DEF Sites

(* What is at each kind of site.                                           *)
LEMMA AtRequest ==
    ASSUME NEW c \in Clients, NEW t \in Tasks
    PROVE  /\ <<"request", c, 0>> \in Sites
           /\ Acts(<<"request", c, 0>>, t) <=> Drives(c, t)
           /\ Works(<<"request", c, 0>>, t) <=> Drives(c, t) \/ Looks(c, t)
           /\ Acts(<<"request", c, 0>>, t)' <=> Drives(c, t)'
           /\ Works(<<"request", c, 0>>, t)' <=> Drives(c, t)' \/ Looks(c, t)'
  BY DEF Sites, Acts, Works

LEMMA InQueue ==
    ASSUME NEW p \in Pods, NEW i \in Nat, NEW t \in Tasks
    PROVE  /\ <<"queue", p, i>> \in Sites
           /\ Works(<<"queue", p, i>>, t) <=> Acts(<<"queue", p, i>>, t)
           /\ Works(<<"queue", p, i>>, t)' <=> Acts(<<"queue", p, i>>, t)'
           /\ Acts(<<"queue", p, i>>, t) <=>
                i \in DOMAIN queue[p] /\ queue[p][i].task = t
           /\ Acts(<<"queue", p, i>>, t)' <=>
                i \in DOMAIN queue'[p] /\ queue'[p][i].task = t
  BY DEF Sites, Acts, Works

LEMMA InPool ==
    ASSUME NEW p \in Pods, NEW s \in Slots, NEW t \in Tasks
    PROVE  /\ <<"pool", p, s>> \in Sites
           /\ Works(<<"pool", p, s>>, t) <=> Acts(<<"pool", p, s>>, t)
           /\ Works(<<"pool", p, s>>, t)' <=> Acts(<<"pool", p, s>>, t)'
           /\ Acts(<<"pool", p, s>>, t) <=>
                pool[p][s] # None /\ pool[p][s].task = t
           /\ Acts(<<"pool", p, s>>, t)' <=>
                pool'[p][s] # None /\ pool'[p][s].task = t
  BY DEF Sites, Acts, Works

LEMMA QuietFewer ==
    ASSUME \A d \in Clients : Quiet(d), JobsStay, NEW t \in Tasks
    PROVE  Fewer(t)
  <1> SUFFICES ASSUME NEW x \in Sites
               PROVE  /\ Works(x, t)' => Works(x, t)
                      /\ Acts(x, t)' => Acts(x, t)
    BY DEF Fewer
  <1>1. ASSUME NEW c \in Clients, x = <<"request", c, 0>>
        PROVE  /\ Works(x, t)' => Works(x, t)
               /\ Acts(x, t)' => Acts(x, t)
    <2>1. /\ Drives(c, t)' => Drives(c, t)
          /\ Looks(c, t)' => Looks(c, t)
      BY DEF Quiet, Drives, Looks, Driving
    <2> QED BY <1>1, <2>1, AtRequest
  <1>2. ASSUME NEW p \in Pods, NEW i \in Nat, x = <<"queue", p, i>>
        PROVE  /\ Works(x, t)' => Works(x, t)
               /\ Acts(x, t)' => Acts(x, t)
    BY SMT, <1>2, InQueue DEF JobsStay
  <1>3. ASSUME NEW p \in Pods, NEW s \in Slots, x = <<"pool", p, s>>
        PROVE  /\ Works(x, t)' => Works(x, t)
               /\ Acts(x, t)' => Acts(x, t)
    BY SMT, <1>3, InPool DEF JobsStay
  <1> QED BY <1>1, <1>2, <1>3, SiteForms

(* One piece of work takes the place of another.                           *)
LEMMA Swapped ==
    ASSUME NEW t \in Tasks, NEW u \in Sites, NEW v \in Sites,
           Acts(u, t), ~ Works(u, t)',
           \A x \in Sites : x # v => /\ Works(x, t)' => Works(x, t)
                                     /\ Acts(x, t)' => Acts(x, t)
    PROVE  Carries(t)
  <1> SUFFICES ASSUME NEW x \in Sites, NEW y \in Sites,
                      Works(x, t)', Works(y, t)'
               PROVE  \E a, b \in Sites :
                        /\ Works(a, t) /\ Works(b, t)
                        /\ Acts(x, t)' => Acts(a, t)
                        /\ Acts(y, t)' => Acts(b, t)
                        /\ a = b => x = y
    BY DEF Carries
  <1>1. Works(u, t) /\ x # u /\ y # u
    BY DEF Works
  <1>2. CASE x = v /\ y = v
    BY <1>1, <1>2
  <1>3. CASE x = v /\ y # v
    <2>1. Works(y, t) /\ (Acts(y, t)' => Acts(y, t))
      BY <1>3
    <2> QED BY <1>1, <2>1
  <1>4. CASE x # v /\ y = v
    <2>1. Works(x, t) /\ (Acts(x, t)' => Acts(x, t))
      BY <1>4
    <2> QED BY <1>1, <2>1
  <1>5. CASE x # v /\ y # v
    BY <1>5
  <1> QED BY <1>2, <1>3, <1>4, <1>5

(* Where only c moves, nothing changes at the other sites.                 *)
LEMMA OnlyRequest ==
    ASSUME NEW c \in Clients, NEW t \in Tasks, NEW x \in Sites,
           queue' = queue, pool' = pool, x # <<"request", c, 0>>,
           \A d \in Clients : d # c => http'[d] = http[d]
    PROVE  (Works(x, t)' <=> Works(x, t)) /\ (Acts(x, t)' <=> Acts(x, t))
  <1>1. ASSUME NEW d \in Clients, x = <<"request", d, 0>>
        PROVE  (Works(x, t)' <=> Works(x, t)) /\ (Acts(x, t)' <=> Acts(x, t))
    <2>1. http'[d] = http[d]
      BY <1>1
    <2>2. (Drives(d, t)' <=> Drives(d, t)) /\ (Looks(d, t)' <=> Looks(d, t))
      BY <2>1 DEF Drives, Looks
    <2> QED BY <1>1, <2>2, AtRequest
  <1>2. ASSUME NEW p \in Pods, NEW i \in Nat, x = <<"queue", p, i>>
        PROVE  (Works(x, t)' <=> Works(x, t)) /\ (Acts(x, t)' <=> Acts(x, t))
    BY <1>2, InQueue
  <1>3. ASSUME NEW p \in Pods, NEW s \in Slots, x = <<"pool", p, s>>
        PROVE  (Works(x, t)' <=> Works(x, t)) /\ (Acts(x, t)' <=> Acts(x, t))
    BY <1>3, InPool
  <1> QED BY <1>1, <1>2, <1>3, SiteForms

(* A request alone works on t after a claim.                               *)
LEMMA OneBegins ==
    ASSUME NEW c \in Clients, NEW t \in Tasks,
           queue' = queue, pool' = pool,
           \A d \in Clients : d # c => http'[d] = http[d],
           http'[c].task = t,
           \A x \in Sites : Works(x, t) => x = <<"request", c, 0>>,
           task'[t].status = "parsing", ~ task'[t].stale,
           \A o \in Tasks : o # t => task'[o] = task[o]
    PROVE  \A o \in Tasks : WorkStep(o)
  <1>1. \A x \in Sites : Works(x, t)' => x = <<"request", c, 0>>
    BY OnlyRequest
  <1>2. WorkStep(t)
    BY <1>1 DEF WorkStep
  <1>3. ASSUME NEW o \in Tasks, o # t PROVE WorkStep(o)
    <2>1. ~ Drives(c, o)' /\ ~ Looks(c, o)'
      BY <1>3 DEF Drives, Looks
    <2>2. Fewer(o)
      BY <2>1, AtRequest, OnlyRequest DEF Fewer
    <2> QED BY <1>3, <2>2, FewerCarries DEF WorkStep
  <1> QED BY <1>2, <1>3

(* A task on which nothing new is done keeps its consumption.              *)
Plain(t) ==
    /\ WorkStep(t)
    /\ task[t].status = "consumed" => task'[t].status = "consumed"

LEMMA QuietRow ==
    ASSUME \A d \in Clients : Quiet(d), JobsStay, NEW t \in Tasks,
           \/ task'[t] = task[t]
           \/ task[t].status # "consumed" /\ task'[t].status = "failed"
    PROVE  Plain(t)
  BY QuietFewer, FewerCarries DEF Plain, WorkStep

LEMMA RowSet ==
    ASSUME RowsTyped, NEW t \in Tasks, NEW s \in Status, task' = SetStatus(t, s)
    PROVE  /\ task'[t].status = s /\ ~ task'[t].stale
           /\ \A o \in Tasks : o # t => task'[o] = task[o]
  <1> DEFINE x == [task[t] EXCEPT !.status = s, !.stale = FALSE]
  <1>1. x \in ParseTaskRow /\ x.status = s /\ ~ x.stale
    BY DEF RowsTyped, ParseTaskRow
  <1>2. task' = [task EXCEPT ![t] = x]
    BY DEF SetStatus
  <1> HIDE DEF x
  <1> QED BY <1>1, <1>2, RowWritten

(* Leaving changes who waits for a job and not what it is about.           *)
LEMMA LeaveJobs ==
    ASSUME PoolInv, NEW c \in Clients, Leave(c)
    PROVE  /\ JobsStay
           /\ \A d \in Clients, p \in Pods :
                /\ \A i \in DOMAIN queue'[p] : queue'[p][i].ctx = d =>
                     d # c /\ queue[p][i].ctx = d
                /\ \A s \in Slots : pool'[p][s] # None /\ pool'[p][s].ctx = d =>
                     d # c /\ pool[p][s].ctx = d
  <1>0. PoolsTyped
    BY DEF PoolInv
  <1>1. ASSUME NEW p \in Pods, NEW i \in DOMAIN queue'[p]
        PROVE  /\ i \in DOMAIN queue[p]
               /\ queue'[p][i].task = queue[p][i].task
               /\ \/ queue'[p][i].ctx = queue[p][i].ctx /\ queue[p][i].ctx # c
                  \/ queue'[p][i].ctx = "canceled"
    <2>0. queue[p] \in Seq(parseJob)
      BY <1>0 DEF PoolsTyped
    <2>1. queue'[p] = [k \in DOMAIN queue[p] |->
                         IF queue[p][k].ctx = c
                         THEN [queue[p][k] EXCEPT !.ctx = "canceled"]
                         ELSE queue[p][k]]
      BY DEF Leave
    <2>2. i \in DOMAIN queue[p]
      BY <2>1
    <2>3. queue[p][i] \in parseJob
      BY <2>0, <2>2, QueueElement, QueueLen
    <2>4. /\ [queue[p][i] EXCEPT !.ctx = "canceled"].task = queue[p][i].task
          /\ [queue[p][i] EXCEPT !.ctx = "canceled"].ctx = "canceled"
      BY <2>3 DEF parseJob
    <2> QED BY <2>1, <2>2, <2>4
  <1>2. ASSUME NEW p \in Pods, NEW s \in Slots, pool'[p][s] # None
        PROVE  /\ pool[p][s] # None /\ pool'[p][s].task = pool[p][s].task
               /\ \/ pool'[p][s].ctx = pool[p][s].ctx /\ pool[p][s].ctx # c
                  \/ pool'[p][s].ctx = None
    <2>1. pool'[p][s] = IF pool[p][s] # None /\ pool[p][s].ctx = c
                        THEN [pool[p][s] EXCEPT !.ctx = None] ELSE pool[p][s]
      BY DEF Leave
    <2>2. pool[p][s] # None
      BY <1>2, <2>1
    <2>3. pool[p][s] \in parseJob
      BY <1>0, <2>2 DEF PoolsTyped
    <2>4. /\ [pool[p][s] EXCEPT !.ctx = None].task = pool[p][s].task
          /\ [pool[p][s] EXCEPT !.ctx = None].ctx = None
      BY <2>3 DEF parseJob
    <2> QED BY <2>1, <2>2, <2>4
  <1> QED BY SMT, <1>1, <1>2, ParseAssumption DEF JobsStay

(* The steps after which a request does less on its task, or as much.      *)
LEMMA QuietRequests ==
    ASSUME PoolInv, StatusRead, NEW c \in Clients,
           \/ Submit(c) /\ ~ Room(http[c].pod)
           \/ Recover(c) /\ ~ TryRecoverStaleParsing(http[c].task)
           \/ ensureTerminalState(c) /\ task[http[c].task].status # "parsing"
           \/ Restore(c) \/ MarkIncomplete(c) \/ StatusAfterSync(c)
           \/ Exhaust(c) \/ FailTask(c) \/ Leave(c) \/ StoreFails(c)
           \/ importConsumedTask(c) \/ Release(c)
    PROVE  (\A d \in Clients : Quiet(d)) /\ JobsStay
  <1>0. RequestsTyped
    BY DEF PoolInv
  <1>1. http[c] # Idle
    BY DEF Submit, Recover, ensureTerminalState, Restore, MarkIncomplete,
           StatusAfterSync, Exhaust, FailTask, Leave, StoreFails,
           importConsumedTask, Release, At
  <1>2. \/ Return(c)
        \/ \E label \in Labels \ (Driving \cup {"ensure"}) : GoTo(c, label)
        \/ http[c].at \in Driving /\ \E label \in {"restore", "fail"} : GoTo(c, label)
    <2>1. CASE Submit(c) /\ ~ Room(http[c].pod)
      BY <2>1 DEF Submit, At, Driving
    <2>2. CASE Recover(c) /\ ~ TryRecoverStaleParsing(http[c].task)
      BY <2>2 DEF Recover
    <2>3. CASE ensureTerminalState(c) /\ task[http[c].task].status # "parsing"
      BY <2>3 DEF ensureTerminalState, Incomplete, Labels, Driving
    <2>4. CASE StatusAfterSync(c)
      <3>1. task[http[c].task].status # "parsing"
        BY <2>4 DEF StatusAfterSync, At, StatusRead, Terminal
      <3> QED BY <2>4, <3>1 DEF StatusAfterSync
    <2>5. CASE MarkIncomplete(c) \/ Leave(c) \/ StoreFails(c)
      BY <2>5 DEF MarkIncomplete, Leave, StoreFails, Incomplete, Labels, Driving
    <2>6. CASE \/ Restore(c) \/ Exhaust(c) \/ FailTask(c)
               \/ importConsumedTask(c) \/ Release(c)
      BY <2>6 DEF Restore, Exhaust, FailTask, importConsumedTask, Release,
                  Labels, Driving
    <2> QED BY <2>1, <2>2, <2>3, <2>4, <2>5, <2>6
  <1>3. \A d \in Clients : Quiet(d)
    <2>1. CASE Return(c)
      BY <1>0, <2>1, Returns DEF Quiet
    <2>2. ASSUME NEW label \in Labels \ (Driving \cup {"ensure"}), GoTo(c, label)
          PROVE  \A d \in Clients : Quiet(d)
      BY <1>0, <1>1, <2>2, GoesTo DEF Quiet
    <2>3. ASSUME NEW label \in {"restore", "fail"}, GoTo(c, label),
                 http[c].at \in Driving
          PROVE  \A d \in Clients : Quiet(d)
      BY <1>0, <1>1, <2>3, GoesTo DEF Quiet, Driving, Labels
    <2> QED BY <1>2, <2>1, <2>2, <2>3
  <1>4. JobsStay
    <2>1. CASE Leave(c)
      BY <2>1, LeaveJobs
    <2>2. CASE ~ Leave(c)
      <3>1. queue' = queue /\ pool' = pool
        BY <2>2 DEF Submit, Recover, ensureTerminalState, Restore,
           MarkIncomplete, StatusAfterSync, Exhaust, FailTask, StoreFails,
           importConsumedTask, Release, workers
      <3> QED BY <3>1 DEF JobsStay
    <2> QED BY <2>1, <2>2
  <1> QED BY <1>3, <1>4

(* Those of them that end no use.  A blind UpdateFailed finds a row that   *)
(* is parsing or failed, since the request that writes it still drives it. *)
LEMMA QuietPlain ==
    ASSUME PoolInv, RowsTyped, StatusRead, NEW c \in Clients,
           \A t \in Tasks : WorkSound(t),
           \/ Submit(c) /\ ~ Room(http[c].pod)
           \/ Recover(c) /\ ~ TryRecoverStaleParsing(http[c].task)
           \/ ensureTerminalState(c) /\ task[http[c].task].status # "parsing"
           \/ MarkIncomplete(c) \/ StatusAfterSync(c)
           \/ Exhaust(c) \/ FailTask(c) \/ Leave(c) \/ StoreFails(c)
           \/ importConsumedTask(c)
    PROVE  \A t \in Tasks : Plain(t)
  <1>1. (\A d \in Clients : Quiet(d)) /\ JobsStay
    BY QuietRequests
  <1>2. http[c] # Idle
    BY DEF Submit, Recover, ensureTerminalState, MarkIncomplete,
           StatusAfterSync, Exhaust, FailTask, Leave, StoreFails,
           importConsumedTask, At
  <1>3. PICK t \in Tasks : t = http[c].task
    BY <1>2, InFlight DEF PoolInv
  <1>4. "failed" \in Status
    BY DEF Status, Terminal
  <1>5. CASE task' = task
    BY <1>1, <1>5, QuietRow
  <1>6. CASE task' = SetStatus(t, "failed") /\ task[t].status # "consumed"
    BY <1>1, <1>4, <1>6, RowSet, QuietRow
  <1>7. CASE MarkIncomplete(c) \/ FailTask(c)
    <2>1. Drives(c, t) /\ task' = SetStatus(t, "failed")
      BY <1>3, <1>7 DEF MarkIncomplete, FailTask, At, Drives, Driving,
                        UpdateFailed
    <2>2. task[t].status # "consumed"
      BY <2>1, AtRequest DEF WorkSound
    <2> QED BY <1>6, <2>1, <2>2
  <1>8. CASE Exhaust(c)
    BY <1>3, <1>5, <1>6, <1>8 DEF Exhaust, MarkRetryExhausted
  <1>9. CASE \/ Submit(c)
             \/ Recover(c) /\ ~ TryRecoverStaleParsing(http[c].task)
             \/ ensureTerminalState(c) \/ StatusAfterSync(c) \/ Leave(c)
             \/ StoreFails(c) \/ importConsumedTask(c)
    <2>1. task' = task
      BY <1>9 DEF Submit, Recover, ensureTerminalState, StatusAfterSync, Leave,
                  StoreFails, importConsumedTask
    <2> QED BY <1>5, <2>1
  <1> QED BY <1>7, <1>8, <1>9

(* A rollback leaves nothing at work on the task it gives back.            *)
LEMMA RestorePlain ==
    ASSUME PoolInv, RowsTyped, StatusRead, NEW c \in Clients,
           \A t \in Tasks : WorkSound(t), Restore(c)
    PROVE  \A t \in Tasks : Plain(t)
  <1>0. /\ (\A d \in Clients : Quiet(d)) /\ JobsStay
        /\ http[c] # Idle /\ http[c].at = "restore" /\ Return(c)
    BY QuietRequests DEF Restore, At
  <1>1. PICK t \in Tasks : t = http[c].task
    BY <1>0, InFlight DEF PoolInv
  <1>2. CASE task' = task
    BY <1>0, <1>2, QuietRow
  <1>3. CASE RestoreParsingToPending(t)
    <2>1. /\ task[t].status = "parsing"
          /\ \A o \in Tasks : o # t => task'[o] = task[o]
      BY <1>3, RestoreMoves DEF RestoreParsingToPending
    <2>2. Drives(c, t)
      BY <1>0, <1>1 DEF Drives, Driving
    <2>3. \A x \in Sites : Works(x, t) => x = <<"request", c, 0>>
      BY <2>1, <2>2, AtRequest DEF WorkSound
    <2>4. ~ Drives(c, t)' /\ ~ Looks(c, t)'
      BY <1>0, Returns DEF PoolInv, Drives, Looks
    <2>5. \A x \in Sites : ~ Works(x, t)'
      BY <1>0, <2>3, <2>4, AtRequest, QuietFewer DEF Fewer
    <2>6. Plain(t)
      BY <2>1, <2>5 DEF Plain, WorkStep
    <2> QED BY <1>0, <2>1, <2>6, QuietRow
  <1> QED BY <1>1, <1>2, <1>3 DEF Restore

(* A claim, a recovery, and a request that finds its row still parsing:    *)
(* it works on the task alone.                                             *)
LEMMA ClaimPlain ==
    ASSUME PoolInv, RowsTyped, NEW c \in Clients, NEW t \in Tasks, NEW p \in Pods,
           NEW op \in {"trigger", "sync"}, WorkSound(t), Claim(c, p, t, op)
    PROVE  \A o \in Tasks : Plain(o)
  <1>1. /\ queue' = queue /\ pool' = pool /\ task[t].status = "pending"
        /\ TransitionPendingToParsing(t)
    BY DEF Claim, workers, TransitionPendingToParsing
  <1>2. http'[c].task = t /\ \A d \in Clients : d # c => http'[d] = http[d]
    BY DEF Claim, Open, PoolInv, RequestsTyped
  <1>3. /\ task'[t].status = "parsing" /\ ~ task'[t].stale
        /\ \A o \in Tasks : o # t => task'[o] = task[o]
    <2> DEFINE x == [task[t] EXCEPT !.status = "parsing", !.stale = FALSE,
                                    !.attempts = @ + 1]
    <2>1. task[t] \in ParseTaskRow /\ task[t].attempts < MaxAttempts
      BY <1>1 DEF RowsTyped
    <2>2. x.status = "parsing" /\ ~ x.stale
      BY <2>1 DEF ParseTaskRow
    <2>3. task' = [task EXCEPT ![t] = x]
      BY <1>1 DEF TransitionPendingToParsing
    <2> HIDE DEF x
    <2> QED BY <2>2, <2>3 DEF RowsTyped
  <1>4. \A x \in Sites : ~ Works(x, t)
    BY <1>1 DEF WorkSound
  <1>5. \A o \in Tasks : WorkStep(o)
    BY <1>1, <1>2, <1>3, <1>4, OneBegins
  <1> QED BY <1>1, <1>3, <1>5 DEF Plain

LEMMA RecoverPlain ==
    ASSUME PoolInv, RowsTyped, NEW c \in Clients, \A t \in Tasks : WorkSound(t),
           Recover(c), TryRecoverStaleParsing(http[c].task)
    PROVE  \A o \in Tasks : Plain(o)
  <1>0. http[c] # Idle /\ http[c] \in Request
    BY InFlight DEF Recover, At, PoolInv
  <1>1. PICK t \in Tasks : t = http[c].task
    BY <1>0, InFlight DEF PoolInv
  <1>2. /\ queue' = queue /\ pool' = pool /\ TryRecoverStaleParsing(t)
        /\ task[t].status = "parsing" /\ task[t].stale
        /\ task[t].attempts < MaxAttempts
    BY <1>1 DEF Recover, workers, TryRecoverStaleParsing
  <1>3. http'[c].task = t /\ \A d \in Clients : d # c => http'[d] = http[d]
    <2> DEFINE x == [http[c] EXCEPT !.last = FALSE,
                       !.at = IF http[c].last THEN "enqueue" ELSE "submit"]
    <2>1. x.task = http[c].task
      BY <1>0 DEF Request
    <2>2. http' = [http EXCEPT ![c] = x]
      BY DEF Recover, TryRecoverStaleParsing
    <2> HIDE DEF x
    <2> QED BY <1>1, <2>1, <2>2 DEF PoolInv, RequestsTyped
  <1>4. /\ task'[t].status = "parsing" /\ ~ task'[t].stale
        /\ \A o \in Tasks : o # t => task'[o] = task[o]
    <2> DEFINE x == [task[t] EXCEPT !.attempts = @ + 1, !.stale = FALSE]
    <2>1. task[t] \in ParseTaskRow
      BY DEF RowsTyped
    <2>2. x.status = task[t].status /\ ~ x.stale
      BY <2>1 DEF ParseTaskRow
    <2>3. task' = [task EXCEPT ![t] = x]
      BY <1>2 DEF TryRecoverStaleParsing
    <2> HIDE DEF x
    <2> QED BY <1>2, <2>2, <2>3 DEF RowsTyped
  <1>5. \A x \in Sites : ~ Works(x, t)
    BY <1>2 DEF WorkSound
  <1>6. \A o \in Tasks : WorkStep(o)
    BY <1>2, <1>3, <1>4, <1>5, OneBegins
  <1> QED BY <1>2, <1>4, <1>6 DEF Plain

LEMMA EnsurePlain ==
    ASSUME PoolInv, RowsTyped, NEW c \in Clients, \A t \in Tasks : WorkSound(t),
           ensureTerminalState(c), task[http[c].task].status = "parsing"
    PROVE  \A o \in Tasks : Plain(o)
  <1>0. /\ http[c] # Idle /\ http[c].at = "ensure" /\ RequestsTyped
        /\ queue' = queue /\ pool' = pool /\ task' = task
    BY DEF ensureTerminalState, At, PoolInv, workers
  <1>1. PICK t \in Tasks : t = http[c].task
    BY <1>0, InFlight
  <1>2. GoTo(c, "incomplete")
    BY DEF ensureTerminalState, Terminal
  <1>3. http'[c].task = t /\ \A d \in Clients : d # c => http'[d] = http[d]
    BY <1>0, <1>1, <1>2, GoesTo DEF Labels
  <1>4. Looks(c, t)
    BY <1>0, <1>1 DEF Looks
  <1>5. \A x \in Sites : Works(x, t) => x = <<"request", c, 0>>
    BY <1>1, <1>4, AtRequest DEF WorkSound
  <1>6. ~ task[t].stale
    BY <1>1, <1>4, AtRequest DEF WorkSound
  <1>7. \A o \in Tasks : WorkStep(o)
    BY <1>0, <1>1, <1>3, <1>5, <1>6, OneBegins
  <1> QED BY <1>0, <1>7 DEF Plain

(* A request hands its task to the queue.                                  *)
LEMMA PushPlain ==
    ASSUME PoolInv, RowsTyped, NEW c \in Clients,
           (Submit(c) /\ Room(http[c].pod)) \/ Enqueue(c)
    PROVE  \A o \in Tasks : Plain(o)
  <1>0. /\ RequestsTyped /\ http[c] # Idle /\ http[c].at \in Driving
        /\ pool' = pool /\ task' = task /\ Room(http[c].pod)
    BY DEF PoolInv, Submit, Enqueue, At, Driving
  <1>p. PICK p \in Pods : p = http[c].pod
    BY <1>0, InFlight
  <1>t. PICK t \in Tasks : t = http[c].task
    BY <1>0, InFlight
  <1>j. PICK j \in parseJob : j.task = t /\ Push(p, j)
    <2>1. CASE Submit(c) /\ Room(http[c].pod)
      <3>1. Push(p, [task |-> t, ctx |-> None])
        BY <1>p, <1>t, <2>1 DEF Submit
      <3> QED BY <3>1 DEF parseJob
    <2>2. CASE Enqueue(c)
      <3>1. Push(p, [task |-> t, ctx |-> c])
        BY <1>p, <1>t, <2>2 DEF Enqueue
      <3> QED BY <3>1 DEF parseJob
    <2> QED BY <2>1, <2>2
  <1>1. /\ http'[c] = Idle \/ http'[c].at = "wait"
        /\ \A d \in Clients : d # c => http'[d] = http[d]
    <2>1. Return(c) \/ GoTo(c, "wait")
      BY <1>0 DEF Submit, Enqueue
    <2> QED BY <1>0, <2>1, Returns, GoesTo DEF Labels
  <1>n. PICK n \in Nat : n = Len(queue[p]) + 1
    <2>1. queue[p] \in Seq(parseJob)
      BY DEF PoolInv, PoolsTyped
    <2> QED BY SMT, <2>1, QueueLen
  <1>2. /\ \A q \in Pods : q # p => queue'[q] = queue[q]
        /\ \A i \in DOMAIN queue'[p] :
             \/ i \in DOMAIN queue[p] /\ queue'[p][i] = queue[p][i]
             \/ i = n /\ queue'[p][i] = j
    BY SMT, <1>0, <1>p, <1>j, <1>n, Pushed
  <1> DEFINE v == <<"queue", p, n>>
             u == <<"request", c, 0>>
  <1>3. u \in Sites /\ v \in Sites
    BY AtRequest, InQueue, <1>t
  <1>4. ASSUME NEW o \in Tasks, NEW x \in Sites, x # v \/ o # t
        PROVE  /\ Works(x, o)' => Works(x, o)
               /\ Acts(x, o)' => Acts(x, o)
    <2>1. ASSUME NEW d \in Clients, x = <<"request", d, 0>>
          PROVE  /\ Works(x, o)' => Works(x, o)
                 /\ Acts(x, o)' => Acts(x, o)
      <3>1. /\ Drives(d, o)' => Drives(d, o)
            /\ Looks(d, o)' => Looks(d, o)
        BY <1>1 DEF Drives, Looks, Driving
      <3> QED BY <2>1, <3>1, AtRequest
    <2>2. ASSUME NEW q \in Pods, NEW i \in Nat, x = <<"queue", q, i>>
          PROVE  /\ Works(x, o)' => Works(x, o)
                 /\ Acts(x, o)' => Acts(x, o)
      <3>1. ASSUME i \in DOMAIN queue'[q], queue'[q][i].task = o
            PROVE  i \in DOMAIN queue[q] /\ queue[q][i].task = o
        <4>1. CASE q # p
          BY <1>2, <3>1, <4>1
        <4>2. CASE q = p /\ i = n /\ queue'[p][i] = j
          <5>1. x = v /\ o = t
            BY <1>j, <2>2, <3>1, <4>2
          <5> QED BY <1>4, <5>1
        <4>3. CASE q = p /\ i \in DOMAIN queue[p] /\ queue'[p][i] = queue[p][i]
          BY <3>1, <4>3
        <4> QED BY <1>2, <3>1, <4>1, <4>2, <4>3
      <3> QED BY <2>2, <3>1, InQueue
    <2>3. ASSUME NEW q \in Pods, NEW s \in Slots, x = <<"pool", q, s>>
          PROVE  /\ Works(x, o)' => Works(x, o)
                 /\ Acts(x, o)' => Acts(x, o)
      BY <1>0, <2>3, InPool
    <2> QED BY <2>1, <2>2, <2>3, SiteForms
  <1>5. Acts(u, t) /\ ~ Works(u, t)'
    <2>1. Drives(c, t) /\ ~ Drives(c, t)' /\ ~ Looks(c, t)'
      BY <1>0, <1>1, <1>t DEF Drives, Looks, Driving
    <2> QED BY <2>1, AtRequest
  <1> HIDE DEF u, v
  <1>6. Carries(t)
    BY <1>3, <1>4, <1>5, Swapped
  <1>7. \A o \in Tasks : o # t => Carries(o)
    BY <1>4, FewerCarries DEF Fewer
  <1> QED BY <1>0, <1>6, <1>7 DEF Plain, WorkStep

(* A goroutine takes a job, and the jobs behind it move up.                *)
LEMMA RunPlain ==
    ASSUME PoolInv, NEW p \in Pods, NEW s \in Slots, run(p, s),
           NEW t \in Tasks, WorkSound(t)
    PROVE  Plain(t)
  <1>0. /\ PoolsTyped /\ http' = http /\ task' = task
        /\ pool[p][s] = None /\ queue[p] # <<>>
        /\ pool' = [pool EXCEPT ![p][s] = Head(queue[p])]
        /\ queue' = [queue EXCEPT ![p] = Tail(@)]
    BY DEF PoolInv, run
  <1>1. queue[p] \in Seq(parseJob)
    BY <1>0 DEF PoolsTyped
  <1>2. /\ Head(queue[p]) = queue[p][1] /\ Len(queue[p]) \in Nat \ {0}
        /\ DOMAIN queue[p] = 1 .. Len(queue[p])
        /\ DOMAIN Tail(queue[p]) = 1 .. Len(queue[p]) - 1
        /\ \A i \in 1 .. Len(queue[p]) - 1 : Tail(queue[p])[i] = queue[p][i + 1]
    BY SMT, <1>0, <1>1, QueueTaken, QueueLen, EmptyQueue
  <1>3. /\ queue'[p] = Tail(queue[p]) /\ pool'[p][s] = queue[p][1]
        /\ \A q \in Pods : q # p => queue'[q] = queue[q]
        /\ \A q \in Pods, r \in Slots : <<q, r>> # <<p, s>> =>
             pool'[q][r] = pool[q][r]
    BY <1>0, <1>2 DEF PoolsTyped
  <1>4. /\ 1 \in DOMAIN queue[p]
        /\ \A i \in DOMAIN queue'[p] :
             /\ i \in Nat /\ i + 1 \in Nat /\ i + 1 # 1
             /\ i + 1 \in DOMAIN queue[p] /\ queue'[p][i] = queue[p][i + 1]
    BY SMT, <1>2, <1>3
  <1> DEFINE w == <<"pool", p, s>>
  <1>5. ASSUME NEW x \in Sites, x # w,
               \A i \in Nat : x # <<"queue", p, i>>
        PROVE  (Works(x, t)' <=> Works(x, t)) /\ (Acts(x, t)' <=> Acts(x, t))
    <2>1. ASSUME NEW d \in Clients, x = <<"request", d, 0>>
          PROVE  (Works(x, t)' <=> Works(x, t)) /\ (Acts(x, t)' <=> Acts(x, t))
      <3>1. (Drives(d, t)' <=> Drives(d, t)) /\ (Looks(d, t)' <=> Looks(d, t))
        BY <1>0 DEF Drives, Looks
      <3> QED BY <2>1, <3>1, AtRequest
    <2>2. ASSUME NEW q \in Pods, NEW i \in Nat, x = <<"queue", q, i>>
          PROVE  (Works(x, t)' <=> Works(x, t)) /\ (Acts(x, t)' <=> Acts(x, t))
      <3>1. q # p
        BY <1>5, <2>2
      <3> QED BY <1>3, <2>2, <3>1, InQueue
    <2>3. ASSUME NEW q \in Pods, NEW r \in Slots, x = <<"pool", q, r>>
          PROVE  (Works(x, t)' <=> Works(x, t)) /\ (Acts(x, t)' <=> Acts(x, t))
      <3>1. <<q, r>> # <<p, s>>
        BY <1>5, <2>3
      <3> QED BY SMT, <1>3, <2>3, <3>1, InPool
    <2> QED BY <2>1, <2>2, <2>3, SiteForms
  <1>6. \A i \in Nat : Works(<<"queue", p, i>>, t)' =>
          /\ Acts(<<"queue", p, i + 1>>, t) /\ i + 1 \in Nat
          /\ <<"queue", p, i + 1>> \in Sites /\ i + 1 # 1
    BY SMT, <1>4, InQueue
  <1>7. Works(w, t)' => Acts(<<"queue", p, 1>>, t) /\ <<"queue", p, 1>> \in Sites
    <2> SUFFICES ASSUME Works(w, t)'
                 PROVE  Acts(<<"queue", p, 1>>, t) /\ <<"queue", p, 1>> \in Sites
      OBVIOUS
    <2>1. pool'[p][s].task = t
      BY InPool
    <2>2. 1 \in Nat /\ 1 \in DOMAIN queue[p] /\ queue[p][1].task = t
      BY <1>3, <1>4, <2>1
    <2> QED BY <2>2, InQueue
  <1>8. \A i, k \in Nat : Acts(<<"queue", p, i>>, t) /\ Acts(<<"queue", p, k>>, t)
                            => i = k
    <2>1. ASSUME NEW i \in Nat, NEW k \in Nat, Acts(<<"queue", p, i>>, t),
                 Acts(<<"queue", p, k>>, t)
          PROVE  i = k
      <3>1. <<"queue", p, i>> = <<"queue", p, k>>
        BY <2>1, InQueue DEF WorkSound
      <3> QED BY <3>1
    <2> QED BY <2>1
  <1>w. w \in Sites
    BY InPool
  <1>9. CASE \E k \in Nat : Acts(<<"queue", p, k>>, t)
    <2>k. PICK k \in Nat : Acts(<<"queue", p, k>>, t)
      BY <1>9
    <2>1. k \in Nat \ {0}
      BY SMT, <1>2, <2>k, InQueue
    <2> DEFINE u == <<"queue", p, k>>
               v == IF k = 1 THEN w ELSE <<"queue", p, k - 1>>
    <2>2. u \in Sites /\ v \in Sites
      BY SMT, <1>w, <2>1, InQueue
    <2>3. ~ Works(u, t)'
      <3>1. ASSUME Works(u, t)' PROVE FALSE
        <4>1. Acts(<<"queue", p, k + 1>>, t) /\ k + 1 \in Nat
          BY <1>6, <3>1
        <4>2. k + 1 = k
          BY <1>8, <2>k, <4>1
        <4> QED BY SMT, <4>2
      <3> QED BY <3>1
    <2>4. ASSUME NEW x \in Sites, x # v
          PROVE  /\ Works(x, t)' => Works(x, t)
                 /\ Acts(x, t)' => Acts(x, t)
      <3>0. Acts(x, t)' => Works(x, t)'
        BY DEF Works
      <3>1. CASE x = w
        <4>1. k # 1
          BY <2>4, <3>1
        <4>2. ~ Works(x, t)'
          BY <1>7, <1>8, <2>k, <3>1, <4>1
        <4> QED BY <3>0, <4>2
      <3>2. ASSUME NEW i \in Nat, x = <<"queue", p, i>>
            PROVE  ~ Works(x, t)'
        <4> SUFFICES ASSUME Works(x, t)' PROVE FALSE
          OBVIOUS
        <4>1. i + 1 = k
          BY <1>6, <1>8, <2>k, <3>2
        <4>2. Works(<<"queue", p, i>>, t)'
          BY <3>2
        <4>3. i + 1 # 1
          BY <1>6, <4>2
        <4>4. k # 1 /\ i = k - 1
          BY SMT, <4>1, <4>3
        <4> QED BY <2>4, <3>2, <4>4
      <3>3. CASE x # w /\ \A i \in Nat : x # <<"queue", p, i>>
        BY <1>5, <3>3
      <3> QED BY <3>0, <3>1, <3>2, <3>3
    <2> HIDE DEF u, v
    <2>5. Acts(u, t)
      BY <2>k DEF u
    <2>6. Carries(t)
      BY <2>2, <2>3, <2>4, <2>5, Swapped
    <2> QED BY <1>0, <2>6 DEF Plain, WorkStep
  <1>10. CASE ~ \E k \in Nat : Acts(<<"queue", p, k>>, t)
    <2>1. ASSUME NEW x \in Sites
          PROVE  /\ Works(x, t)' => Works(x, t)
                 /\ Acts(x, t)' => Acts(x, t)
      <3>0. Acts(x, t)' => Works(x, t)'
        BY DEF Works
      <3>1. CASE x = w \/ \E i \in Nat : x = <<"queue", p, i>>
        BY <1>6, <1>7, <1>10, <3>0, <3>1
      <3> QED BY <1>5, <3>1
    <2> QED BY <1>0, <2>1, FewerCarries DEF Fewer, Plain, WorkStep
  <1> QED BY <1>9, <1>10

(* What the end of a job changes.                                          *)
LEMMA JobEnds ==
    ASSUME PoolInv, JobsMatch, NEW p \in Pods, NEW s \in Slots, NEW t \in Tasks,
           pool[p][s] # None, pool[p][s].task = t, JobDone(p, s)
    PROVE  /\ pool'[p][s] = None
           /\ \A q \in Pods, r \in Slots : <<q, r>> # <<p, s>> =>
                pool'[q][r] = pool[q][r]
           /\ \/ http' = http
              \/ \E c \in Clients :
                   /\ http[c] # Idle /\ http[c].at = "wait"
                   /\ http'[c] # Idle /\ http'[c].at = "ensure"
                   /\ http'[c].task = t /\ http[c].task = t
                   /\ \A d \in Clients : d # c => http'[d] = http[d]
  <1>1. /\ pool'[p][s] = None
        /\ \A q \in Pods, r \in Slots : <<q, r>> # <<p, s>> =>
             pool'[q][r] = pool[q][r]
    BY DEF PoolInv, PoolsTyped, JobDone
  <1>2. ASSUME NEW c \in Clients, pool[p][s].ctx = c, GoTo(c, "ensure")
        PROVE  /\ http[c] # Idle /\ http[c].at = "wait"
               /\ http'[c] # Idle /\ http'[c].at = "ensure"
               /\ http'[c].task = t /\ http[c].task = t
               /\ \A d \in Clients : d # c => http'[d] = http[d]
    <2>1. http[c] # Idle /\ http[c].at = "wait"
      BY SMT, <1>2 DEF PoolInv, JobsAwaited, Waits
    <2>2. http[c].task = t
      BY <1>2 DEF JobsMatch, Awaits
    <2> QED BY <1>2, <2>1, <2>2, GoesTo DEF PoolInv, Labels
  <1> QED BY <1>1, <1>2 DEF JobDone

(* ... and where work is done afterwards.                                  *)
LEMMA JobEndsSites ==
    ASSUME PoolInv, JobsMatch, NEW p \in Pods, NEW s \in Slots, NEW t \in Tasks,
           pool[p][s] # None, pool[p][s].task = t, JobDone(p, s), queue' = queue
    PROVE  /\ Acts(<<"pool", p, s>>, t) /\ ~ Works(<<"pool", p, s>>, t)'
           /\ \A o \in Tasks, x \in Sites : Acts(x, o)' => Acts(x, o)
           /\ \A o \in Tasks : o # t => Fewer(o)
           /\ \/ Fewer(t)
              \/ \E c \in Clients : \A x \in Sites : x # <<"request", c, 0>> =>
                   (Works(x, t)' => Works(x, t))
  <1>1. /\ pool'[p][s] = None
        /\ \A q \in Pods, r \in Slots : <<q, r>> # <<p, s>> =>
             pool'[q][r] = pool[q][r]
    BY SMT, JobEnds
  <1>2. Acts(<<"pool", p, s>>, t) /\ ~ Works(<<"pool", p, s>>, t)'
    BY <1>1, InPool
  <1>3. ASSUME NEW o \in Tasks, NEW x \in Sites,
               \A c \in Clients : x # <<"request", c, 0>>
        PROVE  (Works(x, o)' => Works(x, o)) /\ (Acts(x, o)' => Acts(x, o))
    <2>1. ASSUME NEW q \in Pods, NEW i \in Nat, x = <<"queue", q, i>>
          PROVE  (Works(x, o)' => Works(x, o)) /\ (Acts(x, o)' => Acts(x, o))
      BY <2>1, InQueue
    <2>2. ASSUME NEW q \in Pods, NEW r \in Slots, x = <<"pool", q, r>>
          PROVE  (Works(x, o)' => Works(x, o)) /\ (Acts(x, o)' => Acts(x, o))
      BY SMT, <1>1, <2>2, InPool
    <2> QED BY <1>3, <2>1, <2>2, SiteForms
  <1>4. CASE http' = http
    <2>1. ASSUME NEW o \in Tasks, NEW c \in Clients
          PROVE  /\ Drives(c, o)' => Drives(c, o)
                 /\ Looks(c, o)' => Looks(c, o)
      BY <1>4 DEF Drives, Looks
    <2>2. ASSUME NEW o \in Tasks, NEW x \in Sites
          PROVE  (Works(x, o)' => Works(x, o)) /\ (Acts(x, o)' => Acts(x, o))
      BY <1>3, <2>1, AtRequest
    <2> QED BY <1>2, <2>2 DEF Fewer
  <1>5. ASSUME NEW c \in Clients,
               http'[c] # Idle, http'[c].at = "ensure", http'[c].task = t,
               \A d \in Clients : d # c => http'[d] = http[d]
        PROVE  /\ \A o \in Tasks, x \in Sites : Acts(x, o)' => Acts(x, o)
               /\ \A o \in Tasks : o # t => Fewer(o)
               /\ \A x \in Sites : x # <<"request", c, 0>> =>
                    (Works(x, t)' => Works(x, t))
    <2>1. ASSUME NEW o \in Tasks, NEW d \in Clients
          PROVE  /\ Drives(d, o)' => Drives(d, o)
                 /\ o # t \/ d # c => (Looks(d, o)' => Looks(d, o))
      BY <1>5 DEF Drives, Looks, Driving
    <2>2. ASSUME NEW o \in Tasks, NEW x \in Sites
          PROVE  /\ Acts(x, o)' => Acts(x, o)
                 /\ o # t \/ x # <<"request", c, 0>> =>
                      (Works(x, o)' => Works(x, o))
      <3>1. CASE \A d \in Clients : x # <<"request", d, 0>>
        BY <1>3, <3>1
      <3>2. ASSUME NEW d \in Clients, x = <<"request", d, 0>>
            PROVE  /\ Acts(x, o)' => Acts(x, o)
                   /\ o # t \/ x # <<"request", c, 0>> =>
                        (Works(x, o)' => Works(x, o))
        BY <2>1, <3>2, AtRequest
      <3> QED BY <3>1, <3>2
    <2> QED BY <2>2 DEF Fewer
  <1>6. CASE \E c \in Clients :
               /\ http'[c] # Idle /\ http'[c].at = "ensure" /\ http'[c].task = t
               /\ \A d \in Clients : d # c => http'[d] = http[d]
    <2>1. PICK c \in Clients :
            /\ http'[c] # Idle /\ http'[c].at = "ensure" /\ http'[c].task = t
            /\ \A d \in Clients : d # c => http'[d] = http[d]
      BY <1>6
    <2>2. /\ \A o \in Tasks, x \in Sites : Acts(x, o)' => Acts(x, o)
          /\ \A o \in Tasks : o # t => Fewer(o)
          /\ \A x \in Sites : x # <<"request", c, 0>> =>
               (Works(x, t)' => Works(x, t))
      BY <1>5, <2>1
    <2> QED BY <1>2, <2>2
  <1>7. \/ http' = http
        \/ \E c \in Clients :
             /\ http'[c] # Idle /\ http'[c].at = "ensure" /\ http'[c].task = t
             /\ \A d \in Clients : d # c => http'[d] = http[d]
    BY SMT, JobEnds
  <1> QED BY <1>4, <1>6, <1>7

(* The one job that works on a task writes its outcome.                    *)
LEMMA ProcessPlain ==
    ASSUME PoolInv, RowsTyped, JobsMatch, NEW p \in Pods, NEW s \in Slots,
           \A t \in Tasks : WorkSound(t), process(p, s)
    PROVE  \A o \in Tasks : Plain(o)
  <1>0. pool[p][s] # None /\ JobDone(p, s) /\ queue' = queue
    BY DEF process
  <1>1. PICK t \in Tasks : t = pool[p][s].task
    BY <1>0 DEF PoolInv, PoolsTyped, parseJob
  <1>2. PICK st \in {"success", "failed"} : task' = SetStatus(t, st)
    BY <1>1 DEF process, UpdateSuccess, UpdateFailed
  <1>3. /\ task'[t].status = st
        /\ \A o \in Tasks : o # t => task'[o] = task[o]
    BY <1>2, RowSet DEF Status, Terminal
  <1>4. /\ Acts(<<"pool", p, s>>, t) /\ ~ Works(<<"pool", p, s>>, t)'
        /\ <<"pool", p, s>> \in Sites
        /\ \A x \in Sites : Acts(x, t)' => Acts(x, t)
        /\ \A o \in Tasks : o # t => Fewer(o)
    <2>1. pool[p][s].task = t
      BY <1>1
    <2>2. <<"pool", p, s>> \in Sites
      BY InPool
    <2>3. /\ Acts(<<"pool", p, s>>, t) /\ ~ Works(<<"pool", p, s>>, t)'
          /\ \A o \in Tasks, x \in Sites : Acts(x, o)' => Acts(x, o)
          /\ \A o \in Tasks : o # t => Fewer(o)
      BY <1>0, <2>1, JobEndsSites
    <2> QED BY <2>2, <2>3
  <1>5. \A x \in Sites : ~ Acts(x, t)'
    BY <1>4 DEF WorkSound, Works
  <1>6. task[t].status # "consumed"
    BY <1>4 DEF WorkSound
  <1>7. Plain(t)
    BY <1>3, <1>5, <1>6 DEF Plain, WorkStep, Terminal
  <1> QED BY <1>3, <1>4, <1>7, FewerCarries DEF Plain, WorkStep

(* A job that cannot write leaves its task to the request that waits.      *)
LEMMA UnsavedPlain ==
    ASSUME PoolInv, JobsMatch, NEW p \in Pods, NEW s \in Slots,
           processUnsaved(p, s)
    PROVE  \A o \in Tasks : Plain(o)
  <1>0. /\ pool[p][s] # None /\ JobDone(p, s) /\ queue' = queue
        /\ task' = task
    BY DEF processUnsaved
  <1>1. PICK t \in Tasks : t = pool[p][s].task
    BY <1>0 DEF PoolInv, PoolsTyped, parseJob
  <1>2. <<"pool", p, s>> \in Sites
    BY <1>1, InPool
  <1>3. /\ Acts(<<"pool", p, s>>, t) /\ ~ Works(<<"pool", p, s>>, t)'
        /\ \A x \in Sites : Acts(x, t)' => Acts(x, t)
        /\ \A o \in Tasks : o # t => Fewer(o)
        /\ \/ Fewer(t)
           \/ \E c \in Clients : \A x \in Sites : x # <<"request", c, 0>> =>
                (Works(x, t)' => Works(x, t))
    BY <1>0, <1>1, JobEndsSites
  <1>4. ASSUME NEW c \in Clients, \A x \in Sites : x # <<"request", c, 0>> =>
                 (Works(x, t)' => Works(x, t))
        PROVE  Carries(t)
    <2>1. <<"request", c, 0>> \in Sites
      BY <1>1, AtRequest
    <2> QED BY <1>2, <1>3, <1>4, <2>1, Swapped
  <1>5. \A o \in Tasks : Carries(o)
    BY <1>3, <1>4, FewerCarries
  <1> QED BY <1>0, <1>5 DEF Plain, WorkStep

(* An upload begins a task nobody has worked on, a poll only looks, and a  *)
(* crash ends what its process was doing.                                  *)
LEMMA OthersPlain ==
    ASSUME PoolInv, RowsTyped, \A t \in Tasks : WorkSound(t),
           \/ \E t \in Tasks, skill \in BOOLEAN : InitUpload(t, skill)
           \/ \E c \in Clients, t \in Tasks, p \in Pods : GetParseStatus(c, p, t)
           \/ \E p \in Pods : Crash(p)
           \/ UNCHANGED vars
    PROVE  \A o \in Tasks : Plain(o)
  <1>1. ASSUME NEW t \in Tasks, NEW skill \in BOOLEAN, InitUpload(t, skill)
        PROVE  \A o \in Tasks : Plain(o)
    <2>1. /\ http' = http /\ queue' = queue /\ pool' = pool
          /\ task[t].status = "absent"
          /\ \A o \in Tasks : o # t => task'[o] = task[o]
      BY <1>1 DEF InitUpload, workers, RowsTyped
    <2>2. (\A d \in Clients : Quiet(d)) /\ JobsStay
      BY <2>1 DEF Quiet, JobsStay
    <2>3. \A x \in Sites : ~ Works(x, t)'
      BY <2>1, <2>2, QuietFewer DEF Fewer, WorkSound
    <2>4. Plain(t)
      BY <2>1, <2>3 DEF Plain, WorkStep
    <2> QED BY <2>1, <2>2, <2>4, QuietRow
  <1>2. ASSUME NEW c \in Clients, NEW t \in Tasks, NEW p \in Pods,
               GetParseStatus(c, p, t)
        PROVE  \A o \in Tasks : Plain(o)
    <2>1. queue' = queue /\ pool' = pool /\ task' = task
      BY <1>2 DEF GetParseStatus, workers
    <2>2. \A d \in Clients : Quiet(d)
      <3>1. CASE UNCHANGED http
        BY <3>1 DEF Quiet
      <3>2. CASE ~ UNCHANGED http
        <4>1. \E x \in {"exhaust", "recover"}, l \in BOOLEAN :
                http' = [http EXCEPT ![c] = [op |-> "poll", pod |-> p,
                                             task |-> t, last |-> l, at |-> x]]
          BY <1>2, <3>2 DEF GetParseStatus
        <4>2. PICK x \in {"exhaust", "recover"}, l \in BOOLEAN :
                http' = [http EXCEPT ![c] = [op |-> "poll", pod |-> p,
                                             task |-> t, last |-> l, at |-> x]]
          BY <4>1
        <4>3. /\ http'[c].at = x
              /\ \A d \in Clients : d # c => http'[d] = http[d]
          BY <4>2 DEF PoolInv, RequestsTyped
        <4> QED BY <4>3 DEF Quiet, Driving
      <3> QED BY <3>1, <3>2
    <2>3. JobsStay
      BY <2>1 DEF JobsStay
    <2> QED BY <2>1, <2>2, <2>3, QuietRow
  <1>3. ASSUME NEW p \in Pods, Crash(p)
        PROVE  \A o \in Tasks : Plain(o)
    <2>1. task' = task /\ \A d \in Clients : Quiet(d)
      BY <1>3 DEF Crash, Quiet
    <2>2. JobsStay
      <3>1. /\ queue'[p] = <<>> /\ \A s \in Slots : pool'[p][s] = None
            /\ \A q \in Pods : q # p => queue'[q] = queue[q] /\ pool'[q] = pool[q]
        BY <1>3 DEF Crash, PoolInv, PoolsTyped
      <3>2. DOMAIN queue'[p] = {}
        BY <3>1, EmptyQueue
      <3> QED BY <3>1, <3>2 DEF JobsStay
    <2> QED BY <2>1, <2>2, QuietRow
  <1>4. ASSUME UNCHANGED vars PROVE \A o \in Tasks : Plain(o)
    <2>1. http' = http /\ queue' = queue /\ pool' = pool /\ task' = task
      BY <1>4 DEF vars
    <2>2. (\A d \in Clients : Quiet(d)) /\ JobsStay
      BY <2>1 DEF Quiet, JobsStay
    <2> QED BY <2>1, <2>2, QuietRow
  <1> QED BY <1>1, <1>2, <1>3, <1>4

(* Nobody works on a task that a patient behaviour lets grow stale.        *)
LEMMA StalePlain ==
    ASSUME PoolInv, RowsTyped, patient, NEW t \in Tasks, GrowStale(t)
    PROVE  \A o \in Tasks : Plain(o)
  <1>1. /\ http' = http /\ queue' = queue /\ pool' = pool /\ ~ Busy(t)
        /\ task[t].status = "parsing"
        /\ \A o \in Tasks : o # t => task'[o] = task[o]
    BY DEF GrowStale, workers, RowsTyped
  <1>2. (\A d \in Clients : Quiet(d)) /\ JobsStay
    BY <1>1 DEF Quiet, JobsStay
  <1>3. ASSUME NEW x \in Sites PROVE ~ Works(x, t)
    <2>1. ASSUME NEW c \in Clients, x = <<"request", c, 0>>
          PROVE  ~ Works(x, t)
      <3>1. ~ Drives(c, t) /\ ~ Looks(c, t)
        BY <1>1 DEF Busy, Drives, Looks
      <3> QED BY <2>1, <3>1, AtRequest
    <2>2. ASSUME NEW p \in Pods, NEW i \in Nat, x = <<"queue", p, i>>
          PROVE  ~ Works(x, t)
      <3> SUFFICES ASSUME i \in DOMAIN queue[p], queue[p][i].task = t
                   PROVE  FALSE
        BY <2>2, InQueue
      <3>1. queue[p] \in Seq(parseJob) /\ Len(queue[p]) <= QueueSize
        BY DEF PoolInv, PoolsTyped
      <3>2. i \in 1 .. QueueSize
        BY SMT, <3>1, QueueLen, ParseAssumption
      <3>3. <<p, i>> \in Jobs(t)
        BY <3>2 DEF Jobs
      <3> QED BY <1>1, <3>3 DEF Busy
    <2>3. ASSUME NEW p \in Pods, NEW s \in Slots, x = <<"pool", p, s>>
          PROVE  ~ Works(x, t)
      <3> SUFFICES ASSUME pool[p][s] # None, pool[p][s].task = t
                   PROVE  FALSE
        BY <2>3, InPool
      <3>1. <<p, s>> \in Jobs(t)
        BY DEF Jobs
      <3> QED BY <1>1, <3>1 DEF Busy
    <2> QED BY <2>1, <2>2, <2>3, SiteForms
  <1>4. \A x \in Sites : ~ Works(x, t)'
    BY <1>2, <1>3, QuietFewer DEF Fewer
  <1>5. Plain(t)
    BY <1>1, <1>4 DEF Plain, WorkStep
  <1> QED BY <1>1, <1>2, <1>5, QuietRow

(* No use more than before, and the row consumed as before.                *)
LEMMA ClaimsFewer ==
    ASSUME UsesTyped, NEW t \in Tasks, ClaimsSound(t),
           Holders(t)' \subseteq Holders(t), uses'[t] = uses[t],
           task[t].status = "consumed" => task'[t].status = "consumed"
    PROVE  ClaimsSound(t)'
  <1>1. PICK A \in SUBSET Clients : A = Holders(t)
    BY DEF Holders
  <1>2. PICK B \in SUBSET Clients : B = Holders(t)'
    BY DEF Holders
  <1>3. /\ Cardinality(A) \in Nat /\ Cardinality(B) \in Nat
        /\ Cardinality(B) <= Cardinality(A)
    BY <1>1, <1>2, CountRequests
  <1>4. uses[t] \in Nat
    BY DEF UsesTyped
  <1>5. Claims(t) = uses[t] + Cardinality(A)
    BY <1>1 DEF Claims
  <1>6. Claims(t)' = uses[t] + Cardinality(B)
    BY <1>2 DEF Claims
  <1>7. uses[t] + Cardinality(A) <= 1
    BY <1>5 DEF ClaimsSound
  <1>8. uses[t] + Cardinality(A) = 1 => task'[t].status = "consumed"
    BY <1>5 DEF ClaimsSound
  <1>9. /\ uses[t] + Cardinality(B) <= 1
        /\ uses[t] + Cardinality(B) = 1 => uses[t] + Cardinality(A) = 1
    BY SMT, <1>3, <1>4, <1>7
  <1> QED BY <1>6, <1>8, <1>9 DEF ClaimsSound

(* Only a result that nobody uses can be consumed.                         *)
LEMMA ConsumePatient ==
    ASSUME PoolInv, RowsTyped, UsesTyped, NEW t \in Tasks,
           \A o \in Tasks : WorkSound(o) /\ ClaimsSound(o),
           \/ UpdateSkillAndConsumeTask(t)
           \/ \E c \in Clients, p \in Pods : Consume(c, p, t)
    PROVE  \A o \in Tasks : WorkSound(o)' /\ ClaimsSound(o)'
  <1>1. /\ task[t].status = "success" /\ queue' = queue /\ pool' = pool
        /\ task' = SetStatus(t, "consumed")
    BY DEF UpdateSkillAndConsumeTask, Consume, MarkParseTaskConsumed, workers
  <1>2. /\ task'[t].status = "consumed"
        /\ \A o \in Tasks : o # t => task'[o] = task[o]
    BY <1>1, RowSet DEF Status, Terminal
  <1>3. PICK A \in SUBSET Clients : A = Holders(t)
    BY DEF Holders
  <1>4. uses[t] \in Nat /\ Cardinality(A) \in Nat
    BY CountRequests DEF UsesTyped
  <1>5. uses[t] = 0 /\ Cardinality(A) = 0
    <2>1. uses[t] + Cardinality(A) <= 1 /\ uses[t] + Cardinality(A) # 1
      BY <1>1, <1>3 DEF ClaimsSound, Claims
    <2> QED BY SMT, <1>4, <2>1
  <1>6. CASE UpdateSkillAndConsumeTask(t)
    <2>1. http' = http /\ uses' = [uses EXCEPT ![t] = @ + 1]
      BY <1>6 DEF UpdateSkillAndConsumeTask
    <2>2. \A d \in Clients : Quiet(d)
      BY <2>1 DEF Quiet
    <2>3. \A o \in Tasks : Holders(o)' = Holders(o)
      BY <2>1 DEF Holders
    <2>4. uses'[t] = uses[t] + 1 /\ \A o \in Tasks : o # t => uses'[o] = uses[o]
      BY <2>1 DEF UsesTyped
    <2>5. Claims(t)' = 1
      <3>1. Claims(t)' = (uses[t] + 1) + Cardinality(A)
        BY <1>3, <2>3, <2>4 DEF Claims
      <3> QED BY SMT, <1>5, <3>1
    <2>6. ClaimsSound(t)'
      BY SMT, <1>2, <2>5 DEF ClaimsSound
    <2>7. \A o \in Tasks : o # t => ClaimsSound(o)'
      BY <1>2, <2>3, <2>4, ClaimsFewer
    <2> QED BY <1>1, <1>2, <2>2, <2>6, <2>7, QuietFewer, FewerCarries, WorkKept
            DEF JobsStay, WorkStep
  <1>7. ASSUME NEW c \in Clients, NEW p \in Pods, Consume(c, p, t)
        PROVE  \A o \in Tasks : WorkSound(o)' /\ ClaimsSound(o)'
    <2> DEFINE x == [op |-> "import", pod |-> p, task |-> t, last |-> FALSE,
                     at |-> "import"]
    <2>1. /\ x \in Request /\ x.task = t /\ x.op = "import"
          /\ x.at = "import"
      BY DEF Request
    <2>2. http' = [http EXCEPT ![c] = x] /\ http[c] = Idle /\ uses' = uses
      BY <1>7 DEF Consume, Open, history
    <2> HIDE DEF x
    <2>3. http'[c] = x /\ \A d \in Clients : d # c => http'[d] = http[d]
      BY <2>2 DEF PoolInv, RequestsTyped
    <2>4. /\ c \notin Holders(t) /\ Holders(t)' = Holders(t) \cup {c}
          /\ \A o \in Tasks : o # t => Holders(o)' = Holders(o)
      BY <2>1, <2>2, <2>3, IdleIsNoRequest DEF Holders
    <2>5. \A d \in Clients : Quiet(d)
      BY <2>1, <2>3 DEF Quiet, Driving
    <2>6. PICK B \in SUBSET Clients : B = Holders(t)'
      BY DEF Holders
    <2>7. Claims(t)' = 1
      <3>1. Cardinality(B) = Cardinality(A) + 1
        BY <1>3, <2>4, <2>6, CountRequests
      <3>2. Claims(t)' = uses[t] + Cardinality(B)
        BY <2>2, <2>6 DEF Claims
      <3> QED BY SMT, <1>5, <3>1, <3>2
    <2>8. ClaimsSound(t)'
      BY SMT, <1>2, <2>7 DEF ClaimsSound
    <2>9. \A o \in Tasks : o # t => ClaimsSound(o)'
      BY <1>2, <2>2, <2>4, ClaimsFewer
    <2> QED BY <1>1, <1>2, <2>5, <2>8, <2>9, QuietFewer, FewerCarries, WorkKept
            DEF JobsStay, WorkStep
  <1> QED BY <1>6, <1>7

(* An import commits its use, or fails to give it back: no use is added.   *)
LEMMA ImportClaims ==
    ASSUME PoolInv, UsesTyped, NEW c \in Clients, NEW t \in Tasks,
           \A o \in Tasks : ClaimsSound(o),
           http[c] # Idle, http[c].op = "import", http[c].task = t, Return(c),
           uses' = uses \/ uses' = [uses EXCEPT ![t] = @ + 1],
           task' = task
    PROVE  \A o \in Tasks : ClaimsSound(o)'
  <1>1. http'[c] = Idle /\ \A d \in Clients : d # c => http'[d] = http[d]
    BY Returns DEF PoolInv
  <1>2. /\ c \in Holders(t) /\ Holders(t)' = Holders(t) \ {c}
        /\ \A o \in Tasks : o # t => Holders(o)' = Holders(o)
    BY <1>1 DEF Holders
  <1>3. /\ uses[t] \in Nat /\ uses'[t] \in {uses[t], uses[t] + 1}
        /\ \A o \in Tasks : o # t => uses'[o] = uses[o]
    BY DEF UsesTyped
  <1>4. \A o \in Tasks : o # t => ClaimsSound(o)'
    BY <1>2, <1>3, ClaimsFewer
  <1>5. ClaimsSound(t)'
    <2>1. PICK A \in SUBSET Clients : A = Holders(t)
      BY DEF Holders
    <2>2. PICK B \in SUBSET Clients : B = Holders(t)'
      BY DEF Holders
    <2>3. Cardinality(A) \in Nat /\ Cardinality(B) \in Nat
          /\ Cardinality(B) = Cardinality(A) - 1
      BY <1>2, <2>1, <2>2, CountRequests
    <2>4. Claims(t) = uses[t] + Cardinality(A) /\ uses[t] + Cardinality(A) <= 1
      BY <2>1 DEF Claims, ClaimsSound
    <2>5. Claims(t)' = uses'[t] + Cardinality(B)
      BY <2>2 DEF Claims
    <2>6. uses[t] + Cardinality(A) = 1
      BY SMT, <1>3, <2>3, <2>4
    <2>7. task'[t].status = "consumed"
      BY <2>4, <2>6 DEF ClaimsSound
    <2>8. uses'[t] + Cardinality(B) <= 1
      <3>1. CASE uses'[t] = uses[t]
        BY SMT, <1>3, <2>3, <2>6, <3>1
      <3>2. CASE uses'[t] = uses[t] + 1
        BY SMT, <1>3, <2>3, <2>6, <3>2
      <3> QED BY <1>3, <3>1, <3>2
    <2> QED BY <2>5, <2>7, <2>8 DEF ClaimsSound
  <1> QED BY <1>4, <1>5

(* A release gives the result back with the last use of it.                *)
LEMMA ReleasePatient ==
    ASSUME PoolInv, RowsTyped, UsesTyped, StatusRead, NEW c \in Clients,
           \A o \in Tasks : WorkSound(o) /\ ClaimsSound(o), Release(c)
    PROVE  \A o \in Tasks : WorkSound(o)' /\ ClaimsSound(o)'
  <1>0. /\ RequestsTyped /\ http[c] # Idle /\ http[c].at = "release"
        /\ Return(c) /\ uses' = uses
    BY DEF PoolInv, Release, At, history
  <1>1. PICK t \in Tasks : t = http[c].task
    BY <1>0, InFlight
  <1>2. http[c].op = "import"
    BY <1>0 DEF RequestsTyped
  <1>3. (\A d \in Clients : Quiet(d)) /\ JobsStay
    BY QuietRequests
  <1>4. http'[c] = Idle /\ \A d \in Clients : d # c => http'[d] = http[d]
    BY <1>0, Returns
  <1>5. /\ c \in Holders(t) /\ Holders(t)' = Holders(t) \ {c}
        /\ \A o \in Tasks : o # t => Holders(o)' = Holders(o)
    BY <1>0, <1>1, <1>2, <1>4 DEF Holders
  <1>6. PICK A \in SUBSET Clients : A = Holders(t)
    BY DEF Holders
  <1>7. PICK B \in SUBSET Clients : B = Holders(t)'
    BY DEF Holders
  <1>8. /\ Cardinality(A) \in Nat /\ Cardinality(B) \in Nat
        /\ Cardinality(B) = Cardinality(A) - 1 /\ uses[t] \in Nat
    BY <1>5, <1>6, <1>7, CountRequests DEF UsesTyped
  <1>9. Claims(t) = uses[t] + Cardinality(A) /\ uses[t] + Cardinality(A) <= 1
    BY <1>6 DEF Claims, ClaimsSound
  <1>10. uses[t] + Cardinality(A) = 1 /\ uses[t] + Cardinality(B) = 0
    BY SMT, <1>8, <1>9
  <1>11. task[t].status = "consumed"
    BY <1>9, <1>10 DEF ClaimsSound
  <1>12. task' = SetStatus(t, "success")
    BY <1>1, <1>11 DEF Release, ReleaseConsumedParseTask
  <1>13. /\ task'[t].status = "success"
         /\ \A o \in Tasks : o # t => task'[o] = task[o]
    BY <1>12, RowSet DEF Status, Terminal
  <1>14. Claims(t)' = 0
    BY <1>0, <1>7, <1>10 DEF Claims
  <1>15. ClaimsSound(t)'
    BY SMT, <1>14 DEF ClaimsSound
  <1>16. \A o \in Tasks : o # t => ClaimsSound(o)'
    BY <1>0, <1>5, <1>13, ClaimsFewer
  <1>17. \A o \in Tasks : WorkStep(o)
    BY <1>3, <1>11, <1>13, QuietFewer, FewerCarries DEF WorkStep
  <1> QED BY <1>15, <1>16, <1>17, WorkKept

(* Steps that do nothing new on a task and make and end no use.            *)
LEMMA PlainPatient ==
    ASSUME UsesTyped, \A o \in Tasks : WorkSound(o) /\ ClaimsSound(o),
           \A o \in Tasks : Plain(o), \A d \in Clients : Keeps(d), UNCHANGED uses
    PROVE  \A o \in Tasks : WorkSound(o)' /\ ClaimsSound(o)'
  <1>1. \A o \in Tasks : Holders(o)' = Holders(o)
    BY HoldersKept
  <1> QED BY <1>1, WorkKept, ClaimsFewer DEF Plain

LEMMA RequestPatient ==
    ASSUME PoolInv, RowsTyped, UsesTyped, StatusRead, NEW c \in Clients,
           \A o \in Tasks : WorkSound(o) /\ ClaimsSound(o),
           ClientStep(c) \/ Leave(c) \/ StoreFails(c)
    PROVE  \A o \in Tasks : WorkSound(o)' /\ ClaimsSound(o)'
  <1>1. CASE Release(c)
    BY <1>1, ReleasePatient
  <1>2. CASE \/ importConsumedTask(c)
             \/ StoreFails(c) /\ http[c].at = "release"
    <2>0. /\ RequestsTyped /\ http[c] # Idle /\ task' = task
          /\ http[c].at \in {"import", "release"}
      BY <1>2 DEF PoolInv, importConsumedTask, StoreFails, At
    <2>1. PICK t \in Tasks : t = http[c].task
      BY <2>0, InFlight
    <2>2. http[c].op = "import"
      BY <2>0 DEF RequestsTyped
    <2>3. \A o \in Tasks : Plain(o)
      BY <1>2, QuietPlain
    <2>4. \/ /\ Return(c)
             /\ uses' = uses \/ uses' = [uses EXCEPT ![t] = @ + 1]
          \/ GoTo(c, "release") /\ uses' = uses
      BY <1>2, <2>1 DEF importConsumedTask, StoreFails
    <2>5. CASE GoTo(c, "release") /\ uses' = uses
      <3>1. \A d \in Clients : Keeps(d)
        BY <2>0, <2>5, GoesTo DEF Keeps, Labels
      <3> QED BY <2>3, <2>5, <3>1, PlainPatient
    <2>6. CASE /\ Return(c)
               /\ uses' = uses \/ uses' = [uses EXCEPT ![t] = @ + 1]
      <3>1. \A o \in Tasks : ClaimsSound(o)'
        BY <2>0, <2>1, <2>2, <2>6, ImportClaims
      <3> QED BY <2>3, <3>1, WorkKept DEF Plain
    <2> QED BY <2>4, <2>5, <2>6
  <1>3. CASE \/ Submit(c) \/ Restore(c) \/ Enqueue(c) \/ Recover(c)
             \/ ensureTerminalState(c) \/ MarkIncomplete(c) \/ StatusAfterSync(c)
             \/ Exhaust(c) \/ FailTask(c) \/ Leave(c)
             \/ StoreFails(c) /\ http[c].at # "release"
    <2>1. (\A d \in Clients : Keeps(d)) /\ UNCHANGED uses
      BY <1>3, RequestKeeps
    <2>2. \A o \in Tasks : Plain(o)
      <3>1. CASE Submit(c)
        BY <3>1, PushPlain, QuietPlain
      <3>2. CASE Recover(c)
        BY <3>2, RecoverPlain, QuietPlain
      <3>3. CASE ensureTerminalState(c)
        BY <3>3, EnsurePlain, QuietPlain
      <3>4. CASE Restore(c) \/ Enqueue(c)
        BY <3>4, RestorePlain, PushPlain
      <3>5. CASE \/ MarkIncomplete(c) \/ StatusAfterSync(c) \/ Exhaust(c)
                 \/ FailTask(c) \/ Leave(c) \/ StoreFails(c)
        BY <3>5, QuietPlain
      <3> QED BY <1>3, <3>1, <3>2, <3>3, <3>4, <3>5
    <2> QED BY <2>1, <2>2, PlainPatient
  <1> QED BY <1>1, <1>2, <1>3 DEF ClientStep

LEMMA PatientStep ==
    ASSUME PoolInv, RowsTyped, UsesTyped, StatusRead, JobsMatch, patient,
           \A o \in Tasks : WorkSound(o) /\ ClaimsSound(o), [Next]_vars
    PROVE  \A o \in Tasks : WorkSound(o)' /\ ClaimsSound(o)'
  <1> DEFINE Goal == \A o \in Tasks : WorkSound(o)' /\ ClaimsSound(o)'
  <1> SUFFICES Goal
    OBVIOUS
  <1>1. ASSUME NEW c \in Clients, ClientStep(c) \/ Leave(c) \/ StoreFails(c)
        PROVE  Goal
    BY <1>1, RequestPatient
  <1>2. ASSUME NEW c \in Clients, NEW t \in Tasks, NEW p \in Pods,
               NEW op \in {"trigger", "sync"}, Claim(c, p, t, op)
        PROVE  Goal
    BY <1>2, ClaimKeeps, ClaimPlain, PlainPatient
  <1>3. ASSUME NEW t \in Tasks,
               \/ UpdateSkillAndConsumeTask(t)
               \/ \E c \in Clients, p \in Pods : Consume(c, p, t)
        PROVE  Goal
    BY <1>3, ConsumePatient
  <1>4. ASSUME NEW t \in Tasks, GrowStale(t) PROVE Goal
    BY <1>4, PlainOthers, StalePlain, PlainPatient
  <1>5. ASSUME NEW p \in Pods, NEW s \in Slots,
               run(p, s) \/ process(p, s) \/ processUnsaved(p, s)
        PROVE  Goal
    <2>1. (\A d \in Clients : Keeps(d)) /\ UNCHANGED uses
      BY <1>5, PlainOthers
    <2>2. \A o \in Tasks : Plain(o)
      BY <1>5, RunPlain, ProcessPlain, UnsavedPlain
    <2> QED BY <2>1, <2>2, PlainPatient
  <1>6. CASE \/ \E t \in Tasks, skill \in BOOLEAN : InitUpload(t, skill)
             \/ \E c \in Clients, t \in Tasks, p \in Pods : GetParseStatus(c, p, t)
             \/ UNCHANGED vars
    <2>1. (\A d \in Clients : Keeps(d)) /\ UNCHANGED uses
      BY <1>6, PlainOthers
    <2>2. \A o \in Tasks : Plain(o)
      BY <1>6, OthersPlain
    <2> QED BY <2>1, <2>2, PlainPatient
  <1>7. ASSUME NEW p \in Pods, Crash(p) PROVE Goal
    <2>1. \A o \in Tasks : Plain(o)
      BY <1>7, OthersPlain
    <2>2. uses' = uses /\ \A o \in Tasks : Holders(o)' \subseteq Holders(o)
      BY <1>7 DEF Crash, Holders
    <2> QED BY <2>1, <2>2, WorkKept, ClaimsFewer DEF Plain
  <1> HIDE DEF Goal
  <1> QED BY <1>1, <1>2, <1>3, <1>4, <1>5, <1>6, <1>7 DEF Next

(* A request has just read its outcome, or reads it again.                 *)
LEMMA StatusReadStep ==
    ASSUME PoolInv, RowsTyped, StatusRead, [Next]_vars
    PROVE  StatusRead'
  <1> DEFINE Read(d) == http'[d] # Idle /\ http'[d].at = "status" =>
               /\ http[d] # Idle /\ http'[d].task = http[d].task
               /\ \/ http[d].at = "status"
                  \/ task[http[d].task].status \in Terminal
  <1>0. RequestsTyped
    BY DEF PoolInv
  <1>1. ASSUME NEW c \in Clients, http[c] # Idle,
               \/ Return(c)
               \/ \E label \in Labels : /\ GoTo(c, label)
                                        /\ label = "status" =>
                                             task[http[c].task].status \in Terminal
        PROVE  \A d \in Clients : Read(d)
    <2>1. CASE Return(c)
      BY <1>0, <2>1, Returns
    <2>2. ASSUME NEW label \in Labels, GoTo(c, label),
                 label = "status" => task[http[c].task].status \in Terminal
          PROVE  \A d \in Clients : Read(d)
      BY <1>0, <1>1, <2>2, GoesTo
    <2> QED BY <1>1, <2>1, <2>2
  <1>2. ASSUME NEW c \in Clients, ClientStep(c) \/ Leave(c) \/ StoreFails(c)
        PROVE  \A d \in Clients : Read(d)
    <2>0. http[c] # Idle
      BY <1>2 DEF ClientStep, Submit, Recover, ensureTerminalState, Restore,
             MarkIncomplete, StatusAfterSync, Exhaust, FailTask, Leave,
             StoreFails, importConsumedTask, Release, Enqueue, At
    <2>1. CASE Recover(c) /\ TryRecoverStaleParsing(http[c].task)
      <3> DEFINE x == [http[c] EXCEPT !.last = FALSE,
                         !.at = IF http[c].last THEN "enqueue" ELSE "submit"]
      <3>1. x.at # "status"
        BY <1>0, <2>0, InFlight, LabelsAll
      <3>2. http' = [http EXCEPT ![c] = x]
        BY <2>1 DEF Recover, TryRecoverStaleParsing
      <3> HIDE DEF x
      <3>3. http'[c] = x /\ \A d \in Clients : d # c => http'[d] = http[d]
        BY <1>0, <3>2 DEF RequestsTyped
      <3> QED BY <3>1, <3>3
    <2>2. CASE Recover(c) /\ ~ TryRecoverStaleParsing(http[c].task)
      BY <1>1, <2>0, <2>2 DEF Recover
    <2>3. CASE \/ Submit(c) \/ Enqueue(c) \/ Restore(c) \/ StatusAfterSync(c)
               \/ Exhaust(c) \/ FailTask(c) \/ importConsumedTask(c)
               \/ Release(c)
      <3>1. Return(c) \/ \E label \in Labels \ {"status"} : GoTo(c, label)
        BY <2>3 DEF Submit, Enqueue, Restore, StatusAfterSync, Exhaust, FailTask,
                    importConsumedTask, Release, Labels
      <3> QED BY <1>1, <2>0, <3>1
    <2>4. CASE MarkIncomplete(c) \/ Leave(c) \/ StoreFails(c)
      <3>1. Return(c) \/ \E label \in Labels \ {"status"} : GoTo(c, label)
        BY <2>4 DEF MarkIncomplete, Leave, StoreFails, Incomplete, Labels
      <3> QED BY <1>1, <2>0, <3>1
    <2>5. CASE ensureTerminalState(c)
      <3>1. CASE task[http[c].task].status \in Terminal
        <4>1. GoTo(c, "status")
          BY <2>5, <3>1 DEF ensureTerminalState, Terminal
        <4> QED BY <1>1, <2>0, <3>1, <4>1 DEF Labels
      <3>2. CASE task[http[c].task].status \notin Terminal
        <4>1. Return(c) \/ \E label \in Labels \ {"status"} : GoTo(c, label)
          BY <2>5, <3>2 DEF ensureTerminalState, Incomplete, Labels
        <4> QED BY <1>1, <2>0, <4>1
      <3> QED BY <3>1, <3>2
    <2> QED BY <1>2, <2>1, <2>2, <2>3, <2>4, <2>5 DEF ClientStep
  <1>3. ASSUME NEW c \in Clients, NEW x \in Request, x.at # "status",
               http' = [http EXCEPT ![c] = x]
        PROVE  \A d \in Clients : Read(d)
    BY <1>0, <1>3 DEF RequestsTyped
  <1>4. ASSUME NEW c \in Clients, NEW t \in Tasks, NEW p \in Pods,
               \/ \E op \in {"trigger", "sync"} : Claim(c, p, t, op)
               \/ GetParseStatus(c, p, t) \/ Consume(c, p, t)
        PROVE  \A d \in Clients : Read(d)
    <2>1. UNCHANGED http \/ \E x \in Request : /\ x.at # "status"
                                               /\ http' = [http EXCEPT ![c] = x]
      <3>1. CASE \E op \in {"trigger", "sync"} : Claim(c, p, t, op)
        <4>1. PICK op \in {"trigger", "sync"} : Claim(c, p, t, op)
          BY <3>1
        <4> DEFINE x == [op |-> op, pod |-> p, task |-> t, last |-> FALSE,
                         at |-> IF op = "trigger" THEN "submit" ELSE "enqueue"]
        <4>2. x \in Request /\ x.at # "status"
          BY DEF Request
        <4>3. http' = [http EXCEPT ![c] = x]
          BY <4>1 DEF Claim, Open
        <4> HIDE DEF x
        <4> QED BY <4>2, <4>3
      <3>2. CASE GetParseStatus(c, p, t)
        <4> DEFINE x == [op |-> "poll", pod |-> p, task |-> t,
                         last |-> task[t].attempts + 1 = MaxAttempts,
                         at |-> IF task[t].attempts >= MaxAttempts
                                THEN "exhaust" ELSE "recover"]
        <4>1. x \in Request /\ x.at # "status"
          BY DEF Request
        <4>2. UNCHANGED http \/ http' = [http EXCEPT ![c] = x]
          BY <3>2 DEF GetParseStatus
        <4> HIDE DEF x
        <4> QED BY <4>1, <4>2
      <3>3. CASE Consume(c, p, t)
        <4> DEFINE x == [op |-> "import", pod |-> p, task |-> t, last |-> FALSE,
                         at |-> "import"]
        <4>1. x \in Request /\ x.at # "status"
          BY DEF Request
        <4>2. http' = [http EXCEPT ![c] = x]
          BY <3>3 DEF Consume, Open
        <4> HIDE DEF x
        <4> QED BY <4>1, <4>2
      <3> QED BY <1>4, <3>1, <3>2, <3>3
    <2> QED BY <1>3, <2>1
  <1>5. ASSUME NEW p \in Pods, NEW s \in Slots,
               run(p, s) \/ process(p, s) \/ processUnsaved(p, s)
        PROVE  \A d \in Clients : Read(d)
    <2>1. CASE UNCHANGED http
      BY <2>1
    <2>2. CASE ~ UNCHANGED http
      <3>1. /\ pool[p][s].ctx \in Clients /\ GoTo(pool[p][s].ctx, "ensure")
            /\ pool[p][s] # None
        BY <1>5, <2>2 DEF run, process, processUnsaved, JobDone
      <3>2. PICK c \in Clients : c = pool[p][s].ctx
        BY <3>1
      <3>0. pool[p][s] # None /\ pool[p][s].ctx = c
        BY <3>1, <3>2
      <3>3. http[c] # Idle
        BY SMT, <3>0 DEF PoolInv, JobsAwaited, Waits
      <3> QED BY <1>1, <3>1, <3>2, <3>3 DEF Labels
    <2> QED BY <2>1, <2>2
  <1>6. ASSUME NEW p \in Pods, Crash(p)
        PROVE  \A d \in Clients : Read(d)
    BY <1>6 DEF Crash
  <1>7. ASSUME \/ UNCHANGED vars
               \/ \E t \in Tasks : \/ \E skill \in BOOLEAN : InitUpload(t, skill)
                                   \/ UpdateSkillAndConsumeTask(t)
                                   \/ GrowStale(t)
        PROVE  \A d \in Clients : Read(d)
    <2>1. http' = http
      BY <1>7 DEF vars, InitUpload, UpdateSkillAndConsumeTask, GrowStale
    <2> QED BY <2>1
  <1> DEFINE Reads == \A d \in Clients : Read(d)
  <1>8. Reads
    <2> HIDE DEF Read
    <2> QED BY <1>2, <1>4, <1>5, <1>6, <1>7 DEF Next
  <1>9. ASSUME NEW t \in Tasks, task[t].status \in Terminal
        PROVE  task'[t].status \in Terminal
    <2>1. RowMove(t)
      BY RowsStep
    <2> QED BY <1>9, <2>1 DEF RowMove, Terminal
  <1> QED BY <1>0, <1>8, <1>9, InFlight DEF StatusRead

(* Jobs keep the tasks of the requests that wait for them.                 *)
LEMMA MatchKept ==
    ASSUME PoolInv, JobsMatch,
           \A c \in Clients, t \in Tasks : Awaits(c, t)' =>
             Awaits(c, t) /\ http'[c].task = http[c].task
    PROVE  JobsMatch'
  BY DEF JobsMatch

LEMMA AwaitedWaits ==
    ASSUME PoolInv, NEW c \in Clients, NEW t \in Tasks, Awaits(c, t)
    PROVE  http[c] # Idle /\ http[c].at = "wait"
  BY SMT DEF PoolInv, JobsAwaited, Awaits, Waits

LEMMA MatchOutside ==
    ASSUME PoolInv, JobsMatch, queue' = queue, pool' = pool,
           \A d \in Clients : http[d] # Idle /\ http[d].at = "wait"
                                => http'[d] = http[d]
    PROVE  JobsMatch'
  <1>1. ASSUME NEW c \in Clients, NEW t \in Tasks, Awaits(c, t)'
        PROVE  Awaits(c, t) /\ http'[c].task = http[c].task
    <2>1. Awaits(c, t)
      BY <1>1 DEF Awaits
    <2> QED BY <2>1, AwaitedWaits
  <1> QED BY <1>1, MatchKept

LEMMA MatchRequests ==
    ASSUME PoolInv, JobsMatch, NEW c \in Clients,
           ClientStep(c) \/ Leave(c) \/ StoreFails(c)
    PROVE  JobsMatch'
  <1>0. RequestsTyped /\ PoolsTyped
    BY DEF PoolInv
  <1>1. http[c] # Idle
    BY DEF ClientStep, Submit, Recover, ensureTerminalState, Restore,
           MarkIncomplete, StatusAfterSync, Exhaust, FailTask, Leave,
           StoreFails, importConsumedTask, Release, Enqueue, At
  <1>2. \A d \in Clients : d # c => http'[d] = http[d]
    BY <1>0 DEF ClientStep, Submit, Recover, ensureTerminalState, Restore,
           MarkIncomplete, StatusAfterSync, Exhaust, FailTask, Leave,
           StoreFails, importConsumedTask, Release, Enqueue, Incomplete,
           GoTo, Return, RequestsTyped
  <1>3. CASE \/ Restore(c) \/ Recover(c) \/ ensureTerminalState(c)
             \/ MarkIncomplete(c) \/ StatusAfterSync(c) \/ Exhaust(c)
             \/ FailTask(c) \/ importConsumedTask(c) \/ Release(c)
             \/ StoreFails(c)
             \/ Submit(c) /\ ~ Room(http[c].pod)
    <2>1. queue' = queue /\ pool' = pool /\ http[c].at # "wait"
      BY <1>3 DEF Submit, Recover, ensureTerminalState, Restore,
           MarkIncomplete, StatusAfterSync, Exhaust, FailTask, StoreFails,
           importConsumedTask, Release, workers, At
    <2> QED BY <1>2, <2>1, MatchOutside
  <1>4. CASE Leave(c)
    <2>1. ASSUME NEW d \in Clients, NEW t \in Tasks, Awaits(d, t)'
          PROVE  Awaits(d, t) /\ http'[d].task = http[d].task
      <3>1. Awaits(d, t) /\ d # c
        BY SMT, <1>4, <2>1, LeaveJobs DEF Awaits, JobsStay
      <3> QED BY <1>2, <3>1
    <2> QED BY <2>1, MatchKept
  <1>5. CASE (Submit(c) /\ Room(http[c].pod)) \/ Enqueue(c)
    <2>p. PICK p \in Pods : p = http[c].pod
      BY <1>0, <1>1, InFlight
    <2>t. PICK t \in Tasks : t = http[c].task
      BY <1>0, <1>1, InFlight
    <2>0. pool' = pool /\ Room(p) /\ http[c].at # "wait"
      BY <1>5, <2>p DEF Submit, Enqueue, At
    <2>j. PICK j \in parseJob : /\ Push(p, j) /\ j.task = t
                                /\ \/ j.ctx = None
                                   \/ j.ctx = c /\ GoTo(c, "wait")
      <3>1. CASE Submit(c) /\ Room(http[c].pod)
        <4>1. Push(p, [task |-> t, ctx |-> None])
          BY <2>p, <2>t, <3>1 DEF Submit
        <4> QED BY SMT, <4>1 DEF parseJob
      <3>2. CASE Enqueue(c)
        <4>1. Push(p, [task |-> t, ctx |-> c]) /\ GoTo(c, "wait")
          BY <2>p, <2>t, <3>2 DEF Enqueue
        <4> QED BY SMT, <4>1 DEF parseJob
      <3> QED BY <1>5, <3>1, <3>2
    <2>1. /\ \A q \in Pods : q # p => queue'[q] = queue[q]
          /\ \A i \in DOMAIN queue'[p] :
               \/ i \in DOMAIN queue[p] /\ queue'[p][i] = queue[p][i]
               \/ queue'[p][i] = j
      BY <2>0, <2>j, Pushed
    <2>2. ASSUME NEW d \in Clients, NEW o \in Tasks, Awaits(d, o)'
          PROVE  Awaits(d, o) \/ (j.ctx = d /\ j.task = o)
      BY <2>0, <2>1, <2>2 DEF Awaits
    <2>3. ASSUME NEW d \in Clients, NEW o \in Tasks, Awaits(d, o)
          PROVE  http'[d].task = o
      <3>1. http[d].at = "wait" /\ http[d].task = o
        BY <2>3, AwaitedWaits DEF JobsMatch
      <3> QED BY <1>2, <2>0, <3>1
    <2>4. ASSUME NEW d \in Clients, NEW o \in Tasks, j.ctx = d, j.task = o
          PROVE  http'[d].task = o
      <3>1. d = c /\ GoTo(c, "wait") /\ o = t
        BY <2>j, <2>4, ParseAssumption
      <3> QED BY <1>0, <1>1, <2>t, <3>1, GoesTo DEF Labels
    <2> QED BY <2>2, <2>3, <2>4 DEF JobsMatch
  <1> QED BY <1>3, <1>4, <1>5 DEF ClientStep

LEMMA MatchStep ==
    ASSUME PoolInv, JobsMatch, [Next]_vars
    PROVE  JobsMatch'
  <1>0. RequestsTyped /\ PoolsTyped
    BY DEF PoolInv
  <1>1. ASSUME NEW c \in Clients, ClientStep(c) \/ Leave(c) \/ StoreFails(c)
        PROVE  JobsMatch'
    BY <1>1, MatchRequests
  <1>2. ASSUME NEW c \in Clients, NEW t \in Tasks, NEW p \in Pods,
               \/ \E op \in {"trigger", "sync"} : Claim(c, p, t, op)
               \/ GetParseStatus(c, p, t) \/ Consume(c, p, t)
        PROVE  JobsMatch'
    <2>1. queue' = queue /\ pool' = pool /\ http[c] = Idle
      BY <1>2 DEF Claim, GetParseStatus, Consume, workers
    <2>2. \A d \in Clients : d # c => http'[d] = http[d]
      BY <1>0, <1>2 DEF Claim, GetParseStatus, Consume, Open, RequestsTyped
    <2> QED BY <2>1, <2>2, MatchOutside
  <1>3. ASSUME NEW p \in Pods, NEW s \in Slots, run(p, s)
        PROVE  JobsMatch'
    <2>0. /\ http' = http /\ pool[p][s] = None /\ queue[p] # <<>>
          /\ pool' = [pool EXCEPT ![p][s] = Head(queue[p])]
          /\ queue' = [queue EXCEPT ![p] = Tail(@)]
      BY <1>3 DEF run
    <2>1. queue[p] \in Seq(parseJob)
      BY <1>0 DEF PoolsTyped
    <2>2. /\ Head(queue[p]) = queue[p][1] /\ Len(queue[p]) \in Nat \ {0}
          /\ DOMAIN queue[p] = 1 .. Len(queue[p])
          /\ DOMAIN Tail(queue[p]) = 1 .. Len(queue[p]) - 1
          /\ \A i \in 1 .. Len(queue[p]) - 1 : Tail(queue[p])[i] = queue[p][i + 1]
      BY SMT, <2>0, <2>1, QueueTaken, QueueLen, EmptyQueue
    <2>3. /\ queue'[p] = Tail(queue[p]) /\ pool'[p][s] = queue[p][1]
          /\ \A q \in Pods : q # p => queue'[q] = queue[q]
          /\ \A q \in Pods, r \in Slots : <<q, r>> # <<p, s>> =>
               pool'[q][r] = pool[q][r]
      BY <1>0, <2>0, <2>2 DEF PoolsTyped
    <2>4. /\ 1 \in DOMAIN queue[p]
          /\ \A i \in DOMAIN queue'[p] :
               i + 1 \in DOMAIN queue[p] /\ queue'[p][i] = queue[p][i + 1]
      BY SMT, <2>2, <2>3
    <2>5. ASSUME NEW c \in Clients, NEW t \in Tasks, Awaits(c, t)'
          PROVE  Awaits(c, t)
      <3>1. PICK q \in Pods :
              \/ \E i \in DOMAIN queue'[q] :
                   queue'[q][i].ctx = c /\ queue'[q][i].task = t
              \/ \E r \in Slots : /\ pool'[q][r] # None
                                  /\ pool'[q][r].ctx = c /\ pool'[q][r].task = t
        BY <2>5 DEF Awaits
      <3>2. ASSUME NEW i \in DOMAIN queue'[q],
                   queue'[q][i].ctx = c, queue'[q][i].task = t
            PROVE  Awaits(c, t)
        <4>1. CASE q = p
          <5>1. /\ i + 1 \in DOMAIN queue[p]
                /\ queue[p][i + 1].ctx = c /\ queue[p][i + 1].task = t
            BY <2>4, <3>2, <4>1
          <5> QED BY <5>1 DEF Awaits
        <4>2. CASE q # p
          BY <2>3, <3>2, <4>2 DEF Awaits
        <4> QED BY <4>1, <4>2
      <3>3. ASSUME NEW r \in Slots, pool'[q][r] # None,
                   pool'[q][r].ctx = c, pool'[q][r].task = t
            PROVE  Awaits(c, t)
        <4>1. CASE q = p /\ r = s
          <5>1. queue[p][1].ctx = c /\ queue[p][1].task = t
            BY <2>3, <3>3, <4>1
          <5> QED BY <2>4, <5>1 DEF Awaits
        <4>2. CASE ~ (q = p /\ r = s)
          <5>1. pool'[q][r] = pool[q][r]
            BY <2>3, <4>2
          <5> QED BY <3>3, <5>1 DEF Awaits
        <4> QED BY <4>1, <4>2
      <3> QED BY <3>1, <3>2, <3>3
    <2> QED BY <2>0, <2>5, MatchKept
  <1>4. ASSUME NEW p \in Pods, NEW s \in Slots,
               process(p, s) \/ processUnsaved(p, s)
        PROVE  JobsMatch'
    <2>0. pool[p][s] # None /\ JobDone(p, s) /\ queue' = queue
      BY <1>4 DEF process, processUnsaved
    <2>t. PICK t \in Tasks : t = pool[p][s].task
      BY <1>0, <2>0 DEF PoolsTyped, parseJob
    <2>1. /\ pool'[p][s] = None
          /\ \A q \in Pods, r \in Slots : <<q, r>> # <<p, s>> =>
               pool'[q][r] = pool[q][r]
          /\ \A d \in Clients : http'[d].task = http[d].task
      BY SMT, <2>0, <2>t, JobEnds
    <2>2. ASSUME NEW c \in Clients, NEW o \in Tasks, Awaits(c, o)'
          PROVE  Awaits(c, o)
      <3>1. \A q \in Pods, r \in Slots :
              pool'[q][r] = pool[q][r] \/ pool'[q][r] = None
        BY <2>1
      <3> QED BY SMT, <2>0, <2>2, <3>1 DEF Awaits
    <2> QED BY <2>1, <2>2, MatchKept
  <1>5. ASSUME NEW p \in Pods, Crash(p) PROVE JobsMatch'
    <2>1. /\ queue'[p] = <<>> /\ \A s \in Slots : pool'[p][s] = None
          /\ \A q \in Pods : q # p => queue'[q] = queue[q] /\ pool'[q] = pool[q]
          /\ \A d \in Clients : http[d] # Idle /\ http[d].pod # p
                                  => http'[d] = http[d]
      BY <1>0, <1>5 DEF Crash, PoolsTyped
    <2>2. DOMAIN queue'[p] = {}
      BY <2>1, EmptyQueue
    <2>3. ASSUME NEW c \in Clients, NEW t \in Tasks, Awaits(c, t)'
          PROVE  Awaits(c, t) /\ http'[c].task = http[c].task
      <3>1. PICK q \in Pods :
              \/ \E i \in DOMAIN queue'[q] :
                   queue'[q][i].ctx = c /\ queue'[q][i].task = t
              \/ \E s \in Slots : /\ pool'[q][s] # None
                                  /\ pool'[q][s].ctx = c /\ pool'[q][s].task = t
        BY <2>3 DEF Awaits
      <3>2. q # p
        BY <2>1, <2>2, <3>1
      <3>0. \/ \E i \in DOMAIN queue[q] :
                 queue[q][i].ctx = c /\ queue[q][i].task = t
            \/ \E s \in Slots : /\ pool[q][s] # None
                                /\ pool[q][s].ctx = c /\ pool[q][s].task = t
        BY <2>1, <3>1, <3>2
      <3>4. Awaits(c, t)
        BY <3>0 DEF Awaits
      <3>3. Awaits(c, t) /\ Waits(c, q)
        BY <3>0, <3>4 DEF PoolInv, JobsAwaited
      <3> QED BY <2>1, <3>2, <3>3 DEF Waits
    <2> QED BY <2>3, MatchKept
  <1>6. CASE \/ UNCHANGED vars
             \/ \E t \in Tasks : \/ \E skill \in BOOLEAN : InitUpload(t, skill)
                                 \/ UpdateSkillAndConsumeTask(t)
                                 \/ GrowStale(t)
    <2>1. queue' = queue /\ pool' = pool /\ http' = http
      BY <1>6 DEF vars, InitUpload, UpdateSkillAndConsumeTask, GrowStale, workers
    <2> QED BY <2>1, MatchOutside
  <1> QED BY <1>1, <1>2, <1>3, <1>4, <1>5, <1>6 DEF Next

LEMMA PatientInit == Init => PatientInv
  <1> SUFFICES ASSUME Init PROVE PatientInv
    OBVIOUS
  <1>1. /\ \A c \in Clients : http[c] = Idle
        /\ \A p \in Pods : queue[p] = <<>> /\ \A s \in Slots : pool[p][s] = None
    BY DEF Init
  <1>2. \A p \in Pods : DOMAIN queue[p] = {}
    BY <1>1, EmptyQueue
  <1>3. StatusRead /\ JobsMatch
    BY <1>1, <1>2 DEF StatusRead, JobsMatch, Awaits
  <1>4. ASSUME NEW t \in Tasks, NEW x \in Sites PROVE ~ Works(x, t) /\ ~ Acts(x, t)
    <2>1. ASSUME NEW c \in Clients PROVE ~ Drives(c, t) /\ ~ Looks(c, t)
      BY <1>1 DEF Drives, Looks
    <2>2. ASSUME NEW c \in Clients, x = <<"request", c, 0>>
          PROVE  ~ Works(x, t) /\ ~ Acts(x, t)
      BY <2>1, <2>2, AtRequest
    <2>3. ASSUME NEW p \in Pods, NEW i \in Nat, x = <<"queue", p, i>>
          PROVE  ~ Works(x, t) /\ ~ Acts(x, t)
      BY <1>2, <2>3, InQueue
    <2>4. ASSUME NEW p \in Pods, NEW s \in Slots, x = <<"pool", p, s>>
          PROVE  ~ Works(x, t) /\ ~ Acts(x, t)
      BY SMT, <1>1, <2>4, InPool
    <2> QED BY <2>2, <2>3, <2>4, SiteForms
  <1>5. ASSUME NEW t \in Tasks PROVE ClaimsSound(t)
    <2>1. Holders(t) = {} /\ uses[t] = 0
      BY <1>1 DEF Init, Holders
    <2>2. Cardinality(Holders(t)) = 0
      BY <2>1, FS_EmptySet
    <2>3. Claims(t) = 0
      BY SMT, <2>1, <2>2 DEF Claims
    <2>4. Claims(t) <= 1 /\ Claims(t) # 1
      BY SMT, <2>3
    <2> QED BY <2>4 DEF ClaimsSound
  <1>6. \A t \in Tasks : WorkSound(t)
    BY <1>4 DEF WorkSound
  <1> QED BY <1>3, <1>5, <1>6 DEF PatientInv

(* Where nobody is still at work on a task when it grows stale, a parse    *)
(* result is used once, for any number of requests, processes, goroutines  *)
(* and faults: the one job or request at work on a task leaves nothing     *)
(* behind that would overwrite its outcome, so a result that is consumed   *)
(* stays so until its use is given back (MarkParseTaskConsumed, "the       *)
(* optimistic status flip is the duplicate-import lock").                  *)
THEOREM PatientResultsUsedOnce == Spec => []PatientUsedOnce
  <1> DEFINE Inv == /\ PoolInv /\ RowsTyped /\ UsesTyped /\ ConsumedIsUsed
                    /\ PatientInv
  <1>1. Init => Inv
    BY PoolInvInit, RowsInit, UsesInit, PatientInit
  <1>2. Inv /\ [Next]_vars => Inv'
    <2> SUFFICES ASSUME Inv, [Next]_vars PROVE Inv'
      OBVIOUS
    <2>1. patient' = patient
      BY WorldStep
    <2>2. StatusRead /\ JobsMatch
      BY DEF PatientInv
    <2>3. StatusRead' /\ JobsMatch'
      BY <2>2, StatusReadStep, MatchStep
    <2>4. patient => \A t \in Tasks : WorkSound(t)' /\ ClaimsSound(t)'
      BY <2>2, PatientStep DEF PatientInv
    <2>5. PatientInv'
      BY <2>1, <2>3, <2>4 DEF PatientInv
    <2> QED BY <2>5, PoolInvStep, RowsStep, UsesStep
  <1>3. Inv => PatientUsedOnce
    BY DEF PatientInv, PatientUsedOnce, ClaimsSound
  <1> QED BY <1>1, <1>2, <1>3, PTL DEF Spec
=============================================================================
