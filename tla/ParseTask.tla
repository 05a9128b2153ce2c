----------------------------- MODULE ParseTask ------------------------------
(***************************************************************************)
(* The life of an uploaded package: an upload creates a parse task, a      *)
(* request claims it for the bounded worker pool of its process, the pool  *)
(* parses it, polls recover a task whose job was lost, and an import or a  *)
(* review submission consumes the result once (internal/service/parse,     *)
(* internal/repository/skill/parse_task.go and its callers).               *)
(*                                                                         *)
(* Every SQL statement is one action, as is every channel operation of the *)
(* pool; requests and jobs of all processes interleave between them.  What *)
(* the parser makes of a package is a choice of success or failure.        *)
(***************************************************************************)
EXTENDS Naturals, Sequences, FiniteSets

CONSTANTS
    Tasks,        \* parse_tasks ids
    Pods,         \* API processes
    Slots,        \* parse goroutines of a process
    Clients,      \* requests in flight at the same time
    QueueSize,    \* capacity of the jobs channel
    MaxAttempts,  \* SKILL_PARSE_MAX_ATTEMPTS
    MaxFaults,    \* bound: store errors and process crashes
    MaxUses,      \* bound: uses of one task that are counted
    Patience,     \* which values of patient a behaviour may have
    None

ASSUME ParseAssumption ==
    /\ QueueSize \in Nat \ {0}
    /\ MaxAttempts \in Nat \ {0}
    /\ MaxFaults \in Nat
    /\ MaxUses \in Nat \ {0}
    /\ Patience \subseteq BOOLEAN
    /\ IsFiniteSet(Clients)
    /\ None \notin Tasks \cup Clients
    /\ "canceled" \notin Clients

VARIABLES
    task,         \* the parse_tasks rows
    queue,        \* the jobs channel of each process
    pool,         \* the job each goroutine of a process is running
    http,         \* the requests in flight
    launched,     \* history: jobs handed to a pool, per task
    uses,         \* history: imports committed, per task
    stranded,     \* history: tasks left consumed by a fault
    faults,       \* faults still to come
    patient       \* whether only tasks that nobody works on grow stale

vars == <<task, queue, pool, http, launched, uses, stranded, faults, patient>>

Terminal == {"success", "failed", "consumed"}
Status   == {"absent", "pending", "parsing"} \cup Terminal

(* A row: stale says that updated_at is further back than the stale        *)
(* timeout, bound that the task was created for one skill's reupload.      *)
ParseTaskRow == [status : Status, attempts : 0 .. MaxAttempts,
                 stale : BOOLEAN, bound : BOOLEAN]

(* A job.  ctx is the request waiting for it, None for context.Background  *)
(* and "canceled" when the waiting request has left.                       *)
parseJob == [task : Tasks, ctx : Clients \cup {None, "canceled"}]

Idle == [op |-> "idle"]

(* A request.  last says that its poll read the attempts column one below  *)
(* the maximum.                                                            *)
Request == [op : {"trigger", "sync", "poll", "import"}, pod : Pods,
            task : Tasks, last : BOOLEAN,
            at : {"submit", "restore", "enqueue", "wait", "ensure", "status",
                  "recover", "exhaust", "fail", "incomplete", "import",
                  "release"}]

(* One type invariant for rows, channels, goroutines and requests.  A task *)
(* is never attempted more often than SKILL_PARSE_MAX_ATTEMPTS allows and  *)
(* the channel never holds more than its capacity.                         *)
TypeOK ==
    /\ task \in [Tasks -> ParseTaskRow]
    /\ queue \in [Pods -> Seq(parseJob)]
    /\ \A p \in Pods : Len(queue[p]) <= QueueSize
    /\ pool \in [Pods -> [Slots -> parseJob \cup {None}]]
    /\ http \in [Clients -> Request \cup {Idle}]
    /\ launched \in [Tasks -> Nat]
    /\ uses \in [Tasks -> 0 .. MaxUses]
    /\ stranded \subseteq Tasks
    /\ faults \in 0 .. MaxFaults
    /\ patient \in BOOLEAN

Init ==
    /\ task = [t \in Tasks |-> [status |-> "absent", attempts |-> 0,
                                stale |-> FALSE, bound |-> FALSE]]
    /\ queue = [p \in Pods |-> <<>>]
    /\ pool = [p \in Pods |-> [s \in Slots |-> None]]
    /\ http = [c \in Clients |-> Idle]
    /\ launched = [t \in Tasks |-> 0]
    /\ uses = [t \in Tasks |-> 0]
    /\ stranded = {}
    /\ faults = MaxFaults
    /\ patient \in Patience

-----------------------------------------------------------------------------
(* The UPDATE statements on parse_tasks.  Each touches updated_at.         *)

SetStatus(t, s) ==
    [task EXCEPT ![t].status = s, ![t].stale = FALSE]

TransitionPendingToParsing(t) ==
    /\ task[t].status = "pending"
    /\ task' = [task EXCEPT ![t].status = "parsing", ![t].stale = FALSE,
                            ![t].attempts = @ + 1]

(* Mutant: the rollback forgets a recovery that happened in between.       *)
RestoreResetsAttempts(t) ==
    /\ task[t].status = "parsing"
    /\ task' = [task EXCEPT ![t].status = "pending", ![t].stale = FALSE,
                            ![t].attempts = 0]

(* Mutant: the rollback does not ask for the claim it rolls back.          *)
RestoreBlind(t) ==
    task' = [task EXCEPT ![t].status = "pending", ![t].stale = FALSE,
                         ![t].attempts = IF @ > 0 THEN @ - 1 ELSE 0]

RestoreParsingToPending(t) ==
    /\ task[t].status = "parsing"
    /\ task' = [task EXCEPT ![t].status = "pending", ![t].stale = FALSE,
                            ![t].attempts = IF @ > 0 THEN @ - 1 ELSE 0]

(* Mutant: the attempts are compared when polled and not when recovering.  *)
RecoverUncapped(t) ==
    /\ task[t].status = "parsing"
    /\ task[t].stale
    /\ task' = [task EXCEPT ![t].attempts = @ + 1, ![t].stale = FALSE]

TryRecoverStaleParsing(t) ==
    /\ task[t].status = "parsing"
    /\ task[t].stale
    /\ task[t].attempts < MaxAttempts
    /\ task' = [task EXCEPT ![t].attempts = @ + 1, ![t].stale = FALSE]

MarkRetryExhausted(t) ==
    task' = IF task[t].status = "parsing" THEN SetStatus(t, "failed") ELSE task

UpdateFailed(t)  == task' = SetStatus(t, "failed")
UpdateSuccess(t) == task' = SetStatus(t, "success")

(* Mutant: checks the result and not that it is unused.                    *)
ConsumeAgain(t, skill) ==
    /\ task[t].status \in {"success", "consumed"}
    /\ task[t].bound = skill
    /\ task' = SetStatus(t, "consumed")

MarkParseTaskConsumed(t, skill) ==
    /\ task[t].status = "success"
    /\ task[t].bound = skill
    /\ task' = SetStatus(t, "consumed")

ReleaseConsumedParseTask(t) ==
    task' = IF task[t].status = "consumed"
            THEN SetStatus(t, "success") ELSE task

-----------------------------------------------------------------------------
(* Steps of a request.                                                     *)

GoTo(c, label) == http' = [http EXCEPT ![c].at = label]
Return(c)      == http' = [http EXCEPT ![c] = Idle]

At(c, label) == http[c] # Idle /\ http[c].at = label

Open(c, op, p, t, label) ==
    http' = [http EXCEPT ![c] = [op |-> op, pod |-> p, task |-> t,
                                 last |-> FALSE, at |-> label]]

history == <<launched, uses, stranded>>
workers == <<queue, pool>>
world   == <<faults, patient>>

(* InitUpload, and InitReupload for the package of an existing skill.      *)
InitUpload(t, skill) ==
    /\ task[t].status = "absent"
    /\ task' = [task EXCEPT ![t].status = "pending", ![t].bound = skill]
    /\ UNCHANGED <<workers, http, history, world>>

(* The claim of TriggerParse and of ParseUploadSync: the read that must    *)
(* find the task pending fails no request that the UPDATE would not fail.  *)
Claim(c, p, t, op) ==
    /\ http[c] = Idle
    /\ TransitionPendingToParsing(t)
    /\ Open(c, op, p, t, IF op = "trigger" THEN "submit" ELSE "enqueue")
    /\ UNCHANGED <<workers, history, world>>

Push(p, j) ==
    /\ queue' = [queue EXCEPT ![p] = Append(@, j)]
    /\ launched' = [launched EXCEPT ![j.task] = @ + 1]

Room(p) == Len(queue[p]) < QueueSize

(* Worker.Submit does not wait.  A full queue sends TriggerParse to        *)
(* RestoreParsingToPending and the poll that recovered to UpdateFailed.    *)
Submit(c) ==
    /\ At(c, "submit")
    /\ IF Room(http[c].pod)
       THEN /\ Push(http[c].pod, [task |-> http[c].task, ctx |-> None])
            /\ Return(c)
       ELSE /\ GoTo(c, IF http[c].op = "trigger" THEN "restore" ELSE "fail")
            /\ UNCHANGED <<queue, launched>>
    /\ UNCHANGED <<task, pool, uses, stranded, world>>

Restore(c) ==
    /\ At(c, "restore")
    /\ \/ RestoreParsingToPending(http[c].task)
       \/ task[http[c].task].status # "parsing" /\ UNCHANGED task
    /\ Return(c)
    /\ UNCHANGED <<workers, history, world>>

(* ProcessSync ends in an error: ParseUploadSync returns it, a poll        *)
(* gives the task up.                                                      *)
Incomplete(c) ==
    IF http[c].op = "sync" THEN Return(c) ELSE GoTo(c, "exhaust")

(* Worker.ProcessSync waits for room in the queue ...                      *)
Enqueue(c) ==
    /\ At(c, "enqueue")
    /\ Room(http[c].pod)
    /\ Push(http[c].pod, [task |-> http[c].task, ctx |-> c])
    /\ GoTo(c, "wait")
    /\ UNCHANGED <<task, pool, uses, stranded, world>>

(* ... and then for the job, unless its context ends first.  The job stays *)
(* with the pool: one not yet begun will find its context canceled, one    *)
(* that has finished its download will not notice.                         *)
Leave(c) ==
    /\ At(c, "enqueue") \/ At(c, "wait")
    /\ queue' = [p \in Pods |-> [i \in DOMAIN queue[p] |->
                   IF queue[p][i].ctx = c
                   THEN [queue[p][i] EXCEPT !.ctx = "canceled"]
                   ELSE queue[p][i]]]
    /\ pool' = [p \in Pods |-> [s \in Slots |->
                   IF pool[p][s] # None /\ pool[p][s].ctx = c
                   THEN [pool[p][s] EXCEPT !.ctx = None] ELSE pool[p][s]]]
    /\ Incomplete(c)
    /\ UNCHANGED <<task, history, world>>

(* The row is read when the job is done; one that is still parsing is      *)
(* marked failed by a second statement.                                    *)
ensureTerminalState(c) ==
    /\ At(c, "ensure")
    /\ CASE task[http[c].task].status \in Terminal -> GoTo(c, "status")
         [] task[http[c].task].status = "parsing" -> GoTo(c, "incomplete")
         [] OTHER -> Incomplete(c)
    /\ UNCHANGED <<task, workers, history, world>>

MarkIncomplete(c) ==
    /\ At(c, "incomplete")
    /\ UpdateFailed(http[c].task)
    /\ Incomplete(c)
    /\ UNCHANGED <<workers, history, world>>

(* Mutant: a poll recovers while attempts are left and then only answers.  *)
PollRecoversOnly(c, p, t) ==
    /\ http[c] = Idle
    /\ task[t].status # "absent"
    /\ IF /\ task[t].status = "parsing" /\ task[t].stale
          /\ task[t].attempts < MaxAttempts
       THEN http' = [http EXCEPT ![c] =
                       [op |-> "poll", pod |-> p, task |-> t,
                        last |-> task[t].attempts + 1 >= MaxAttempts,
                        at |-> "recover"]]
       ELSE UNCHANGED http
    /\ UNCHANGED <<task, workers, history, world>>

(* GetParseStatus polled by the owner: only a stale parsing row makes it   *)
(* do more than answer.                                                    *)
GetParseStatus(c, p, t) ==
    /\ http[c] = Idle
    /\ task[t].status # "absent"
    /\ IF task[t].status = "parsing" /\ task[t].stale
       THEN http' = [http EXCEPT ![c] =
                       [op |-> "poll", pod |-> p, task |-> t,
                        last |-> task[t].attempts + 1 = MaxAttempts,
                        at |-> IF task[t].attempts >= MaxAttempts
                               THEN "exhaust" ELSE "recover"]]
       ELSE UNCHANGED http
    /\ UNCHANGED <<task, workers, history, world>>

(* GetParseStatus after a synchronous parse.  OutcomesStay says that it    *)
(* finds an outcome; ParseUploadSync would fail a row still parsing.       *)
StatusAfterSync(c) ==
    /\ At(c, "status")
    /\ IF task[http[c].task].status = "parsing" /\ http[c].op = "sync"
       THEN GoTo(c, "fail") ELSE Return(c)
    /\ UNCHANGED <<task, workers, history, world>>

(* The last attempt is made synchronously, an earlier one in the           *)
(* background; a poll that lost the race answers "parsing".                *)
Recover(c) ==
    /\ At(c, "recover")
    /\ \/ /\ TryRecoverStaleParsing(http[c].task)
          /\ http' = [http EXCEPT ![c].last = FALSE,
                       ![c].at = IF http[c].last THEN "enqueue" ELSE "submit"]
       \/ /\ ~ (/\ task[http[c].task].status = "parsing"
                /\ task[http[c].task].stale
                /\ task[http[c].task].attempts < MaxAttempts)
          /\ Return(c)
          /\ UNCHANGED task
    /\ UNCHANGED <<workers, history, world>>

Exhaust(c) ==
    /\ At(c, "exhaust")
    /\ MarkRetryExhausted(http[c].task)
    /\ Return(c)
    /\ UNCHANGED <<workers, history, world>>

(* The unconditional UpdateFailed of a request whose recovery found the    *)
(* queue full.                                                             *)
FailTask(c) ==
    /\ At(c, "fail")
    /\ UpdateFailed(http[c].task)
    /\ Return(c)
    /\ UNCHANGED <<workers, history, world>>

(* A statement of a request fails.  What was read or written so far stays; *)
(* a poll whose synchronous attempt cannot be confirmed gives up.          *)
StoreFails(c) ==
    /\ faults > 0
    /\ \E label \in {"restore", "recover", "exhaust", "fail", "ensure",
                     "incomplete", "status", "release"} : At(c, label)
    /\ IF http[c].at \in {"ensure", "incomplete"}
       THEN Incomplete(c) ELSE Return(c)
    /\ stranded' = IF http[c].at = "release"
                   THEN stranded \cup {http[c].task} ELSE stranded
    /\ faults' = faults - 1
    /\ UNCHANGED <<task, workers, launched, uses, patient>>

-----------------------------------------------------------------------------
(* The worker pool.                                                        *)

run(p, s) ==
    /\ pool[p][s] = None
    /\ queue[p] # <<>>
    /\ pool' = [pool EXCEPT ![p][s] = Head(queue[p])]
    /\ queue' = [queue EXCEPT ![p] = Tail(@)]
    /\ UNCHANGED <<task, http, history, world>>

(* The job's end: done is closed after the row was written.                *)
JobDone(p, s) ==
    /\ pool' = [pool EXCEPT ![p][s] = None]
    /\ IF pool[p][s].ctx \in Clients
       THEN GoTo(pool[p][s].ctx, "ensure") ELSE UNCHANGED http

(* process writes what it found whatever the row's status is by then; a    *)
(* panic ends in updateFailed too.                                         *)
process(p, s) ==
    /\ pool[p][s] # None
    /\ \/ UpdateSuccess(pool[p][s].task) /\ pool[p][s].ctx # "canceled"
       \/ UpdateFailed(pool[p][s].task)
    /\ JobDone(p, s)
    /\ UNCHANGED <<queue, history, world>>

(* The final UPDATE fails: the error is logged and the job is done.        *)
processUnsaved(p, s) ==
    /\ faults > 0
    /\ pool[p][s] # None
    /\ JobDone(p, s)
    /\ faults' = faults - 1
    /\ UNCHANGED <<task, queue, history, patient>>

-----------------------------------------------------------------------------
(* The consumers of a parsed package.                                      *)

(* The imports that hold a task, and with those committed, the uses made   *)
(* of it.                                                                  *)
Holders(t) == {c \in Clients : http[c] # Idle /\ http[c].op = "import"
                               /\ http[c].task = t}

Claims(t) == uses[t] + Cardinality(Holders(t))

(* Import, AdminImport and SubmitReview mark the task consumed before they *)
(* write anything of their own ...                                         *)
Consume(c, p, t) ==
    /\ http[c] = Idle
    /\ Claims(t) < MaxUses
    /\ MarkParseTaskConsumed(t, FALSE)
    /\ Open(c, "import", p, t, "import")
    /\ UNCHANGED <<workers, history, world>>

(* Mutant: a failed import returns without releasing its task.             *)
importKeepsTask(c) ==
    /\ At(c, "import")
    /\ uses' \in {uses, [uses EXCEPT ![http[c].task] = @ + 1]}
    /\ Return(c)
    /\ UNCHANGED <<task, workers, launched, stranded, world>>

(* ... and then commit it, or fail at some point and release the task.     *)
importConsumedTask(c) ==
    /\ At(c, "import")
    /\ \/ /\ uses' = [uses EXCEPT ![http[c].task] = @ + 1]
          /\ Return(c)
       \/ /\ GoTo(c, "release")
          /\ UNCHANGED uses
    /\ UNCHANGED <<task, workers, launched, stranded, world>>

Release(c) ==
    /\ At(c, "release")
    /\ ReleaseConsumedParseTask(http[c].task)
    /\ Return(c)
    /\ UNCHANGED <<workers, history, world>>

(* A skill's reupload updates the skill and consumes its task in one       *)
(* transaction.                                                            *)
UpdateSkillAndConsumeTask(t) ==
    /\ Claims(t) < MaxUses
    /\ MarkParseTaskConsumed(t, TRUE)
    /\ uses' = [uses EXCEPT ![t] = @ + 1]
    /\ UNCHANGED <<workers, http, launched, stranded, world>>

-----------------------------------------------------------------------------
(* A process dies with its requests, its queue and its running jobs.       *)
Crash(p) ==
    LET mine == {c \in Clients : http[c] # Idle /\ http[c].pod = p}
    IN  /\ faults > 0
        /\ faults' = faults - 1
        /\ queue' = [queue EXCEPT ![p] = <<>>]
        /\ pool' = [pool EXCEPT ![p] = [s \in Slots |-> None]]
        /\ http' = [c \in Clients |-> IF c \in mine THEN Idle ELSE http[c]]
        /\ stranded' = stranded \cup
             {http[c].task : c \in {d \in mine : http[d].op = "import"}}
        /\ UNCHANGED <<task, launched, uses, patient>>

(* The jobs and the requests that may still act on a task.                 *)
Jobs(t) ==
    {x \in Pods \X (1 .. QueueSize) :
        x[2] \in DOMAIN queue[x[1]] /\ queue[x[1]][x[2]].task = t}
    \cup {x \in Pods \X Slots : /\ pool[x[1]][x[2]] # None
                                 /\ pool[x[1]][x[2]].task = t}

Busy(t) == Jobs(t) # {} \/ \E c \in Clients : http[c] # Idle /\ http[c].task = t

(* The stale timeout passes.  It exceeds the parse timeout, but a job's    *)
(* time in the queue counts too: only a patient behaviour has every job    *)
(* and request done with a task before it is stale.                        *)
GrowStale(t) ==
    /\ task[t].status = "parsing"
    /\ ~ task[t].stale
    /\ patient => ~ Busy(t)
    /\ task' = [task EXCEPT ![t].stale = TRUE]
    /\ UNCHANGED <<workers, http, history, world>>

ClientStep(c) ==
    \/ Submit(c) \/ Restore(c) \/ Enqueue(c)
    \/ ensureTerminalState(c) \/ MarkIncomplete(c) \/ StatusAfterSync(c)
    \/ Recover(c) \/ Exhaust(c) \/ FailTask(c)
    \/ importConsumedTask(c) \/ Release(c)

Next ==
    \/ \E t \in Tasks : \/ \E skill \in BOOLEAN : InitUpload(t, skill)
                        \/ UpdateSkillAndConsumeTask(t)
                        \/ GrowStale(t)
    \/ \E c \in Clients : \/ ClientStep(c)
                          \/ Leave(c)
                          \/ StoreFails(c)
    \/ \E c \in Clients, t \in Tasks :
         \/ \E p \in Pods, op \in {"trigger", "sync"} : Claim(c, p, t, op)
         \/ \E p \in Pods : GetParseStatus(c, p, t) \/ Consume(c, p, t)
    \/ \E p \in Pods : \/ \E s \in Slots : run(p, s) \/ process(p, s)
                                             \/ processUnsaved(p, s)
                       \/ Crash(p)

Spec == Init /\ [][Next]_vars

(* Requests are carried out, the goroutines of the pool run, time passes,  *)
(* and the owner of a task polls it.                                       *)
Fairness ==
    /\ \A c \in Clients : WF_vars(ClientStep(c))
    /\ \A p \in Pods, s \in Slots : WF_vars(run(p, s) \/ process(p, s))
    /\ \A t \in Tasks : /\ WF_vars(GrowStale(t))
                        /\ WF_vars(\E c \in Clients, p \in Pods :
                                    GetParseStatus(c, p, t))

FairSpec == Spec /\ Fairness

-----------------------------------------------------------------------------
(* A task is handed to a pool no more often than its attempts column says, *)
(* although a queue-full rollback takes an attempt back while a recovery   *)
(* may have added one, and so never more than MaxAttempts times (repo.go   *)
(* RestoreParsingToPending, TryRecoverStaleParsing).                       *)
JobsWithinAttempts ==
    \A t \in Tasks : launched[t] <= task[t].attempts

(* Where nobody is still at work on a task when it grows stale, a parse    *)
(* result is used once: at most one import holds or has committed it, and  *)
(* none while the row says otherwise than consumed (MarkParseTaskConsumed, *)
(* "the optimistic status flip is the duplicate-import lock").             *)
PatientUsedOnce ==
    patient => \A t \in Tasks :
        /\ Claims(t) <= 1
        /\ Claims(t) = 1 => task[t].status = "consumed"

(* The same without the condition, as the comments of the code have it.    *)
UsedOnce == \A t \in Tasks : Claims(t) <= 1

(* A consumed task was used, is being used, or was left behind by a crash  *)
(* or by a release that failed: every other failure of an import makes the *)
(* upload available again (import.go, "Every failure below releases it").  *)
ConsumedIsUsed ==
    \A t \in Tasks : task[t].status = "consumed" =>
        uses[t] > 0 \/ Holders(t) # {} \/ t \in stranded

(* A task that has left parsing for an outcome never goes back to be       *)
(* parsed or claimed again, whatever rollback or recovery is still under   *)
(* way; the poll after a synchronous parse relies on it (service.go,       *)
(* ParseUploadSync).                                                       *)
OutcomesStay ==
    [][\A t \in Tasks : task[t].status \in Terminal
                          => task'[t].status \in Terminal]_vars

(* A claimed task does not stay in parsing for ever: the pool writes an    *)
(* outcome, a full queue gives it back, or the owner's polls recover it    *)
(* until its attempts are exhausted.                                       *)
ParsingSettles ==
    \A t \in Tasks : task[t].status = "parsing" ~> task[t].status # "parsing"
=============================================================================
