---------------------------- MODULE InstallAttempt ----------------------------
(***************************************************************************)
(* Installing a published plugin into a Fleet workspace.  Every call of    *)
(* this module carries the same idempotency key: first calls, concurrent   *)
(* duplicates and retries.  The service freezes a plan in                  *)
(* plugin_install_attempts, takes a send lease, sends the frozen body to   *)
(* Fleet and records what Fleet said (the pinned mode; CapabilityInstall   *)
(* has the mode without a record).  Fleet, the network and the clock are   *)
(* external: Fleet keeps a receipt for Window time units, may handle a     *)
(* request whose caller has given up, and its answer may be lost.          *)
(***************************************************************************)
EXTENDS Integers, FiniteSets

CONSTANTS Calls,        \* HTTP calls with this idempotency key
          Envs,         \* the custom_env a call may carry
          MaxContent,   \* bound: how often the plugin is republished, plus 1
          Window,       \* how long Fleet retains a receipt (24 hours)
          Margin,       \* how much earlier retries stop (1 minute)
          Lease,        \* the send lease (3 minutes)
          Budget,       \* CapabilityInstallTimeout (2 minutes)
          MaxTime,      \* bound on the clock
          NoOne         \* no lease holder, no receipt, no row

VARIABLES row,       \* the plugin_install_attempts row of the key
          receipt,   \* Fleet's receipt of the key
          created,   \* how many resources Fleet has created for the key
          net,       \* requests Fleet may still handle, by call
          call,      \* the calls in progress and their answers
          content,   \* what the plugin's published release resolves to
          visible,   \* every node of the plan may be installed now
          tracked,   \* how often trackInstall counted this installation
          clock

vars == <<row, receipt, created, net, call, content, visible, tracked, clock>>

Contents == 1..MaxContent
Bodies == Contents \X Envs
States == {"PREPARED", "DISPATCHING", "UNKNOWN", "FAILED", "SUCCEEDED", "EXPIRED"}
Steps == {"idle", "read", "resolve", "claim", "check", "window", "acquire",
          "send", "wait", "settle", "done"}
Replies == {"none", "ok", "rejected", "unknown"}
Answers == {"none", "ok", "rejected", "unknown", "conflict", "hidden",
            "expired", "integrity", "error"}

IdleCall == [at |-> "idle", env |-> CHOOSE e \in Envs : TRUE, plan |-> 0,
             start |-> 0, now |-> 0, retry |-> 0, done |-> FALSE,
             stored |-> 0, reply |-> "none", res |-> 0, answer |-> "none"]

TypeOK ==
  /\ \/ row = NoOne
     \/ row \in [plan : Contents, env : Envs, state : States, hadUnknown : BOOLEAN,
                 token : Calls \cup {NoOne}, leaseUntil : Nat, retryUntil : Nat,
                 completed : BOOLEAN, result : Nat]
  /\ receipt = NoOne \/ receipt \in [body : Bodies, res : Nat, at : Nat]
  /\ created \in Nat /\ tracked \in Nat
  /\ net \in SUBSET [by : Calls, body : Bodies, until : Nat]
  /\ call \in [Calls -> [at : Steps, env : Envs, plan : 0..MaxContent, start : Nat,
                         now : Nat, retry : Nat, done : BOOLEAN, stored : Nat,
                         reply : Replies, res : Nat, answer : Answers]]
  /\ content \in Contents /\ visible \in BOOLEAN
  /\ clock \in 0..MaxTime

Init ==
  /\ row = NoOne /\ receipt = NoOne /\ created = 0 /\ net = {}
  /\ call = [c \in Calls |-> IdleCall]
  /\ content = 1 /\ visible = TRUE /\ tracked = 0 /\ clock = 0

(* The caller's context deadline, set when createInstallation starts.      *)
InTime(c) == clock - call[c].start =< Budget

Goto(c, step) == call' = [call EXCEPT ![c].at = step]
Answered(c, a, res) == [call EXCEPT ![c] = [IdleCall EXCEPT !.at = "done", !.answer = a, !.res = res]]
Answer(c, a) == call' = Answered(c, a, call[c].res)

Body(c) == <<call[c].plan, call[c].env>>

Begin(c, e) ==
  /\ call[c].at = "idle"
  /\ call' = [call EXCEPT ![c].at = "read",
                          ![c].env = e, ![c].start = clock]
  /\ UNCHANGED <<row, receipt, created, net, content, visible, tracked, clock>>

-----------------------------------------------------------------------------
(* createPinnedInstallation.                                               *)

(* What a call keeps of the attempt it read: the retry deadline (0 for     *)
(* NULL), whether it is completed, and the stored result.                  *)
Holding(c, a, step) ==
  call' = [call EXCEPT ![c].at = step, ![c].plan = a.plan, ![c].retry = a.retryUntil,
                       ![c].done = a.completed, ![c].stored = a.result]

(* The same key with other inputs is a conflict: the stored digests are    *)
(* compared before anything is sent.                                       *)
Adopt(c, a) == IF a.env = call[c].env THEN Holding(c, a, "check")
                                      ELSE Answer(c, "conflict")

ReadAttempt(c) ==
  /\ call[c].at = "read"
  /\ IF row = NoOne THEN Goto(c, "resolve") ELSE Adopt(c, row)
  /\ UNCHANGED <<row, receipt, created, net, content, visible, tracked, clock>>

(* Resolving the released graph: the content is chosen here, once.         *)
ResolvePlan(c) ==
  /\ call[c].at = "resolve"
  /\ IF visible
       THEN call' = [call EXCEPT ![c].at = "claim", ![c].plan = content]
       ELSE Answer(c, "hidden")
  /\ UNCHANGED <<row, receipt, created, net, content, visible, tracked, clock>>

NewAttempt(c) ==
  [plan |-> call[c].plan, env |-> call[c].env, state |-> "PREPARED",
   hadUnknown |-> FALSE, token |-> NoOne, leaseUntil |-> 0, retryUntil |-> 0,
   completed |-> FALSE, result |-> 0]

(* INSERT ... ON DUPLICATE KEY: the first claimant's plan wins, and every  *)
(* contender continues with the row that is there.                         *)
ClaimInstallAttempt(c) ==
  /\ call[c].at = "claim"
  /\ row' = IF row = NoOne THEN NewAttempt(c) ELSE row
  /\ Adopt(c, row')
  /\ UNCHANGED <<receipt, created, net, content, visible, tracked, clock>>

(* Governance is current although the content is frozen: a node that may   *)
(* no longer be installed stops a retry.                                   *)
CheckGovernance(c) ==
  /\ call[c].at = "check"
  /\ IF visible THEN Goto(c, "window") ELSE Answer(c, "hidden")
  /\ UNCHANGED <<row, receipt, created, net, content, visible, tracked, clock>>

(* Reading the clock.  Past the retry deadline the attempt expires; a      *)
(* completed attempt is sent again, without a lease, for its result.       *)
CheckWindow(c) ==
  /\ call[c].at = "window"
  /\ IF call[c].retry # 0 /\ clock >= call[c].retry
       THEN /\ Answer(c, "expired")
            /\ row' = IF row.state # "SUCCEEDED" /\ row.retryUntil # 0 /\ row.retryUntil =< clock
                        THEN [row EXCEPT !.state = "EXPIRED", !.token = NoOne, !.leaseUntil = 0]
                        ELSE row
       ELSE /\ call' = [call EXCEPT ![c].now = clock,
                                    ![c].at = IF call[c].done THEN "send" ELSE "acquire"]
            /\ UNCHANGED row
  /\ UNCHANGED <<receipt, created, net, content, visible, tracked, clock>>

Acquirable(now) ==
  /\ row.state \in {"PREPARED", "UNKNOWN", "DISPATCHING", "FAILED"}
  /\ row.leaseUntil = 0 \/ row.leaseUntil =< now
  /\ row.retryUntil = 0 \/ row.retryUntil > now

(* The retry deadline is set by the first lease and kept by every later    *)
(* one.                                                                    *)
Leased(c, latch) ==
  [row EXCEPT !.state = "DISPATCHING", !.hadUnknown = latch,
              !.token = c, !.leaseUntil = call[c].now + Lease,
              !.retryUntil = IF row.retryUntil = 0 THEN call[c].now + Window - Margin
                                                   ELSE row.retryUntil]

(* Mutant: taking over an expired lease forgets that its holder may have   *)
(* sent.                                                                   *)
NoLatch(c) ==
  /\ call[c].at = "acquire"
  /\ IF Acquirable(call[c].now)
       THEN row' = Leased(c, row.hadUnknown) /\ Goto(c, "send")
       ELSE Answer(c, "conflict") /\ UNCHANGED row
  /\ UNCHANGED <<receipt, created, net, content, visible, tracked, clock>>

(* Mutant: every lease sets the deadline anew, without the COALESCE.       *)
DeadlineMoves(c) ==
  /\ call[c].at = "acquire"
  /\ IF Acquirable(call[c].now)
       THEN /\ row' = [Leased(c, row.hadUnknown \/ row.state = "DISPATCHING")
                         EXCEPT !.retryUntil = call[c].now + Window - Margin]
            /\ Goto(c, "send")
       ELSE Answer(c, "conflict") /\ UNCHANGED row
  /\ UNCHANGED <<receipt, created, net, content, visible, tracked, clock>>

(* The conditional UPDATE that takes the send lease.  Taking it over from  *)
(* a holder that never reported latches had_unknown.                       *)
AcquireInstallDispatch(c) ==
  /\ call[c].at = "acquire"
  /\ IF Acquirable(call[c].now)
       THEN /\ row' = Leased(c, row.hadUnknown \/ row.state = "DISPATCHING")
            /\ Goto(c, "send")
       ELSE Answer(c, "conflict") /\ UNCHANGED row
  /\ UNCHANGED <<receipt, created, net, content, visible, tracked, clock>>

Held(c) == row # NoOne /\ row.token = c /\ row.state = "DISPATCHING"

Released(state) == [row EXCEPT !.state = state, !.token = NoOne, !.leaseUntil = 0]
SetUnknown(c) == IF Held(c) THEN [Released("UNKNOWN") EXCEPT !.hadUnknown = TRUE] ELSE row

(* Fleet's answer, or its absence, is recorded only by the lease's holder. *)
(* A definite rejection is recorded as FAILED only if no earlier send is   *)
(* in doubt.  The write itself may fail (db = FALSE).                      *)
SettleDispatch(c, db) ==
  /\ call[c].at = "settle" /\ ~call[c].done
  /\ \/ /\ call[c].reply = "ok" /\ Held(c) /\ db
        /\ row' = [Released("SUCCEEDED") EXCEPT !.completed = TRUE, !.result = call[c].res]
        /\ tracked' = tracked + 1
        /\ Answer(c, "ok")
     \/ /\ call[c].reply = "ok" /\ ~(Held(c) /\ db)
        /\ Answer(c, "unknown")
        /\ UNCHANGED <<row, tracked>>
     \/ /\ call[c].reply = "rejected" /\ Held(c) /\ ~row.hadUnknown /\ db
        /\ row' = Released("FAILED")
        /\ Answer(c, "rejected")
        /\ UNCHANGED tracked
     \/ /\ \/ call[c].reply = "unknown"
           \/ call[c].reply = "rejected" /\ ~(Held(c) /\ ~row.hadUnknown /\ db)
        /\ row' = IF db THEN SetUnknown(c) ELSE row
        /\ Answer(c, "unknown")
        /\ UNCHANGED tracked
  /\ UNCHANGED <<receipt, created, net, content, visible, clock>>

(* The answer to a completed attempt sent again: Fleet must name the       *)
(* stored resource.                                                        *)
SettleReplay(c) ==
  /\ call[c].at = "settle" /\ call[c].done
  /\ Answer(c, IF call[c].reply # "ok" THEN call[c].reply
               ELSE IF call[c].res = call[c].stored THEN "ok" ELSE "integrity")
  /\ UNCHANGED <<row, receipt, created, net, content, visible, tracked, clock>>

-----------------------------------------------------------------------------
(* The wire: one POST per call, never repeated by the transport.           *)

ReceiptLive == receipt # NoOne /\ clock < receipt.at + Window

InstallCapability(c) ==
  /\ call[c].at = "send" /\ InTime(c)
  /\ Goto(c, "wait")
  /\ net' = net \cup {[by |-> c, body |-> Body(c), until |-> call[c].start + Budget]}
  /\ UNCHANGED <<row, receipt, created, content, visible, tracked, clock>>

Replied(c, reply, res) ==
  call' = IF call[c].at = "wait"
            THEN [call EXCEPT ![c].at = "settle", ![c].reply = reply, ![c].res = res]
            ELSE call

(* Fleet handles a request: it replays a live receipt, installs and writes *)
(* one, or rejects.  Its answer reaches the call only if it still waits.   *)
FleetHandles(m) ==
  /\ net' = net \ {m}
  /\ \/ /\ ReceiptLive /\ receipt.body = m.body
        /\ Replied(m.by, "ok", receipt.res)
        /\ UNCHANGED <<receipt, created>>
     \/ /\ ~ReceiptLive
        /\ created' = created + 1
        /\ receipt' = [body |-> m.body, res |-> created + 1, at |-> clock]
        /\ Replied(m.by, "ok", created + 1)
     \/ /\ Replied(m.by, "rejected", 0)
        /\ UNCHANGED <<receipt, created>>
  /\ UNCHANGED <<row, content, visible, tracked, clock>>

(* The caller gets no usable answer: a timeout, a 5xx or a broken          *)
(* connection.  A request already on the wire may still be handled.        *)
OutcomeUnknown(c) ==
  /\ call[c].at = "wait" \/ (call[c].at = "send" /\ ~InTime(c))
  /\ call' = [call EXCEPT ![c].at = "settle", ![c].reply = "unknown"]
  /\ UNCHANGED <<row, receipt, created, net, content, visible, tracked, clock>>

(* A step before the send fails, the caller's deadline passes, or the      *)
(* process dies: the call ends where it is and the row stays as it is.     *)
Abandon(c) ==
  /\ call[c].at \notin {"idle", "done"}
  /\ Answer(c, "error")
  /\ UNCHANGED <<row, receipt, created, net, content, visible, tracked, clock>>

(* The rest of the market: a new release, a node hidden.                   *)
Republish ==
  /\ content < MaxContent
  /\ content' = content + 1
  /\ UNCHANGED <<row, receipt, created, net, call, visible, tracked, clock>>

Govern ==
  /\ visible /\ visible' = FALSE
  /\ UNCHANGED <<row, receipt, created, net, call, content, tracked, clock>>

(* A request whose caller's deadline has passed is cancelled.              *)
Tick ==
  /\ clock < MaxTime
  /\ clock' = clock + 1
  /\ net' = {m \in net : m.until > clock}
  /\ UNCHANGED <<row, receipt, created, call, content, visible, tracked>>

Next ==
  \/ \E c \in Calls :
       \/ \E e \in Envs : Begin(c, e)
       \/ ReadAttempt(c)
       \/ ResolvePlan(c)
       \/ ClaimInstallAttempt(c)
       \/ CheckGovernance(c)
       \/ CheckWindow(c)
       \/ AcquireInstallDispatch(c)
       \/ \E db \in BOOLEAN : SettleDispatch(c, db)
       \/ SettleReplay(c)
       \/ InstallCapability(c)
       \/ OutcomeUnknown(c)
       \/ Abandon(c)
  \/ \E m \in net : FleetHandles(m)
  \/ Republish
  \/ Govern
  \/ Tick

Spec == Init /\ [][Next]_vars

-----------------------------------------------------------------------------
(* As long as the attempt still admits retries, one key has installed at   *)
(* most one resource, through every interleaving of duplicates, lost       *)
(* answers, crashes and lease take-overs: the deadline set by the first    *)
(* lease ends before any receipt Fleet can have written expires.           *)
OneWhileRetried ==
  row # NoOne /\ clock < row.retryUntil => created =< 1

(* FAILED is a promise that nothing was installed: had_unknown keeps a     *)
(* later 4xx from erasing an earlier send whose fate nobody learned.       *)
FailedMeansNothing ==
  row # NoOne /\ row.state = "FAILED" => created = 0 /\ net = {}

(* All requests of the key carry the frozen plan and the inputs of the     *)
(* call that claimed it, whatever is published in the meantime.            *)
FrozenBody ==
  \A m \in net : m.body = <<row.plan, row.env>>

(* Success is recorded once, counted once, and names the resource Fleet    *)
(* holds as long as retries are admitted; whoever is told of success is    *)
(* told of the recorded resource.                                          *)
SuccessIsTheResource ==
  /\ tracked =< 1
  /\ row # NoOne /\ row.completed =>
       tracked = 1 /\ (clock < row.retryUntil => row.result = created)
  /\ \A c \in Calls : call[c].answer = "ok" => row.completed /\ call[c].res = row.result

KeepsDeadline ==
  row # NoOne => /\ row.retryUntil # 0 => row'.retryUntil = row.retryUntil
                 /\ row.completed => row' = row

(* One key, one installation: what the attempt row, Fleet and the answers  *)
(* say of it agree (createPinnedInstallation).                             *)
OneInstallation ==
  /\ OneWhileRetried
  /\ FailedMeansNothing
  /\ FrozenBody
  /\ SuccessIsTheResource

(* The retry deadline is fixed by the first possible send, and a recorded  *)
(* success is final.                                                       *)
HistoryKept == [][KeepsDeadline]_vars
=============================================================================
