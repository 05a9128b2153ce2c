--------------------------- MODULE InstallProofs ----------------------------
(***************************************************************************)
(* Proofs about installations, for any number of calls, duplicates, edits  *)
(* and failures.  With a frozen plan: nothing reaches Fleet before the     *)
(* first lease fixed the retry deadline, so every receipt is written late  *)
(* enough to outlive it (FleetSound); and as long as had_unknown is not    *)
(* latched, at most the lease's holder has a request in flight             *)
(* (Doubtless).  Installations without a local record follow.              *)
(***************************************************************************)
EXTENDS InstallAttempt, Installs, TLAPS

(* A leaf that names no prover is left to Zenon: most need no more than    *)
(* first-order reasoning about the facts they cite.                        *)
USE Zenon

Rows == [plan : Contents, env : Envs, state : States, hadUnknown : BOOLEAN,
         token : Calls \cup {NoOne}, leaseUntil : Nat, retryUntil : Nat,
         completed : BOOLEAN, result : Nat]
Receipts == [body : Bodies, res : Nat, at : Nat]
Messages == [by : Calls, body : Bodies, until : Nat]
CallRecords == [at : Steps, env : Envs, plan : 0..MaxContent, start : Nat,
                now : Nat, retry : Nat, done : BOOLEAN, stored : Nat,
                reply : Replies, res : Nat, answer : Answers]

(* What the proofs assume of the constants: retries stop before Fleet      *)
(* forgets, and NoOne is not a row or a receipt.                           *)
Setting ==
  /\ Window \in Nat /\ Margin \in Nat /\ Margin < Window
  /\ Lease \in Nat /\ Budget \in Nat /\ MaxContent \in Nat \ {0} /\ MaxTime \in Nat
  /\ Envs # {} /\ NoOne \notin Rows /\ NoOne \notin Receipts

(* The row: only a lease, which fixes the deadline, leads out of PREPARED; *)
(* a success is recorded and counted together.                             *)
RowSound(r, n, t) ==
  /\ r = NoOne => n = 0
  /\ r # NoOne =>
       /\ r.state # "PREPARED" => r.retryUntil # 0
       /\ r.completed <=> r.state = "SUCCEEDED"
       /\ r.state = "UNKNOWN" => r.hadUnknown
       /\ r.state = "FAILED" => ~r.hadUnknown
       /\ r.state = "DISPATCHING" => r.token \in Calls
       /\ r.retryUntil =< t + Window
       /\ n = (IF r.completed THEN 1 ELSE 0)

(* Fleet: the receipt is the last resource created and outlives the        *)
(* deadline, so a second one is created only after it.                     *)
FleetSound(r, rc, n, t) ==
  /\ rc = NoOne => n = 0
  /\ rc # NoOne => /\ n > 0 /\ rc.res = n /\ r # NoOne /\ r.retryUntil # 0
                   /\ r.retryUntil =< rc.at + Window
  /\ r # NoOne /\ t < r.retryUntil => n =< 1
  /\ r # NoOne /\ r.completed => n > 0 /\ (t < r.retryUntil => r.result = n)

NetSound(r, N) ==
  \A m \in N : r # NoOne /\ m.body = <<r.plan, r.env>> /\ r.retryUntil # 0

(* A call: from the check on it carries the row's plan, it sends after the *)
(* first lease, and what it knows of a success is what is there.           *)
CallSound(k, r, n, t) ==
  /\ k.at \in {"check", "window", "acquire", "send", "wait"} =>
       r # NoOne /\ k.plan = r.plan /\ k.env = r.env
  /\ k.at = "claim" => k.plan \in Contents
  /\ k.at \in {"send", "wait"} => r.retryUntil # 0
  /\ k.done => r # NoOne /\ r.completed /\ k.stored = r.result
  /\ k.now =< t
  /\ k.at = "settle" /\ k.reply = "ok" =>
       r # NoOne /\ n > 0 /\ (t < r.retryUntil => k.res = n)
  /\ k.answer = "ok" => k.at = "done" /\ r # NoOne /\ r.completed /\ k.res = r.result

Sending(k) == k.at \in {"send", "wait"}

(* While no send is in doubt.                                              *)
Doubtless(r, N, n, K) ==
  /\ r = NoOne \/ (r.state \in {"PREPARED", "FAILED"} /\ ~r.hadUnknown) =>
       N = {} /\ n = 0 /\ \A c \in Calls : ~Sending(K[c])
  /\ r # NoOne /\ r.state = "DISPATCHING" /\ ~r.hadUnknown =>
       /\ \A m \in N : m.by = r.token
       /\ \A m, o \in N : m = o
       /\ \A c \in Calls : Sending(K[c]) => c = r.token
       /\ K[r.token].at = "send" => N = {} /\ n = 0
       /\ K[r.token].at = "wait" => n = 0
       /\ K[r.token].at = "settle" /\ K[r.token].reply = "rejected" => N = {} /\ n = 0

InstallInv ==
  /\ TypeOK
  /\ RowSound(row, tracked, clock)
  /\ FleetSound(row, receipt, created, clock)
  /\ NetSound(row, net)
  /\ \A c \in Calls : CallSound(call[c], row, created, clock)
  /\ Doubtless(row, net, created, call)

-----------------------------------------------------------------------------
LEMMA IdleTyped ==
  ASSUME Setting
  PROVE  /\ IdleCall \in CallRecords /\ IdleCall.at = "idle" /\ IdleCall.done = FALSE
         /\ IdleCall.now = 0 /\ IdleCall.answer = "none" /\ IdleCall.reply = "none"
  BY SMT DEF IdleCall, CallRecords, Setting, Steps, Replies, Answers

LEMMA TypeShape ==
  TypeOK <=> /\ row = NoOne \/ row \in Rows
             /\ receipt = NoOne \/ receipt \in Receipts
             /\ created \in Nat /\ tracked \in Nat
             /\ net \in SUBSET Messages /\ call \in [Calls -> CallRecords]
             /\ content \in Contents /\ visible \in BOOLEAN /\ clock \in 0..MaxTime
  BY DEF TypeOK, Rows, Receipts, Messages, CallRecords

(* One call moves and nothing else does; it does not begin to send unless  *)
(* the attempt is completed.                                               *)
LEMMA OneCallMoves ==
  ASSUME Setting, InstallInv, NEW c \in Calls, NEW k \in CallRecords,
         call' = [call EXCEPT ![c] = k],
         UNCHANGED <<row, receipt, created, net, content, visible, tracked, clock>>,
         CallSound(k, row, created, clock),
         Sending(k) => k.at = call[c].at \/ (row # NoOne /\ row.completed),
         ~(k.at = "settle" /\ k.reply = "rejected")
           \/ (k.at = call[c].at /\ k.reply = call[c].reply)
  PROVE  InstallInv'
  <1>1. /\ call' \in [Calls -> CallRecords] /\ call'[c] = k
        /\ \A d \in Calls : d # c => call'[d] = call[d]
    BY TypeShape DEF InstallInv
  <1>2. TypeOK'
    BY <1>1, TypeShape DEF InstallInv, TypeOK, CallRecords
  <1>3. \A d \in Calls : CallSound(call'[d], row, created, clock)
    BY <1>1 DEF InstallInv
  <1>4. Doubtless(row, net, created, call')
    <2>1. ASSUME row = NoOne \/ (row.state \in {"PREPARED", "FAILED"} /\ ~row.hadUnknown)
          PROVE  net = {} /\ created = 0 /\ \A d \in Calls : ~Sending(call'[d])
      BY <1>1, <2>1 DEF InstallInv, Doubtless, Sending, RowSound
    <2>2. ASSUME row # NoOne, row.state = "DISPATCHING", ~row.hadUnknown
          PROVE  /\ \A m \in net : m.by = row.token
                 /\ \A m, o \in net : m = o
                 /\ \A d \in Calls : Sending(call'[d]) => d = row.token
                 /\ call'[row.token].at = "send" => net = {} /\ created = 0
                 /\ call'[row.token].at = "wait" => created = 0
                 /\ call'[row.token].at = "settle" /\ call'[row.token].reply = "rejected"
                      => net = {} /\ created = 0
      <3>1. row.token \in Calls /\ ~row.completed
        BY <2>2, TypeShape DEF InstallInv, RowSound, Rows
      <3> QED BY <1>1, <2>2, <3>1 DEF InstallInv, Doubtless, Sending
    <2> QED BY <2>1, <2>2 DEF Doubtless
  <1> QED BY <1>2, <1>3, <1>4 DEF InstallInv


(* A call that answers leaves everything as it is but for itself.          *)
LEMMA AnswerSound ==
  ASSUME Setting, InstallInv, NEW c \in Calls, NEW a \in Answers,
         Answer(c, a),
         UNCHANGED <<row, receipt, created, net, content, visible, tracked, clock>>,
         a = "ok" => row # NoOne /\ row.completed /\ call[c].res = row.result
  PROVE  InstallInv'
  <1> DEFINE k == [IdleCall EXCEPT !.at = "done", !.answer = a, !.res = call[c].res]
  <1>1. call[c].res \in Nat /\ clock \in Nat
    BY SMT, TypeShape DEF InstallInv, CallRecords
  <1>2. /\ k \in CallRecords /\ k.at = "done" /\ k.done = FALSE /\ k.now = 0
        /\ k.answer = a /\ k.res = call[c].res /\ k.reply = "none"
    BY <1>1, IdleTyped DEF CallRecords, Steps
  <1>3. call' = [call EXCEPT ![c] = k]
    BY DEF Answer, Answered
  <1> HIDE DEF k
  <1>4. CallSound(k, row, created, clock)
    BY SMT, <1>1, <1>2 DEF CallSound
  <1> QED BY <1>2, <1>3, <1>4, OneCallMoves DEF Sending

(* A call that only advances to a step before the send.                    *)
LEMMA AdvanceSound ==
  ASSUME Setting, InstallInv, NEW c \in Calls, NEW s \in Steps, Goto(c, s),
         UNCHANGED <<row, receipt, created, net, content, visible, tracked, clock>>,
         s \in {"resolve", "window"},
         s = "window" => call[c].at = "check", call[c].at # "done"
  PROVE  InstallInv'
  <1> DEFINE k == [call[c] EXCEPT !.at = s]
  <1>1. call[c] \in CallRecords /\ CallSound(call[c], row, created, clock)
    BY TypeShape DEF InstallInv
  <1>2. /\ k \in CallRecords /\ k.at = s /\ k.done = call[c].done /\ k.now = call[c].now
        /\ k.answer = call[c].answer /\ k.res = call[c].res /\ k.reply = call[c].reply
        /\ k.plan = call[c].plan /\ k.env = call[c].env /\ k.stored = call[c].stored
    BY <1>1 DEF CallRecords
  <1>3. call' = [call EXCEPT ![c] = k]
    BY DEF Goto
  <1> HIDE DEF k
  <1>4. CallSound(k, row, created, clock)
    BY <1>1, <1>2 DEF CallSound
  <1> QED BY <1>2, <1>3, <1>4, OneCallMoves DEF Sending

LEMMA BeginSound ==
  ASSUME Setting, InstallInv, NEW c \in Calls, NEW e \in Envs, Begin(c, e)
  PROVE  InstallInv'
  <1> DEFINE k == [call[c] EXCEPT !.at = "read", !.env = e, !.start = clock]
  <1>1. /\ call[c] \in CallRecords /\ CallSound(call[c], row, created, clock)
        /\ clock \in Nat
    BY SMT, TypeShape DEF InstallInv
  <1>2. /\ k \in CallRecords /\ k.at = "read" /\ k.done = call[c].done
        /\ k.now = call[c].now /\ k.answer = call[c].answer /\ k.res = call[c].res
        /\ k.reply = call[c].reply /\ k.stored = call[c].stored
    BY <1>1 DEF CallRecords, Steps
  <1>3. /\ call' = [call EXCEPT ![c] = k]
        /\ UNCHANGED <<row, receipt, created, net, content, visible, tracked, clock>>
    BY DEF Begin
  <1> HIDE DEF k
  <1>4. CallSound(k, row, created, clock)
    BY <1>1, <1>2 DEF CallSound, Begin
  <1> QED BY <1>2, <1>3, <1>4, OneCallMoves DEF Sending

(* A call that adopts the attempt it found.                                *)
LEMMA AdoptSound ==
  ASSUME Setting, InstallInv, NEW c \in Calls, row # NoOne, Adopt(c, row),
         call[c].at # "done",
         UNCHANGED <<row, receipt, created, net, content, visible, tracked, clock>>
  PROVE  InstallInv'
  <1>1. CASE row.env # call[c].env
    <2>1. Answer(c, "conflict")
      BY <1>1 DEF Adopt
    <2> QED BY <2>1, AnswerSound DEF Answers
  <1>2. CASE row.env = call[c].env
    <2> DEFINE k == [call[c] EXCEPT !.at = "check", !.plan = row.plan,
                       !.retry = row.retryUntil, !.done = row.completed,
                       !.stored = row.result]
    <2>1. /\ call[c] \in CallRecords /\ CallSound(call[c], row, created, clock)
          /\ row \in Rows
      BY TypeShape DEF InstallInv
    <2>a. /\ row.plan \in 0..MaxContent /\ row.retryUntil \in Nat
          /\ row.completed \in BOOLEAN /\ row.result \in Nat
      BY SMT, <2>1 DEF Rows, Contents, Setting
    <2>2. /\ k \in CallRecords /\ k.at = "check" /\ k.plan = row.plan
          /\ k.env = call[c].env /\ k.done = row.completed /\ k.stored = row.result
          /\ k.now = call[c].now /\ k.answer = call[c].answer /\ k.res = call[c].res
          /\ k.reply = call[c].reply
      BY <2>1, <2>a DEF CallRecords, Steps
    <2>3. call' = [call EXCEPT ![c] = k]
      BY <1>2 DEF Adopt, Holding
    <2> HIDE DEF k
    <2>4. CallSound(k, row, created, clock)
      BY <1>2, <2>1, <2>2 DEF CallSound
    <2> QED BY <2>2, <2>3, <2>4, OneCallMoves DEF Sending
  <1> QED BY <1>1, <1>2

LEMMA ReadSound ==
  ASSUME Setting, InstallInv, NEW c \in Calls, ReadAttempt(c)
  PROVE  InstallInv'
  <1>1. CASE row = NoOne
    BY <1>1, AdvanceSound DEF ReadAttempt, Steps
  <1>2. CASE row # NoOne
    BY <1>2, AdoptSound DEF ReadAttempt
  <1> QED BY <1>1, <1>2

LEMMA ResolveSound ==
  ASSUME Setting, InstallInv, NEW c \in Calls, ResolvePlan(c)
  PROVE  InstallInv'
  <1>1. CASE ~visible
    BY <1>1, AnswerSound DEF ResolvePlan, Answers
  <1>2. CASE visible
    <2> DEFINE k == [call[c] EXCEPT !.at = "claim", !.plan = content]
    <2>1. /\ call[c] \in CallRecords /\ CallSound(call[c], row, created, clock)
          /\ content \in Contents
      BY TypeShape DEF InstallInv
    <2>a. content \in 0..MaxContent
      BY SMT, <2>1 DEF Contents, Setting
    <2>2. /\ k \in CallRecords /\ k.at = "claim" /\ k.plan = content
          /\ k.done = call[c].done /\ k.stored = call[c].stored
          /\ k.now = call[c].now /\ k.answer = call[c].answer /\ k.res = call[c].res
          /\ k.reply = call[c].reply
      BY <2>1, <2>a DEF CallRecords, Steps
    <2>3. /\ call' = [call EXCEPT ![c] = k]
          /\ UNCHANGED <<row, receipt, created, net, content, visible, tracked, clock>>
      BY <1>2 DEF ResolvePlan
    <2> HIDE DEF k
    <2>4. CallSound(k, row, created, clock)
      BY <2>1, <2>2 DEF CallSound, ResolvePlan
    <2> QED BY <2>2, <2>3, <2>4, OneCallMoves DEF Sending
  <1> QED BY <1>1, <1>2

LEMMA GovernanceSound ==
  ASSUME Setting, InstallInv, NEW c \in Calls, CheckGovernance(c)
  PROVE  InstallInv'
  <1>1. CASE ~visible
    BY <1>1, AnswerSound DEF CheckGovernance, Answers
  <1>2. CASE visible
    BY <1>2, AdvanceSound DEF CheckGovernance, Steps
  <1> QED BY <1>1, <1>2

LEMMA AbandonSound ==
  ASSUME Setting, InstallInv, NEW c \in Calls, Abandon(c)
  PROVE  InstallInv'
  BY AnswerSound DEF Abandon, Answers

LEMMA UnknownSound ==
  ASSUME Setting, InstallInv, NEW c \in Calls, OutcomeUnknown(c)
  PROVE  InstallInv'
  <1> DEFINE k == [call[c] EXCEPT !.at = "settle", !.reply = "unknown"]
  <1>1. call[c] \in CallRecords /\ CallSound(call[c], row, created, clock)
    BY TypeShape DEF InstallInv
  <1>2. /\ k \in CallRecords /\ k.at = "settle" /\ k.reply = "unknown"
        /\ k.done = call[c].done /\ k.stored = call[c].stored /\ k.now = call[c].now
        /\ k.answer = call[c].answer /\ k.res = call[c].res
    BY <1>1 DEF CallRecords, Steps, Replies
  <1>3. /\ call' = [call EXCEPT ![c] = k]
        /\ UNCHANGED <<row, receipt, created, net, content, visible, tracked, clock>>
    BY DEF OutcomeUnknown
  <1> HIDE DEF k
  <1>4. CallSound(k, row, created, clock)
    BY <1>1, <1>2 DEF CallSound, OutcomeUnknown
  <1> QED BY <1>2, <1>3, <1>4, OneCallMoves DEF Sending

LEMMA ReplaySound ==
  ASSUME Setting, InstallInv, NEW c \in Calls, SettleReplay(c)
  PROVE  InstallInv'
  <1> DEFINE a == IF call[c].reply # "ok" THEN call[c].reply
                  ELSE IF call[c].res = call[c].stored THEN "ok" ELSE "integrity"
  <1>1. call[c] \in CallRecords /\ CallSound(call[c], row, created, clock)
    BY TypeShape DEF InstallInv
  <1>2. /\ Answer(c, a) /\ call[c].done
        /\ UNCHANGED <<row, receipt, created, net, content, visible, tracked, clock>>
    BY DEF SettleReplay
  <1>3. a \in Answers
    BY <1>1 DEF CallRecords, Replies, Answers
  <1>4. a = "ok" => row # NoOne /\ row.completed /\ call[c].res = row.result
    BY <1>1, <1>2 DEF CallSound
  <1> HIDE DEF a
  <1> QED BY <1>2, <1>3, <1>4, AnswerSound


-----------------------------------------------------------------------------
(* The steps that write the row.                                           *)

(* What Fleet and the calls rely on survives a write that keeps the plan,  *)
(* the inputs, the deadline and the outcome.                               *)
LEMMA SameAttempt ==
  ASSUME NEW r, NEW s, r # NoOne, s # NoOne, s.plan = r.plan, s.env = r.env,
         s.retryUntil = r.retryUntil, s.completed = r.completed, s.result = r.result
  PROVE  /\ \A rc, n, t : FleetSound(r, rc, n, t) => FleetSound(s, rc, n, t)
         /\ \A N : NetSound(r, N) => NetSound(s, N)
         /\ \A k, n, t : CallSound(k, r, n, t) => CallSound(k, s, n, t)
  BY SMT DEF FleetSound, NetSound, CallSound

(* The row is rewritten to r and the call c moves to k: what is left to    *)
(* show of r, of k and of the sends in flight.                             *)
LEMMA RowAndCallMove ==
  ASSUME Setting, InstallInv, NEW c \in Calls, NEW k \in CallRecords, NEW r \in Rows,
         row' = r, call' = [call EXCEPT ![c] = k],
         UNCHANGED <<receipt, created, net, content, visible, clock>>,
         tracked' \in Nat,
         RowSound(r, tracked', clock), FleetSound(r, receipt, created, clock),
         NetSound(r, net), CallSound(k, r, created, clock),
         \A d \in Calls : d # c => CallSound(call[d], r, created, clock),
         Doubtless(r, net, created, [call EXCEPT ![c] = k])
  PROVE  InstallInv'
  <1>1. /\ call' \in [Calls -> CallRecords] /\ call'[c] = k
        /\ \A d \in Calls : d # c => call'[d] = call[d]
    BY TypeShape DEF InstallInv
  <1>2. TypeOK'
    BY <1>1, TypeShape DEF InstallInv, TypeOK, CallRecords, Rows
  <1>3. \A d \in Calls : CallSound(call'[d], r, created, clock)
    BY <1>1
  <1> QED BY <1>2, <1>3 DEF InstallInv

LEMMA ClaimSound ==
  ASSUME Setting, InstallInv, NEW c \in Calls, ClaimInstallAttempt(c)
  PROVE  InstallInv'
  <1>1. CASE row # NoOne
    BY <1>1, AdoptSound DEF ClaimInstallAttempt
  <1>2. CASE row = NoOne
    <2> DEFINE r == NewAttempt(c)
               k == [call[c] EXCEPT !.at = "check", !.plan = r.plan,
                       !.retry = r.retryUntil, !.done = r.completed,
                       !.stored = r.result]
    <2>1. /\ call[c] \in CallRecords /\ call[c].plan \in Contents
          /\ CallSound(call[c], row, created, clock) /\ clock \in Nat
      BY SMT, TypeShape DEF InstallInv, ClaimInstallAttempt, CallSound
    <2>2. /\ r \in Rows /\ r.plan = call[c].plan /\ r.env = call[c].env
          /\ r.state = "PREPARED" /\ r.retryUntil = 0 /\ r.completed = FALSE
          /\ r.result = 0
      BY <2>1 DEF NewAttempt, Rows, CallRecords, States
    <2>3. row' = r /\ call' = [call EXCEPT ![c] = k]
          /\ UNCHANGED <<receipt, created, net, content, visible, tracked, clock>>
      BY <1>2, <2>2 DEF ClaimInstallAttempt, Adopt, Holding
    <2> HIDE DEF r
    <2>a. /\ r.plan \in 0..MaxContent /\ r.retryUntil \in Nat
          /\ r.completed \in BOOLEAN /\ r.result \in Nat
      BY SMT, <2>1, <2>2 DEF Contents, Setting, Rows
    <2>b. k \in CallRecords
      BY <2>1, <2>a DEF CallRecords, Steps
    <2>4. /\ k \in CallRecords /\ k.at = "check" /\ k.plan = r.plan /\ k.env = r.env
          /\ k.done = FALSE /\ k.now = call[c].now /\ k.answer = call[c].answer
      BY <2>1, <2>2, <2>b DEF CallRecords
    <2> HIDE DEF k
    <2>5. r # NoOne
      BY <2>2 DEF Setting
    <2>6. /\ net = {} /\ created = 0 /\ receipt = NoOne /\ tracked = 0
          /\ \A d \in Calls : ~Sending(call[d])
      BY <1>2 DEF InstallInv, Doubtless, FleetSound, RowSound
    <2>7. RowSound(r, tracked', clock) /\ FleetSound(r, receipt, created, clock)
          /\ NetSound(r, net)
      BY SMT, <2>1, <2>2, <2>3, <2>5, <2>6
         DEF RowSound, FleetSound, NetSound, Setting
    <2>8. CallSound(k, r, created, clock)
      BY <1>2, <2>1, <2>4, <2>5 DEF CallSound
    <2>9. \A d \in Calls : d # c => CallSound(call[d], r, created, clock)
      BY <1>2, <2>5, <2>6 DEF InstallInv, CallSound
    <2>10. Doubtless(r, net, created, [call EXCEPT ![c] = k])
      BY <2>2, <2>4, <2>6, TypeShape DEF InstallInv, Doubtless, Sending
    <2>11. tracked' \in Nat
      BY <2>3, TypeShape DEF InstallInv
    <2> QED BY <2>2, <2>3, <2>4, <2>7, <2>8, <2>9, <2>10, <2>11, RowAndCallMove
  <1> QED BY <1>1, <1>2

LEMMA WindowSound ==
  ASSUME Setting, InstallInv, NEW c \in Calls, CheckWindow(c)
  PROVE  InstallInv'
  <1>0. /\ call[c] \in CallRecords /\ CallSound(call[c], row, created, clock)
        /\ clock \in Nat /\ call[c].at = "window" /\ row # NoOne /\ row \in Rows
    BY SMT, TypeShape DEF InstallInv, CheckWindow, CallSound
  <1>1. CASE /\ Answer(c, "expired") /\ row' = row
             /\ UNCHANGED <<receipt, created, net, content, visible, tracked, clock>>
    BY <1>1, AnswerSound DEF Answers
  <1>2. CASE /\ Answer(c, "expired")
             /\ row.state # "SUCCEEDED" /\ row.retryUntil # 0 /\ row.retryUntil =< clock
             /\ row' = [row EXCEPT !.state = "EXPIRED", !.token = NoOne, !.leaseUntil = 0]
             /\ UNCHANGED <<receipt, created, net, content, visible, tracked, clock>>
    <2> DEFINE r == [row EXCEPT !.state = "EXPIRED", !.token = NoOne, !.leaseUntil = 0]
               k == [IdleCall EXCEPT !.at = "done", !.answer = "expired", !.res = call[c].res]
    <2>1. /\ r \in Rows /\ r.plan = row.plan /\ r.env = row.env /\ r.state = "EXPIRED"
          /\ r.retryUntil = row.retryUntil /\ r.completed = row.completed
          /\ r.result = row.result
      BY <1>0 DEF Rows, States
    <2>2. /\ k \in CallRecords /\ k.at = "done" /\ k.done = FALSE /\ k.now = 0
          /\ k.answer = "expired"
      BY <1>0, IdleTyped DEF CallRecords, Steps, Answers
    <2>3. row' = r /\ call' = [call EXCEPT ![c] = k]
      BY <1>2 DEF Answer, Answered
    <2> HIDE DEF r, k
    <2>4. r # NoOne
      BY <2>1 DEF Setting
    <2>5. /\ FleetSound(r, receipt, created, clock) /\ NetSound(r, net)
          /\ \A d \in Calls : CallSound(call[d], r, created, clock)
      BY <1>0, <2>1, <2>4, SameAttempt DEF InstallInv
    <2>6. RowSound(r, tracked', clock)
      BY <1>0, <1>2, <2>1, <2>4 DEF InstallInv, RowSound
    <2>7. CallSound(k, r, created, clock)
      BY SMT, <1>0, <2>2 DEF CallSound
    <2>8. Doubtless(r, net, created, [call EXCEPT ![c] = k])
      BY <2>1, <2>4 DEF Doubtless
    <2>9. tracked' \in Nat
      BY <1>2, TypeShape DEF InstallInv
    <2> QED BY <1>2, <2>1, <2>2, <2>3, <2>5, <2>6, <2>7, <2>8, <2>9, RowAndCallMove
  <1>3. CASE /\ call' = [call EXCEPT ![c].now = clock,
                                     ![c].at = IF call[c].done THEN "send" ELSE "acquire"]
             /\ UNCHANGED <<row, receipt, created, net, content, visible, tracked, clock>>
    <2> DEFINE k == [call[c] EXCEPT !.now = clock,
                       !.at = IF call[c].done THEN "send" ELSE "acquire"]
    <2>1. /\ k \in CallRecords /\ k.at = (IF call[c].done THEN "send" ELSE "acquire")
          /\ k.now = clock /\ k.done = call[c].done /\ k.plan = call[c].plan
          /\ k.env = call[c].env /\ k.stored = call[c].stored /\ k.answer = call[c].answer
          /\ k.res = call[c].res
      BY <1>0 DEF CallRecords, Steps
    <2>2. call' = [call EXCEPT ![c] = k]
      BY <1>3
    <2> HIDE DEF k
    <2>3. row.completed => row.retryUntil # 0
      BY <1>0 DEF InstallInv, RowSound
    <2>4. CallSound(k, row, created, clock)
      BY SMT, <1>0, <2>1, <2>3 DEF CallSound
    <2>5. Sending(k) => row.completed
      BY <1>0, <2>1 DEF Sending, CallSound
    <2>6. k.at # "settle"
      BY <2>1
    <2> QED BY <1>0, <1>3, <2>1, <2>2, <2>4, <2>5, <2>6, OneCallMoves
  <1> QED BY <1>0, <1>1, <1>2, <1>3 DEF CheckWindow


(* The first lease fixes the deadline: before it nothing was sent.         *)
LEMMA NothingBeforeLease ==
  ASSUME InstallInv, row # NoOne, row.retryUntil = 0
  PROVE  /\ receipt = NoOne /\ created = 0 /\ net = {} /\ ~row.completed
         /\ row.state = "PREPARED" /\ \A d \in Calls : ~Sending(call[d])
  BY DEF InstallInv, RowSound, FleetSound, NetSound, CallSound, Sending

LEMMA AcquireSound ==
  ASSUME Setting, InstallInv, NEW c \in Calls, AcquireInstallDispatch(c)
  PROVE  InstallInv'
  <1>0. /\ call[c] \in CallRecords /\ CallSound(call[c], row, created, clock)
        /\ clock \in Nat /\ call[c].at = "acquire" /\ row # NoOne /\ row \in Rows
    BY SMT, TypeShape DEF InstallInv, AcquireInstallDispatch, CallSound
  <1>1. CASE ~Acquirable(call[c].now)
    BY <1>1, AnswerSound DEF AcquireInstallDispatch, Answers
  <1>2. CASE Acquirable(call[c].now)
    <2> DEFINE latch == row.hadUnknown \/ row.state = "DISPATCHING"
               until == IF row.retryUntil = 0 THEN call[c].now + Window - Margin
                                              ELSE row.retryUntil
               r == [row EXCEPT !.state = "DISPATCHING", !.hadUnknown = latch,
                       !.token = c, !.leaseUntil = call[c].now + Lease,
                       !.retryUntil = until]
               k == [call[c] EXCEPT !.at = "send"]
    <2>1. row' = r /\ call' = [call EXCEPT ![c] = k]
          /\ UNCHANGED <<receipt, created, net, content, visible, tracked, clock>>
      BY <1>2 DEF AcquireInstallDispatch, Leased, Goto
    <2>2. /\ until \in Nat /\ until # 0 /\ until =< clock + Window
          /\ row.retryUntil # 0 => until = row.retryUntil
          /\ call[c].now + Lease \in Nat /\ latch \in BOOLEAN
          /\ row.hadUnknown \in BOOLEAN
      <3>1. /\ call[c].now \in Nat /\ call[c].now =< clock /\ row.retryUntil \in Nat
            /\ row.retryUntil =< clock + Window /\ row.hadUnknown \in BOOLEAN
        BY <1>0 DEF CallRecords, CallSound, Rows, InstallInv, RowSound
      <3> QED BY SMT, <1>0, <3>1 DEF Setting
    <2>3. latch <=> (row.hadUnknown \/ row.state = "DISPATCHING")
      OBVIOUS
    <2>4. ~row.completed
      BY <1>0, <1>2 DEF Acquirable, InstallInv, RowSound
    <2> HIDE DEF until, latch
    <2>5. /\ r \in Rows /\ r.plan = row.plan /\ r.env = row.env
          /\ r.state = "DISPATCHING" /\ r.hadUnknown = latch /\ r.token = c
          /\ r.retryUntil = until /\ r.completed = row.completed /\ r.result = row.result
      BY <1>0, <2>2 DEF Rows, States
    <2>6. /\ k \in CallRecords /\ k.at = "send" /\ k.plan = call[c].plan
          /\ k.env = call[c].env /\ k.done = call[c].done /\ k.stored = call[c].stored
          /\ k.now = call[c].now /\ k.answer = call[c].answer /\ k.res = call[c].res
      BY <1>0 DEF CallRecords, Steps
    <2> HIDE DEF r, k
    <2>7. r # NoOne
      BY <2>5 DEF Setting
    <2>8. RowSound(r, tracked', clock)
      BY <1>0, <2>1, <2>2, <2>4, <2>5, <2>7 DEF InstallInv, RowSound
    <2>9. /\ FleetSound(r, receipt, created, clock) /\ NetSound(r, net)
          /\ \A d \in Calls : CallSound(call[d], r, created, clock)
      <3>1. CASE row.retryUntil # 0
        BY <1>0, <2>2, <2>5, <2>7, <3>1, SameAttempt DEF InstallInv
      <3>2. CASE row.retryUntil = 0
        <4>1. /\ receipt = NoOne /\ created = 0 /\ net = {}
              /\ \A d \in Calls : ~Sending(call[d])
          BY <1>0, <3>2, NothingBeforeLease
        <4>2. FleetSound(r, receipt, created, clock) /\ NetSound(r, net)
          BY SMT, <2>4, <2>5, <4>1 DEF FleetSound, NetSound
        <4>3. \A d \in Calls : CallSound(call[d], r, created, clock)
          BY SMT, <1>0, <2>5, <2>7, <4>1 DEF InstallInv, CallSound, Sending
        <4> QED BY <4>2, <4>3
      <3> QED BY <3>1, <3>2
    <2>10. CallSound(k, r, created, clock)
      BY <1>0, <2>2, <2>5, <2>6, <2>7 DEF CallSound
    <2>11. Doubtless(r, net, created, [call EXCEPT ![c] = k])
      <3>1. ASSUME ~latch
            PROVE  net = {} /\ created = 0 /\ \A d \in Calls : ~Sending(call[d])
        <4>1. row.state \in {"PREPARED", "FAILED"} /\ ~row.hadUnknown
          BY <1>0, <1>2, <2>3, <3>1 DEF Acquirable, InstallInv, RowSound
        <4> QED BY <1>0, <4>1 DEF InstallInv, Doubtless
      <3>2. /\ [call EXCEPT ![c] = k][c] = k
            /\ \A d \in Calls : d # c => [call EXCEPT ![c] = k][d] = call[d]
        BY TypeShape DEF InstallInv
      <3> QED BY <2>2, <2>5, <2>6, <2>7, <3>1, <3>2 DEF Doubtless, Sending
    <2>12. tracked' \in Nat
      BY <2>1, TypeShape DEF InstallInv
    <2> QED BY <2>1, <2>5, <2>6, <2>8, <2>9, <2>10, <2>11, <2>12, RowAndCallMove
  <1> QED BY <1>1, <1>2

(* What the holder of the lease records.                                   *)
LEMMA SettleSound ==
  ASSUME Setting, InstallInv, NEW c \in Calls, NEW db \in BOOLEAN,
         SettleDispatch(c, db)
  PROVE  InstallInv'
  <1>0. /\ call[c] \in CallRecords /\ CallSound(call[c], row, created, clock)
        /\ clock \in Nat /\ call[c].at = "settle" /\ (row = NoOne \/ row \in Rows)
        /\ UNCHANGED <<receipt, created, net, content, visible, clock>>
        /\ tracked \in Nat /\ call[c].res \in Nat
    BY SMT, TypeShape DEF InstallInv, SettleDispatch, CallRecords
  <1>1. CASE Answer(c, "unknown") /\ UNCHANGED <<row, tracked>>
    BY <1>0, <1>1, AnswerSound DEF Answers
  <1>2. CASE /\ call[c].reply = "ok" /\ Held(c)
             /\ row' = [Released("SUCCEEDED") EXCEPT !.completed = TRUE, !.result = call[c].res]
             /\ tracked' = tracked + 1 /\ Answer(c, "ok")
    <2> DEFINE r == [row EXCEPT !.state = "SUCCEEDED", !.token = NoOne, !.leaseUntil = 0,
                       !.completed = TRUE, !.result = call[c].res]
               k == [IdleCall EXCEPT !.at = "done", !.answer = "ok", !.res = call[c].res]
    <2>1. row # NoOne /\ row.state = "DISPATCHING" /\ row \in Rows /\ ~row.completed
      BY <1>0, <1>2 DEF Held, InstallInv, RowSound
    <2>2. /\ r \in Rows /\ r.plan = row.plan /\ r.env = row.env /\ r.state = "SUCCEEDED"
          /\ r.retryUntil = row.retryUntil /\ r.completed = TRUE /\ r.result = call[c].res
      BY <1>0, <2>1 DEF Rows, States
    <2>3. /\ k \in CallRecords /\ k.at = "done" /\ k.done = FALSE /\ k.now = 0
          /\ k.answer = "ok" /\ k.res = call[c].res
      BY <1>0, IdleTyped DEF CallRecords, Steps, Answers
    <2>4. row' = r /\ call' = [call EXCEPT ![c] = k]
      BY <1>2, <2>1 DEF Answer, Answered, Released, Rows
    <2> HIDE DEF r, k
    <2>5. r # NoOne
      BY <2>2 DEF Setting
    <2>6. RowSound(r, tracked', clock)
      BY SMT, <1>0, <1>2, <2>1, <2>2, <2>5 DEF InstallInv, RowSound
    <2>7. FleetSound(r, receipt, created, clock) /\ NetSound(r, net)
      BY <1>0, <1>2, <2>1, <2>2, <2>5 DEF InstallInv, FleetSound, NetSound, CallSound
    <2>8. CallSound(k, r, created, clock)
      BY SMT, <1>0, <2>2, <2>3, <2>5 DEF CallSound
    <2>9. \A d \in Calls : CallSound(call[d], r, created, clock)
      BY <2>1, <2>2, <2>5 DEF InstallInv, CallSound
    <2>10. Doubtless(r, net, created, [call EXCEPT ![c] = k])
      BY <2>2, <2>5 DEF Doubtless
    <2>11. tracked' \in Nat
      BY SMT, <1>0, <1>2
    <2> QED BY <1>0, <2>2, <2>3, <2>4, <2>6, <2>7, <2>8, <2>9, <2>10, <2>11, RowAndCallMove
  <1>3. CASE /\ call[c].reply = "rejected" /\ Held(c) /\ ~row.hadUnknown
             /\ row' = Released("FAILED") /\ Answer(c, "rejected") /\ UNCHANGED tracked
    <2> DEFINE r == [row EXCEPT !.state = "FAILED", !.token = NoOne, !.leaseUntil = 0]
               k == [IdleCall EXCEPT !.at = "done", !.answer = "rejected", !.res = call[c].res]
    <2>1. /\ row # NoOne /\ row.state = "DISPATCHING" /\ row \in Rows /\ ~row.completed
          /\ row.token = c
      BY <1>0, <1>3 DEF Held, InstallInv, RowSound
    <2>2. /\ r \in Rows /\ r.plan = row.plan /\ r.env = row.env /\ r.state = "FAILED"
          /\ r.hadUnknown = row.hadUnknown
          /\ r.retryUntil = row.retryUntil /\ r.completed = row.completed
          /\ r.result = row.result
      BY <1>0, <2>1 DEF Rows, States
    <2>3. /\ k \in CallRecords /\ k.at = "done" /\ k.done = FALSE /\ k.now = 0
          /\ k.answer = "rejected"
      BY <1>0, IdleTyped DEF CallRecords, Steps, Answers
    <2>4. row' = r /\ call' = [call EXCEPT ![c] = k]
      BY <1>3 DEF Answer, Answered, Released
    <2> HIDE DEF r, k
    <2>5. r # NoOne
      BY <2>2 DEF Setting
    <2>6. RowSound(r, tracked', clock)
      BY <1>0, <1>3, <2>1, <2>2, <2>5 DEF InstallInv, RowSound
    <2>7. /\ FleetSound(r, receipt, created, clock) /\ NetSound(r, net)
          /\ \A d \in Calls : CallSound(call[d], r, created, clock)
      BY <2>1, <2>2, <2>5, SameAttempt DEF InstallInv
    <2>8. CallSound(k, r, created, clock)
      BY SMT, <1>0, <2>3 DEF CallSound
    <2>9. net = {} /\ created = 0 /\ \A d \in Calls : d # c => ~Sending(call[d])
      BY <1>0, <1>3, <2>1 DEF InstallInv, Doubtless
    <2>10. Doubtless(r, net, created, [call EXCEPT ![c] = k])
      <3>1. /\ [call EXCEPT ![c] = k][c] = k
            /\ \A d \in Calls : d # c => [call EXCEPT ![c] = k][d] = call[d]
        BY TypeShape DEF InstallInv
      <3> QED BY <2>2, <2>3, <2>5, <2>9, <3>1 DEF Doubtless, Sending
    <2>11. tracked' \in Nat
      BY <1>0, <1>3
    <2> QED BY <1>0, <2>2, <2>3, <2>4, <2>6, <2>7, <2>8, <2>10, <2>11, RowAndCallMove
  <1>4. CASE Held(c) /\ row' = SetUnknown(c) /\ Answer(c, "unknown") /\ UNCHANGED tracked
    <2> DEFINE r == [row EXCEPT !.state = "UNKNOWN", !.token = NoOne, !.leaseUntil = 0,
                       !.hadUnknown = TRUE]
               k == [IdleCall EXCEPT !.at = "done", !.answer = "unknown", !.res = call[c].res]
    <2>1. row # NoOne /\ row.state = "DISPATCHING" /\ row \in Rows /\ ~row.completed
      BY <1>0, <1>4 DEF Held, InstallInv, RowSound
    <2>2. /\ r \in Rows /\ r.plan = row.plan /\ r.env = row.env /\ r.state = "UNKNOWN"
          /\ r.hadUnknown = TRUE /\ r.retryUntil = row.retryUntil
          /\ r.completed = row.completed /\ r.result = row.result
      BY <1>0, <2>1 DEF Rows, States
    <2>3. /\ k \in CallRecords /\ k.at = "done" /\ k.done = FALSE /\ k.now = 0
          /\ k.answer = "unknown"
      BY <1>0, IdleTyped DEF CallRecords, Steps, Answers
    <2>4. row' = r /\ call' = [call EXCEPT ![c] = k]
      BY <1>4, <2>1 DEF Answer, Answered, Released, SetUnknown, Rows
    <2> HIDE DEF r, k
    <2>5. r # NoOne
      BY <2>2 DEF Setting
    <2>6. RowSound(r, tracked', clock)
      BY <1>0, <1>4, <2>1, <2>2, <2>5 DEF InstallInv, RowSound
    <2>7. /\ FleetSound(r, receipt, created, clock) /\ NetSound(r, net)
          /\ \A d \in Calls : CallSound(call[d], r, created, clock)
      BY <2>1, <2>2, <2>5, SameAttempt DEF InstallInv
    <2>8. CallSound(k, r, created, clock)
      BY SMT, <1>0, <2>3 DEF CallSound
    <2>9. Doubtless(r, net, created, [call EXCEPT ![c] = k])
      BY <2>2, <2>5 DEF Doubtless
    <2>10. tracked' \in Nat
      BY <1>0, <1>4
    <2> QED BY <1>0, <2>2, <2>3, <2>4, <2>6, <2>7, <2>8, <2>9, <2>10, RowAndCallMove
  <1> QED BY <1>1, <1>2, <1>3, <1>4 DEF SettleDispatch, SetUnknown


-----------------------------------------------------------------------------
(* The wire, Fleet and the clock.                                          *)
LEMMA SendSound ==
  ASSUME Setting, InstallInv, NEW c \in Calls, InstallCapability(c)
  PROVE  InstallInv'
  <1> DEFINE m == [by |-> c, body |-> Body(c), until |-> call[c].start + Budget]
             k == [call[c] EXCEPT !.at = "wait"]
  <1>0. /\ call[c] \in CallRecords /\ CallSound(call[c], row, created, clock)
        /\ call[c].at = "send" /\ row # NoOne /\ row \in Rows /\ row.retryUntil # 0
        /\ call[c].plan = row.plan /\ call[c].env = row.env
    BY TypeShape DEF InstallInv, InstallCapability, CallSound
  <1>1. m \in Messages /\ m.by = c /\ m.body = <<row.plan, row.env>>
    BY SMT, <1>0 DEF Messages, Body, Bodies, Rows, CallRecords, Setting
  <1>2. /\ k \in CallRecords /\ k.at = "wait" /\ k.plan = call[c].plan
        /\ k.env = call[c].env /\ k.done = call[c].done /\ k.stored = call[c].stored
        /\ k.now = call[c].now /\ k.answer = call[c].answer /\ k.res = call[c].res
    BY <1>0 DEF CallRecords, Steps
  <1>3. net' = net \cup {m} /\ call' = [call EXCEPT ![c] = k]
        /\ UNCHANGED <<row, receipt, created, content, visible, tracked, clock>>
    BY DEF InstallCapability, Goto
  <1> HIDE DEF m, k
  <1>4. /\ call' \in [Calls -> CallRecords] /\ call'[c] = k
        /\ \A d \in Calls : d # c => call'[d] = call[d]
    BY <1>2, <1>3, TypeShape DEF InstallInv
  <1>5. net' \subseteq Messages
    BY <1>1, <1>3, TypeShape DEF InstallInv
  <1>6. TypeOK'
    BY <1>3, <1>4, <1>5, TypeShape DEF InstallInv, TypeOK, CallRecords, Messages
  <1>7. NetSound(row, net')
    BY <1>0, <1>1, <1>3 DEF InstallInv, NetSound
  <1>8. CallSound(k, row, created, clock)
    BY <1>0, <1>2 DEF CallSound
  <1>9. \A d \in Calls : CallSound(call'[d], row, created, clock)
    BY <1>4, <1>8 DEF InstallInv
  <1>10. Doubtless(row, net', created, call')
    <2>1. ~(row.state \in {"PREPARED", "FAILED"} /\ ~row.hadUnknown)
      BY <1>0 DEF InstallInv, Doubtless, Sending
    <2>2. ASSUME row.state = "DISPATCHING", ~row.hadUnknown
          PROVE  /\ c = row.token /\ net = {} /\ created = 0
                 /\ \A d \in Calls : Sending(call[d]) => d = c
      BY <1>0, <2>2 DEF InstallInv, Doubtless, Sending
    <2> QED BY <1>0, <1>1, <1>2, <1>3, <1>4, <2>1, <2>2 DEF Doubtless, Sending
  <1> QED BY <1>3, <1>6, <1>7, <1>9, <1>10 DEF InstallInv

(* What is left to show when Fleet handled m: of the answered call's       *)
(* record, of the receipt and of the sends in flight.                      *)
LEMMA HandledSound ==
  ASSUME Setting, InstallInv, NEW m \in net, net' = net \ {m},
         UNCHANGED <<row, content, visible, tracked, clock>>,
         receipt' = NoOne \/ receipt' \in Receipts, created' \in Nat,
         call' \in [Calls -> CallRecords],
         FleetSound(row, receipt', created', clock),
         \A d \in Calls : CallSound(call'[d], row, created', clock),
         Doubtless(row, net', created', call')
  PROVE  InstallInv'
  <1>1. TypeOK'
    BY TypeShape DEF InstallInv, TypeOK, CallRecords, Receipts
  <1>2. NetSound(row, net')
    BY DEF InstallInv, NetSound
  <1> QED BY <1>1, <1>2 DEF InstallInv

(* Only the call that sent m, if it still waits, learns of the answer.     *)
LEMMA RepliedShape ==
  ASSUME Setting, InstallInv, NEW b \in Calls, NEW a \in Replies, NEW x \in Nat,
         Replied(b, a, x)
  PROVE  /\ call' \in [Calls -> CallRecords]
         /\ \A d \in Calls : d # b => call'[d] = call[d]
         /\ call[b].at # "wait" => call'[b] = call[b]
         /\ call[b].at = "wait" =>
              /\ call'[b].at = "settle" /\ call'[b].reply = a /\ call'[b].res = x
              /\ call'[b].done = call[b].done /\ call'[b].stored = call[b].stored
              /\ call'[b].now = call[b].now /\ call'[b].answer = call[b].answer
  <1> DEFINE k == [call[b] EXCEPT !.at = "settle", !.reply = a, !.res = x]
  <1>0. call \in [Calls -> CallRecords] /\ call[b] \in CallRecords
    BY TypeShape DEF InstallInv
  <1>1. CASE call[b].at # "wait"
    BY <1>0, <1>1 DEF Replied
  <1>2. CASE call[b].at = "wait"
    <2>1. /\ k \in CallRecords /\ k.at = "settle" /\ k.reply = a /\ k.res = x
          /\ k.done = call[b].done /\ k.stored = call[b].stored
          /\ k.now = call[b].now /\ k.answer = call[b].answer
      BY <1>0 DEF CallRecords, Steps
    <2>2. call' = [call EXCEPT ![b] = k]
      BY <1>2 DEF Replied
    <2> HIDE DEF k
    <2> QED BY <1>0, <1>2, <2>1, <2>2
  <1> QED BY <1>1, <1>2

(* While no send is in doubt, the handled message was the only one.        *)
LEMMA HandledAlone ==
  ASSUME InstallInv, NEW m \in net, row # NoOne, row.state = "DISPATCHING",
         ~row.hadUnknown
  PROVE  /\ row.token \in Calls /\ m.by = row.token /\ net \ {m} = {}
         /\ \A c \in Calls : Sending(call[c]) => c = m.by
         /\ call[m.by].at = "wait" => created = 0
         /\ call[m.by].at # "send"
         /\ ~(call[m.by].at = "settle" /\ call[m.by].reply = "rejected")
  BY DEF InstallInv, RowSound, Doubtless

LEMMA HandlesSound ==
  ASSUME Setting, InstallInv, NEW m \in net, FleetHandles(m)
  PROVE  InstallInv'
  <1>0. /\ m \in Messages /\ m.by \in Calls /\ m.body \in Bodies
        /\ row # NoOne /\ row.retryUntil # 0 /\ row \in Rows
        /\ created \in Nat /\ clock \in Nat
        /\ receipt = NoOne \/ receipt \in Receipts
    BY SMT, TypeShape DEF InstallInv, Messages, NetSound
  <1>1. /\ ~(row.state \in {"PREPARED", "FAILED"} /\ ~row.hadUnknown)
    BY <1>0 DEF InstallInv, Doubtless
  <1>2. PICK b \in Calls : b = m.by
    BY <1>0
  <1>3. /\ net' = net \ {m}
        /\ UNCHANGED <<row, content, visible, tracked, clock>>
    BY DEF FleetHandles
  (* A live receipt of this body is replayed. *)
  <1>4. CASE /\ ReceiptLive /\ Replied(m.by, "ok", receipt.res)
             /\ UNCHANGED <<receipt, created>>
    <2>1. /\ receipt # NoOne /\ receipt.res \in Nat /\ receipt.res = created /\ created > 0
      BY <1>0, <1>4 DEF ReceiptLive, Receipts, InstallInv, FleetSound
    <2>2. PICK x \in Nat : x = receipt.res
      BY <2>1
    <2>3. Replied(b, "ok", x)
      BY <1>2, <1>4, <2>2
    <2>4. /\ call' \in [Calls -> CallRecords]
          /\ \A d \in Calls : d # b => call'[d] = call[d]
          /\ call[b].at # "wait" => call'[b] = call[b]
          /\ call[b].at = "wait" =>
              /\ call'[b].at = "settle" /\ call'[b].reply = "ok" /\ call'[b].res = x
              /\ call'[b].done = call[b].done /\ call'[b].stored = call[b].stored
              /\ call'[b].now = call[b].now /\ call'[b].answer = call[b].answer
      BY <2>3, RepliedShape DEF Replies
    <2>5. \A d \in Calls : CallSound(call'[d], row, created, clock)
      <3>1. ASSUME call[b].at = "wait" PROVE CallSound(call'[b], row, created, clock)
        <4>1. CallSound(call[b], row, created, clock)
          BY DEF InstallInv
        <4>2. call[b].answer # "ok"
          BY <3>1, <4>1 DEF CallSound
        <4> QED BY <1>0, <2>1, <2>2, <2>4, <3>1, <4>1, <4>2 DEF CallSound
      <3> QED BY <2>4, <3>1 DEF InstallInv
    <2>6. Doubtless(row, net', created, call')
      BY SMT, <1>0, <1>1, <1>2, <1>3, <2>4, HandledAlone DEF Doubtless, Sending
    <2> QED BY <1>0, <1>3, <1>4, <2>4, <2>5, <2>6, HandledSound DEF InstallInv
  (* No receipt is live: Fleet installs, for the second time only when the   *)
  (* retry deadline has passed.                                              *)
  <1>5. CASE /\ ~ReceiptLive /\ created' = created + 1
             /\ receipt' = [body |-> m.body, res |-> created + 1, at |-> clock]
             /\ Replied(m.by, "ok", created + 1)
    <2>1. PICK x \in Nat : x = created + 1
      BY SMT, <1>0
    <2>2. /\ created' = x /\ x > 0 /\ receipt' \in Receipts
          /\ receipt'.res = x /\ receipt'.at = clock
      BY SMT, <1>0, <1>5, <2>1 DEF Receipts
    <2>3. Replied(b, "ok", x)
      BY <1>2, <1>5, <2>1
    <2>4. /\ call' \in [Calls -> CallRecords]
          /\ \A d \in Calls : d # b => call'[d] = call[d]
          /\ call[b].at # "wait" => call'[b] = call[b]
          /\ call[b].at = "wait" =>
              /\ call'[b].at = "settle" /\ call'[b].reply = "ok" /\ call'[b].res = x
              /\ call'[b].done = call[b].done /\ call'[b].stored = call[b].stored
              /\ call'[b].now = call[b].now /\ call'[b].answer = call[b].answer
      BY <2>3, RepliedShape DEF Replies
    <2>5. created = 0 \/ clock >= row.retryUntil
      BY SMT, <1>0, <1>5
         DEF InstallInv, FleetSound, ReceiptLive, Receipts, Rows, Setting
    <2>6. FleetSound(row, receipt', created', clock)
      <3>1. receipt' # NoOne /\ row.retryUntil =< receipt'.at + Window
        BY <1>0, <2>2 DEF InstallInv, RowSound, Setting
      <3> QED BY SMT, <1>0, <2>1, <2>2, <2>5, <3>1
                 DEF InstallInv, FleetSound, Rows
    <2>7. \A d \in Calls : CallSound(call'[d], row, created', clock)
      <3>1. ASSUME call[b].at = "wait" PROVE CallSound(call'[b], row, created', clock)
        <4>1. CallSound(call[b], row, created, clock)
          BY DEF InstallInv
        <4>2. call[b].answer # "ok"
          BY <3>1, <4>1 DEF CallSound
        <4> QED BY <1>0, <2>2, <2>4, <3>1, <4>1, <4>2 DEF CallSound
      <3>2. ASSUME NEW d \in Calls, d # b \/ call[b].at # "wait"
            PROVE  CallSound(call'[d], row, created', clock)
        <4>1. CallSound(call[d], row, created, clock) /\ call'[d] = call[d]
          BY <2>4, <3>2 DEF InstallInv
        <4>2. call[d].at = "settle" /\ call[d].reply = "ok" =>
                ~(clock < row.retryUntil)
          BY SMT, <1>0, <2>5, <4>1 DEF CallSound, Rows
        <4> QED BY <1>0, <2>2, <4>1, <4>2 DEF CallSound
      <3> QED BY <3>1, <3>2
    <2>8. Doubtless(row, net', created', call')
      BY SMT, <1>0, <1>1, <1>2, <1>3, <2>4, HandledAlone DEF Doubtless, Sending
    <2> QED BY <1>0, <1>3, <2>2, <2>4, <2>6, <2>7, <2>8, HandledSound
  (* A rejection creates nothing. *)
  <1>6. CASE Replied(m.by, "rejected", 0) /\ UNCHANGED <<receipt, created>>
    <2>1. Replied(b, "rejected", 0)
      BY <1>2, <1>6
    <2>2. /\ call' \in [Calls -> CallRecords]
          /\ \A d \in Calls : d # b => call'[d] = call[d]
          /\ call[b].at # "wait" => call'[b] = call[b]
          /\ call[b].at = "wait" =>
              /\ call'[b].at = "settle" /\ call'[b].reply = "rejected" /\ call'[b].res = 0
              /\ call'[b].done = call[b].done /\ call'[b].stored = call[b].stored
              /\ call'[b].now = call[b].now /\ call'[b].answer = call[b].answer
      BY <2>1, RepliedShape DEF Replies
    <2>3. \A d \in Calls : CallSound(call'[d], row, created, clock)
      <3>1. ASSUME call[b].at = "wait" PROVE CallSound(call'[b], row, created, clock)
        <4>1. CallSound(call[b], row, created, clock)
          BY DEF InstallInv
        <4>2. call[b].answer # "ok"
          BY <3>1, <4>1 DEF CallSound
        <4> QED BY <1>0, <2>2, <3>1, <4>1, <4>2 DEF CallSound
      <3> QED BY <2>2, <3>1 DEF InstallInv
    <2>4. Doubtless(row, net', created, call')
      BY SMT, <1>0, <1>1, <1>2, <1>3, <2>2, HandledAlone DEF Doubtless, Sending
    <2> QED BY <1>0, <1>3, <1>6, <2>2, <2>3, <2>4, HandledSound DEF InstallInv
  <1> QED BY <1>4, <1>5, <1>6 DEF FleetHandles

(* Time only loses requests and passes the deadline.                       *)
LEMMA TickSound ==
  ASSUME Setting, InstallInv, Tick
  PROVE  InstallInv'
  <1>1. /\ clock \in Nat /\ clock' = clock + 1 /\ clock' \in 0..MaxTime
        /\ net' \subseteq net
        /\ UNCHANGED <<row, receipt, created, call, content, visible, tracked>>
    BY SMT, TypeShape DEF InstallInv, Tick, Setting
  <1>2. /\ created \in Nat /\ call \in [Calls -> CallRecords]
        /\ row = NoOne \/ row \in Rows
        /\ receipt = NoOne \/ receipt \in Receipts
    BY TypeShape DEF InstallInv
  <1>3. TypeOK'
    BY <1>1, TypeShape DEF InstallInv, TypeOK
  <1>4. RowSound(row, tracked, clock')
    <2>1. RowSound(row, tracked, clock)
      BY DEF InstallInv
    <2>2. \A n \in Nat : n =< clock + Window => n =< clock' + Window
      BY SMT, <1>1 DEF Setting
    <2> QED BY <1>1, <1>2, <2>1, <2>2 DEF RowSound, Rows
  <1>5. FleetSound(row, receipt, created, clock')
    BY SMT, <1>1, <1>2 DEF InstallInv, FleetSound, Rows
  <1>6. \A c \in Calls : CallSound(call[c], row, created, clock')
    <2>1. ASSUME NEW c \in Calls PROVE CallSound(call[c], row, created, clock')
      <3>1. call[c] \in CallRecords /\ CallSound(call[c], row, created, clock)
        BY <1>2 DEF InstallInv
      <3>2. call[c].now =< clock'
        BY SMT, <1>1, <3>1 DEF CallSound, CallRecords
      <3>3. row # NoOne /\ clock' < row.retryUntil => clock < row.retryUntil
        BY SMT, <1>1, <1>2 DEF Rows
      <3> QED BY <3>1, <3>2, <3>3 DEF CallSound
    <2> QED BY <2>1
  <1>7. NetSound(row, net') /\ Doubtless(row, net', created, call)
    BY <1>1 DEF InstallInv, NetSound, Doubtless
  <1> QED BY <1>1, <1>3, <1>4, <1>5, <1>6, <1>7 DEF InstallInv

LEMMA MarketSound ==
  ASSUME Setting, InstallInv, Republish \/ Govern
  PROVE  InstallInv'
  <1>1. /\ content' \in Contents /\ visible' \in BOOLEAN
        /\ UNCHANGED <<row, receipt, created, net, call, tracked, clock>>
    <2>1. content \in Contents /\ visible \in BOOLEAN
      BY TypeShape DEF InstallInv
    <2>2. CASE Republish
      BY SMT, <2>1, <2>2 DEF Republish, Contents, Setting
    <2>3. CASE Govern
      BY <2>1, <2>3 DEF Govern
    <2> QED BY <2>2, <2>3
  <1> QED BY <1>1 DEF InstallInv, TypeOK

LEMMA InstallInitially ==
  ASSUME Setting, Init
  PROVE  InstallInv
  <1>1. \A c \in Calls : call[c] = IdleCall
    BY DEF Init
  <1>2. TypeOK
    <2>1. call \in [Calls -> CallRecords]
      BY IdleTyped DEF Init
    <2>2. content \in Contents /\ clock \in 0..MaxTime /\ created \in Nat /\ tracked \in Nat
      BY SMT DEF Init, Contents, Setting
    <2> QED BY <2>1, <2>2, TypeShape DEF Init
  <1>3. \A c \in Calls : CallSound(call[c], row, created, clock)
    <2>1. clock = 0 /\ \A c \in Calls : call[c].at = "idle" /\ call[c].done = FALSE
            /\ call[c].now = 0 /\ call[c].answer = "none"
      BY <1>1, IdleTyped DEF Init
    <2> QED BY SMT, <2>1 DEF CallSound
  <1>4. Doubtless(row, net, created, call)
    BY <1>1, IdleTyped DEF Init, Doubtless, Sending
  <1>5. RowSound(row, tracked, clock) /\ FleetSound(row, receipt, created, clock)
        /\ NetSound(row, net)
    BY DEF Init, RowSound, FleetSound, NetSound
  <1> QED BY <1>2, <1>3, <1>4, <1>5 DEF InstallInv

LEMMA InstallStep ==
  ASSUME Setting, InstallInv, [Next]_vars
  PROVE  InstallInv'
  <1>1. CASE UNCHANGED vars
    BY <1>1 DEF vars, InstallInv, TypeOK
  <1>2. ASSUME NEW c \in Calls, NEW e \in Envs, Begin(c, e) PROVE InstallInv'
    BY <1>2, BeginSound
  <1>3. ASSUME NEW c \in Calls,
               \/ ReadAttempt(c) \/ ResolvePlan(c) \/ ClaimInstallAttempt(c)
               \/ CheckGovernance(c) \/ CheckWindow(c) \/ AcquireInstallDispatch(c)
        PROVE  InstallInv'
    BY <1>3, ReadSound, ResolveSound, ClaimSound, GovernanceSound, WindowSound, AcquireSound
  <1>4. ASSUME NEW c \in Calls, NEW db \in BOOLEAN, SettleDispatch(c, db) PROVE InstallInv'
    BY <1>4, SettleSound
  <1>5. ASSUME NEW c \in Calls,
               SettleReplay(c) \/ InstallCapability(c) \/ OutcomeUnknown(c) \/ Abandon(c)
        PROVE  InstallInv'
    BY <1>5, ReplaySound, SendSound, UnknownSound, AbandonSound
  <1>6. ASSUME NEW m \in net, FleetHandles(m) PROVE InstallInv'
    BY <1>6, HandlesSound
  <1>7. CASE Republish \/ Govern \/ Tick
    BY <1>7, MarketSound, TickSound
  <1> QED BY <1>1, <1>2, <1>3, <1>4, <1>5, <1>6, <1>7 DEF Next

(* What a step may do to the row that is there.                            *)
LEMMA DeadlineStep ==
  ASSUME Setting, InstallInv, [Next]_vars
  PROVE  KeepsDeadline
  <1> SUFFICES ASSUME row # NoOne
               PROVE  /\ row.retryUntil # 0 => row'.retryUntil = row.retryUntil
                      /\ row.completed => row' = row
    BY DEF KeepsDeadline
  <1>1. row \in Rows /\ (row.completed <=> row.state = "SUCCEEDED")
    BY TypeShape DEF InstallInv, RowSound
  <1>2. ASSUME NEW c \in Calls, CheckWindow(c)
        PROVE  row' = row \/ (row.state # "SUCCEEDED" /\ row'.retryUntil = row.retryUntil)
    BY <1>1, <1>2 DEF CheckWindow, Rows
  <1>3. ASSUME NEW c \in Calls, AcquireInstallDispatch(c)
        PROVE  \/ row' = row
               \/ /\ row.state # "SUCCEEDED"
                  /\ row.retryUntil # 0 => row'.retryUntil = row.retryUntil
    BY <1>1, <1>3 DEF AcquireInstallDispatch, Acquirable, Leased, Rows
  <1>4. ASSUME NEW c \in Calls, NEW db \in BOOLEAN, SettleDispatch(c, db)
        PROVE  row' = row \/ (row.state # "SUCCEEDED" /\ row'.retryUntil = row.retryUntil)
    BY <1>1, <1>4 DEF SettleDispatch, Held, Released, SetUnknown, Rows
  <1>5. ASSUME NEW c \in Calls, ClaimInstallAttempt(c) PROVE row' = row
    BY <1>5 DEF ClaimInstallAttempt
  <1>6. ASSUME NEW c \in Calls, NEW e \in Envs,
               \/ Begin(c, e) \/ ReadAttempt(c) \/ ResolvePlan(c) \/ CheckGovernance(c)
               \/ SettleReplay(c) \/ InstallCapability(c) \/ OutcomeUnknown(c) \/ Abandon(c)
        PROVE  row' = row
    BY <1>6 DEF Begin, ReadAttempt, ResolvePlan, CheckGovernance, SettleReplay,
                InstallCapability, OutcomeUnknown, Abandon
  <1>7. CASE UNCHANGED vars \/ (\E m \in net : FleetHandles(m)) \/ Republish \/ Govern \/ Tick
    BY <1>7 DEF vars, FleetHandles, Republish, Govern, Tick
  <1>8. PICK e : e \in Envs
    BY DEF Setting
  <1> QED BY <1>1, <1>2, <1>3, <1>4, <1>5, <1>6, <1>7, <1>8 DEF Next

LEMMA InstallImplies ==
  ASSUME Setting, InstallInv
  PROVE  OneInstallation
  <1>1. created \in Nat /\ (row = NoOne \/ row \in Rows)
    BY TypeShape DEF InstallInv
  <1>2. OneWhileRetried /\ FrozenBody
    BY DEF InstallInv, OneWhileRetried, FrozenBody, FleetSound, NetSound
  <1>3. FailedMeansNothing
    BY DEF InstallInv, RowSound, Doubtless, FailedMeansNothing
  <1>4. SuccessIsTheResource
    BY SMT, <1>1
       DEF InstallInv, RowSound, FleetSound, CallSound, SuccessIsTheResource, Rows
  <1> QED BY <1>2, <1>3, <1>4 DEF OneInstallation

-----------------------------------------------------------------------------
(* The row, the receipt, the calls and the requests keep their types       *)
(* (install_attempt.go).                                                   *)
THEOREM TypeCorrect == Setting => (Spec => []TypeOK)
  <1> SUFFICES ASSUME Setting PROVE Spec => []TypeOK
    OBVIOUS
  <1>1. Init => InstallInv
    BY InstallInitially
  <1>2. InstallInv /\ [Next]_vars => InstallInv'
    BY InstallStep
  <1>3. InstallInv => TypeOK
    BY DEF InstallInv
  <1> QED BY <1>1, <1>2, <1>3, PTL DEF Spec

(* However many duplicates, retries, lease take-overs and lost answers a   *)
(* key sees: one installation while retries are admitted, FAILED only when *)
(* nothing was installed, one body, and one success that names Fleet's     *)
(* resource (createPinnedInstallation).                                    *)
THEOREM OneKeyOneInstallation == Setting => (Spec => []OneInstallation)
  <1> SUFFICES ASSUME Setting PROVE Spec => []OneInstallation
    OBVIOUS
  <1>1. Init => InstallInv
    BY InstallInitially
  <1>2. InstallInv /\ [Next]_vars => InstallInv'
    BY InstallStep
  <1>3. InstallInv => OneInstallation
    BY InstallImplies
  <1> QED BY <1>1, <1>2, <1>3, PTL DEF Spec

(* The deadline the first lease sets is never moved and a recorded success *)
(* is final (AcquireInstallDispatch, CompleteInstallAttempt).              *)
THEOREM AttemptsAreFinal == Setting => (Spec => HistoryKept)
  <1> SUFFICES ASSUME Setting PROVE Spec => HistoryKept
    OBVIOUS
  <1>1. Init => InstallInv
    BY InstallInitially
  <1>2. InstallInv /\ [Next]_vars => InstallInv'
    BY InstallStep
  <1>3. InstallInv /\ [Next]_vars => [KeepsDeadline]_vars
    BY DeadlineStep
  <1> QED BY <1>1, <1>2, <1>3, PTL DEF Spec, HistoryKept

-----------------------------------------------------------------------------
(* Installations without a record: what a caller may rely on.  The         *)
(* argument: a call that was refused, or saw a receipt, has nothing on the *)
(* wire and created nothing (Inactive); a receipt describes a resource     *)
(* that exists; and where only one resource exists, every mismatch was a   *)
(* comparison with that one.                                               *)

CapSteps == {"new", "load", "probe", "send", "wait", "mismatch", "first", "second", "ended"}
Refusals == {"rejected", "mismatch", "gone", "tooLarge"}
CapAnswers == {None, "ok", "unknown"} \cup Refusals
CapCalls == [at : CapSteps, keyed : BOOLEAN, explicit : BOOLEAN, has : BOOLEAN,
                content : 0..MaxSource, answer : CapAnswers, res : Cap!Resources \cup {None}]

(* What the proofs assume of the constants: None is none of the calls,     *)
(* answers and resources.                                                  *)
CapSetting ==
  /\ MaxSource \in Nat \ {0} /\ MaxFaults \in Nat
  /\ None \notin Callers /\ None \notin {"ok", "unknown"} \cup Refusals /\ None \notin Cap!Resources

CapTyped ==
  /\ flavor \in {"plugin", "expert"} /\ heavy \subseteq Cap!Wires /\ source \in 1..MaxSource
  /\ kept = None \/ kept \in Cap!Resources
  /\ made \subseteq Cap!Resources
  /\ wire \subseteq Callers /\ counted \subseteq Callers /\ faults \in 0..MaxFaults
  /\ ask \in [Callers -> CapCalls]

(* Fleet: what a receipt describes exists, and what was installed here is  *)
(* of the current wire.                                                    *)
CapFleet(rc, C) ==
  /\ rc # None => rc \in C
  /\ \A r \in C : r.by # None => r.body[1] = "current"

(* The call has created nothing, and nothing of it is on the wire.         *)
Inactive(c, N, C) == c \notin N /\ \A r \in C : r.by # c

CapCall(c, k, N, C, f) ==
  /\ k.at \notin {"wait", "ended"} => Inactive(c, N, C)
  /\ c \in N => \A r \in C : r.by # c
  /\ k.at = "wait" => c \in N
  /\ k.has => k.at # "send" /\ Inactive(c, N, C)
  /\ k.answer # None => k.at = "ended"
  /\ k.answer = "ok" => k.res \in C
  /\ k.answer \in Refusals => Inactive(c, N, C)
  /\ k.at = "send" \/ c \in N \/ (k.at = "probe" /\ f = "expert") => k.content # 0

Tried(k) == IF k.explicit THEN {"current"} ELSE Cap!Wires
FirstOf(f) == IF f = "plugin" THEN "legacy" ELSE "current"

(* What a call on its way to a mismatch compared its body with.            *)
MismatchSound(k, C, rc, f) ==
  /\ k.at = "mismatch" => \E r \in C : r.body # <<"current", k.content>>
  /\ k.at = "second" => \E r \in C : r.body # <<FirstOf(f), k.content>>
  /\ k.answer = "mismatch" =>
       /\ C # {}
       /\ \A r \in C : C = {r} /\ rc # None => r.body \notin {<<w, k.content>> : w \in Tried(k)}

CapInv ==
  /\ CapTyped
  /\ CapFleet(kept, made)
  /\ \A c \in Callers : CapCall(c, ask[c], wire, made, flavor)
  /\ heavy = {} => \A c \in Callers : MismatchSound(ask[c], made, kept, flavor)
  /\ counted = {c \in Callers : ask[c].answer = "ok"}

-----------------------------------------------------------------------------
(* Numbers of contents, and a failure below the bound.                     *)
LEMMA AtLeastOne ==
  ASSUME MaxSource \in Nat, NEW n \in 1..MaxSource
  PROVE  n \in 0..MaxSource /\ n # 0 /\ (n < MaxSource => n + 1 \in 1..MaxSource)
  BY SMT

LEMMA OneMoreFault ==
  ASSUME MaxFaults \in Nat, NEW n \in 0..MaxFaults, n < MaxFaults
  PROVE  n + 1 \in 0..MaxFaults
  BY SMT

(* One call moves; the rest of Fleet and of the calls is as it was.        *)
LEMMA OneMoves ==
  ASSUME CapSetting, CapInv, NEW c \in Callers, NEW k \in CapCalls,
         ask' = [ask EXCEPT ![c] = k], ask[c].answer = None,
         UNCHANGED <<flavor, heavy, source>>,
         kept' = None \/ kept' \in Cap!Resources, made' \subseteq Cap!Resources,
         wire' \subseteq Callers, faults' \in 0..MaxFaults,
         counted' = IF k.answer = "ok" THEN counted \cup {c} ELSE counted,
         CapFleet(kept', made'),
         CapCall(c, k, wire', made', flavor),
         heavy = {} => MismatchSound(k, made', kept', flavor),
         \A d \in Callers : d # c => CapCall(d, ask[d], wire', made', flavor),
         \A d \in Callers : d # c /\ heavy = {} =>
           MismatchSound(ask[d], made', kept', flavor)
  PROVE  CapInv'
  <1>1. /\ ask' \in [Callers -> CapCalls] /\ ask'[c] = k
        /\ \A d \in Callers : d # c => ask'[d] = ask[d]
    BY DEF CapInv, CapTyped
  <1>2. counted' = {d \in Callers : ask'[d].answer = "ok"}
    BY <1>1 DEF CapInv, CapSetting
  <1>3. CapTyped'
    BY <1>1, <1>2 DEF CapInv, CapTyped
  <1>4. \A d \in Callers : CapCall(d, ask'[d], wire', made', flavor)
    BY <1>1
  <1>5. heavy = {} => \A d \in Callers : MismatchSound(ask'[d], made', kept', flavor)
    BY <1>1
  <1> QED BY <1>2, <1>3, <1>4, <1>5 DEF CapInv

(* The same when Fleet does not change and the call may only put itself on *)
(* the wire or leave it.                                                   *)
LEMMA OneAlone ==
  ASSUME CapSetting, CapInv, NEW c \in Callers, NEW k \in CapCalls,
         ask' = [ask EXCEPT ![c] = k], ask[c].answer = None,
         UNCHANGED <<flavor, heavy, source, kept, made>>,
         wire' \in {wire, wire \cup {c}, wire \ {c}}, faults' \in 0..MaxFaults,
         counted' = IF k.answer = "ok" THEN counted \cup {c} ELSE counted,
         CapCall(c, k, wire', made, flavor),
         heavy = {} => MismatchSound(k, made, kept, flavor)
  PROVE  CapInv'
  <1>1. wire' \subseteq Callers /\ \A d \in Callers : d # c => (d \in wire' <=> d \in wire)
    BY DEF CapInv, CapTyped
  <1>2. \A d \in Callers : d # c => CapCall(d, ask[d], wire', made, flavor)
    BY <1>1 DEF CapInv, CapCall, Inactive
  <1> QED BY <1>1, <1>2, OneMoves DEF CapInv, CapTyped

(* A call that ends with the answer a, not with success.                   *)
LEMMA EndSound ==
  ASSUME CapSetting, CapInv, NEW c \in Callers, NEW a \in {"unknown"} \cup Refusals,
         ask' = [ask EXCEPT ![c].at = "ended", ![c].answer = a],
         ask[c].at # "ended",
         UNCHANGED <<flavor, heavy, source, kept, made, counted>>,
         wire' \in {wire, wire \ {c}}, faults' \in 0..MaxFaults,
         a \in Refusals => Inactive(c, wire', made),
         a = "mismatch" /\ heavy = {} =>
           /\ made # {}
           /\ \A r \in made : made = {r} /\ kept # None =>
                r.body \notin {<<w, ask[c].content>> : w \in Tried(ask[c])}
  PROVE  CapInv'
  <1> DEFINE k == [ask[c] EXCEPT !.at = "ended", !.answer = a]
  <1>1. ask[c] \in CapCalls /\ CapCall(c, ask[c], wire, made, flavor)
    BY DEF CapInv, CapTyped
  <1>2. /\ k \in CapCalls /\ k.at = "ended" /\ k.answer = a /\ k.has = ask[c].has
        /\ k.explicit = ask[c].explicit /\ k.content = ask[c].content
    BY <1>1 DEF CapCalls, CapSteps, CapAnswers
  <1>3. ask' = [ask EXCEPT ![c] = k]
    OBVIOUS
  <1> HIDE DEF k
  <1>4. a # "ok" /\ a # None /\ ask[c].answer = None
    BY <1>1 DEF CapSetting, Refusals, CapCall
  <1>5. CapCall(c, k, wire', made, flavor)
    BY <1>1, <1>2, <1>4 DEF CapCall, Inactive
  <1>6. heavy = {} => MismatchSound(k, made, kept, flavor)
    BY <1>2 DEF MismatchSound, Tried
  <1> QED BY <1>2, <1>3, <1>4, <1>5, <1>6, OneAlone

(* A call that succeeds with a resource that exists.                       *)
LEMMA SuccessSound ==
  ASSUME CapSetting, CapInv, NEW c \in Callers, NEW x \in made, Cap!Succeeds(c, x),
         ask[c].at # "ended",
         UNCHANGED <<flavor, heavy, source, kept, made, faults>>,
         wire' \in {wire, wire \ {c}}
  PROVE  CapInv'
  <1> DEFINE k == [ask[c] EXCEPT !.at = "ended", !.answer = "ok", !.res = x]
  <1>1. ask[c] \in CapCalls /\ CapCall(c, ask[c], wire, made, flavor)
    BY DEF CapInv, CapTyped
  <1>2. /\ k \in CapCalls /\ k.at = "ended" /\ k.answer = "ok" /\ k.res = x
        /\ k.has = ask[c].has /\ k.content = ask[c].content
    BY <1>1 DEF CapInv, CapTyped, CapCalls, CapSteps, CapAnswers
  <1>3. ask' = [ask EXCEPT ![c] = k] /\ counted' = counted \cup {c}
    BY DEF Cap!Succeeds
  <1> HIDE DEF k
  <1>4. ask[c].answer = None
    BY <1>1 DEF CapCall
  <1>5. CapCall(c, k, wire', made, flavor)
    BY <1>1, <1>2 DEF CapCall, Inactive, Refusals
  <1>6. heavy = {} => MismatchSound(k, made, kept, flavor)
    BY <1>2 DEF MismatchSound
  <1>7. faults' \in 0..MaxFaults
    BY DEF CapInv, CapTyped
  <1> QED BY <1>2, <1>3, <1>4, <1>5, <1>6, <1>7, OneAlone

(* The receipt that is replayed.                                           *)
LEMMA ReplaySuccess ==
  ASSUME CapSetting, CapInv, NEW c \in Callers, Cap!Succeeds(c, kept), kept # None,
         ask[c].at # "ended",
         UNCHANGED <<flavor, heavy, source, kept, made, faults>>,
         wire' \in {wire, wire \ {c}}
  PROVE  CapInv'
  <1>1. PICK x \in made : x = kept
    BY DEF CapInv, CapFleet
  <1>2. Cap!Succeeds(c, x)
    BY <1>1
  <1> QED BY <1>2, SuccessSound


-----------------------------------------------------------------------------
(* The steps before the send.                                              *)
LEMMA CapBegin ==
  ASSUME CapSetting, CapInv, NEW c \in Callers, NEW keyed \in BOOLEAN,
         NEW explicit \in BOOLEAN, Cap!Begin(c, keyed, explicit)
  PROVE  CapInv'
  <1> DEFINE stage == IF keyed /\ ~explicit /\ flavor = "plugin" THEN "probe" ELSE "load"
             k == [ask[c] EXCEPT !.keyed = keyed, !.explicit = explicit, !.at = stage]
  <1>1. /\ ask[c] \in CapCalls /\ CapCall(c, ask[c], wire, made, flavor)
        /\ ask[c].at = "new"
    BY DEF CapInv, CapTyped, Cap!Begin
  <1>2. stage \in {"probe", "load"} /\ (stage = "probe" => flavor # "expert")
    OBVIOUS
  <1>3. ask' = [ask EXCEPT ![c] = k]
        /\ UNCHANGED <<flavor, heavy, source, kept, made, wire, counted, faults>>
    BY DEF Cap!Begin, Cap!World, Cap!Fleet
  <1> HIDE DEF stage
  <1>4. /\ k \in CapCalls /\ k.at = stage /\ k.answer = ask[c].answer
        /\ k.has = ask[c].has /\ k.res = ask[c].res /\ k.content = ask[c].content
    BY <1>1, <1>2 DEF CapCalls, CapSteps
  <1> HIDE DEF k
  <1>5. ask[c].answer = None
    BY <1>1 DEF CapCall
  <1>6. CapCall(c, k, wire, made, flavor)
    BY <1>1, <1>2, <1>4 DEF CapCall
  <1>7. MismatchSound(k, made, kept, flavor)
    BY <1>2, <1>4, <1>5 DEF MismatchSound, CapSetting, Refusals
  <1>8. faults' \in 0..MaxFaults
    BY <1>3 DEF CapInv, CapTyped
  <1> QED BY <1>3, <1>4, <1>5, <1>6, <1>7, <1>8, OneAlone DEF CapSetting

LEMMA CapProbe ==
  ASSUME CapSetting, CapInv, NEW c \in Callers, Cap!HasCapabilityInstallationReceipt(c)
  PROVE  CapInv'
  <1>1. /\ ask[c] \in CapCalls /\ CapCall(c, ask[c], wire, made, flavor)
        /\ ask[c].at = "probe" /\ faults \in 0..MaxFaults
        /\ UNCHANGED <<flavor, heavy, source, kept, made, wire, counted>>
    BY DEF CapInv, CapTyped, Cap!HasCapabilityInstallationReceipt, Cap!World, Cap!Fleet
  <1>2. ask[c].answer = None
    BY <1>1 DEF CapCall
  <1>3. CASE faults < MaxFaults /\ faults' = faults + 1 /\ Cap!Ends(c, "unknown")
    <2>1. faults' \in 0..MaxFaults
      BY <1>1, <1>3, OneMoreFault DEF CapSetting
    <2> QED BY <1>1, <1>3, <2>1, EndSound DEF Cap!Ends, Refusals
  <1>4. CASE /\ ask' = [ask EXCEPT ![c].has = kept # None,
                           ![c].at = IF flavor = "plugin" THEN "load"
                                     ELSE Cap!installDefaultOperation(kept # None)]
             /\ UNCHANGED faults
    <2> DEFINE has == kept # None
               stage == IF flavor = "plugin" THEN "load" ELSE Cap!installDefaultOperation(has)
               k == [ask[c] EXCEPT !.has = has, !.at = stage]
    <2>1. /\ stage \in {"load", "first", "send"} /\ has \in BOOLEAN
          /\ stage = "send" => ~has /\ flavor # "plugin"
      BY DEF Cap!installDefaultOperation
    <2>2. ask' = [ask EXCEPT ![c] = k]
      BY <1>4
    <2> HIDE DEF stage, has
    <2>3. /\ k \in CapCalls /\ k.at = stage /\ k.answer = ask[c].answer
          /\ k.has = has /\ k.content = ask[c].content
      BY <1>1, <2>1 DEF CapCalls, CapSteps
    <2> HIDE DEF k
    <2>4. stage = "send" => k.content # 0
      BY <1>1, <2>1, <2>3 DEF CapCall, CapInv, CapTyped
    <2>5. CapCall(c, k, wire, made, flavor)
      BY <1>1, <1>2, <2>1, <2>3, <2>4 DEF CapCall, Refusals, CapSetting, Inactive
    <2>6. MismatchSound(k, made, kept, flavor)
      BY <1>2, <2>1, <2>3 DEF MismatchSound, CapSetting, Refusals
    <2> QED BY <1>1, <1>2, <1>4, <2>2, <2>3, <2>5, <2>6, OneAlone DEF CapSetting
  <1> QED BY <1>3, <1>4 DEF Cap!HasCapabilityInstallationReceipt

LEMMA LoadSound ==
  ASSUME CapSetting, CapInv, NEW c \in Callers, Cap!Load(c)
  PROVE  CapInv'
  <1> DEFINE stage == IF flavor = "expert" /\ ask[c].keyed THEN "probe"
                   ELSE Cap!installDefaultOperation(ask[c].has)
             k == [ask[c] EXCEPT !.content = source, !.at = stage]
  <1>1. /\ ask[c] \in CapCalls /\ CapCall(c, ask[c], wire, made, flavor)
        /\ ask[c].at = "load" /\ faults \in 0..MaxFaults /\ source \in 1..MaxSource
        /\ UNCHANGED <<flavor, heavy, source, kept, made, wire, counted, faults>>
    BY DEF CapInv, CapTyped, Cap!Load, Cap!World, Cap!Fleet
  <1>2. stage \in {"probe", "first", "send"} /\ (stage = "send" => ~ask[c].has)
    BY DEF Cap!installDefaultOperation
  <1>3. ask' = [ask EXCEPT ![c] = k]
    BY DEF Cap!Load, Cap!resolveInstallDetail
  <1>4. source \in 0..MaxSource /\ source # 0
    BY <1>1, AtLeastOne DEF CapSetting
  <1> HIDE DEF stage
  <1>5. /\ k \in CapCalls /\ k.at = stage /\ k.answer = ask[c].answer
        /\ k.has = ask[c].has /\ k.content = source
    BY <1>1, <1>2, <1>4 DEF CapCalls, CapSteps
  <1> HIDE DEF k
  <1>6. ask[c].answer = None
    BY <1>1 DEF CapCall
  <1>7. CapCall(c, k, wire, made, flavor)
    BY <1>1, <1>2, <1>4, <1>5, <1>6 DEF CapCall, Refusals, CapSetting
  <1>8. MismatchSound(k, made, kept, flavor)
    BY <1>2, <1>5, <1>6 DEF MismatchSound, CapSetting, Refusals
  <1> QED BY <1>1, <1>3, <1>5, <1>6, <1>7, <1>8, OneAlone DEF CapSetting

LEMMA CapSend ==
  ASSUME CapSetting, CapInv, NEW c \in Callers, Cap!InstallCapability(c)
  PROVE  CapInv'
  <1>1. /\ ask[c] \in CapCalls /\ CapCall(c, ask[c], wire, made, flavor)
        /\ ask[c].at = "send" /\ faults' \in 0..MaxFaults
        /\ UNCHANGED <<flavor, heavy, source, kept, made, counted, faults>>
    BY DEF CapInv, CapTyped, Cap!InstallCapability, Cap!World
  <1>2. ask[c].answer = None /\ Inactive(c, wire, made)
    BY <1>1 DEF CapCall
  <1>3. CASE "current" \in heavy
    BY <1>1, <1>2, <1>3, EndSound DEF Cap!InstallCapability, Cap!Ends, Refusals
  <1>4. CASE "current" \notin heavy
    <2> DEFINE k == [ask[c] EXCEPT !.at = "wait"]
    <2>1. /\ k \in CapCalls /\ k.at = "wait" /\ k.answer = None
          /\ k.has = ask[c].has /\ k.content = ask[c].content
      BY <1>1, <1>2 DEF CapCalls, CapSteps
    <2>2. ask' = [ask EXCEPT ![c] = k] /\ wire' = wire \cup {c}
      BY <1>4 DEF Cap!InstallCapability, Cap!Goes
    <2> HIDE DEF k
    <2>3. CapCall(c, k, wire', made, flavor)
      BY <1>1, <1>2, <2>1, <2>2 DEF CapCall, Refusals, CapSetting, Inactive
    <2>4. MismatchSound(k, made, kept, flavor)
      BY <2>1 DEF MismatchSound, CapSetting, Refusals
    <2> QED BY <1>1, <1>2, <2>1, <2>2, <2>3, <2>4, OneAlone DEF CapSetting
  <1> QED BY <1>3, <1>4

LEMMA UnansweredSound ==
  ASSUME CapSetting, CapInv, NEW c \in Callers, Cap!Unanswered(c)
  PROVE  CapInv'
  <1>1. /\ ask[c].at = "wait" /\ Cap!Ends(c, "unknown")
        /\ UNCHANGED <<flavor, heavy, source, kept, made, wire, counted>>
    BY DEF Cap!Unanswered, Cap!World, Cap!Fleet
  <1>2. faults' \in 0..MaxFaults
    <2>1. faults \in 0..MaxFaults /\ MaxFaults \in Nat
      BY DEF CapInv, CapTyped, CapSetting
    <2>2. faults' = faults \/ (faults < MaxFaults /\ faults' = faults + 1)
      BY DEF Cap!Unanswered
    <2> QED BY <2>1, <2>2, OneMoreFault
  <1> QED BY <1>1, <1>2, EndSound DEF Cap!Ends, Refusals


-----------------------------------------------------------------------------
(* Fleet handles an installation.                                          *)

(* The answer reaches nobody: the caller has given up.                     *)
LEMMA LateSound ==
  ASSUME CapSetting, CapInv, NEW c \in Callers, wire' = wire \ {c},
         UNCHANGED <<flavor, heavy, source, kept, made, ask, counted, faults>>,
         ask[c].at # "wait"
  PROVE  CapInv'
  <1>1. \A d \in Callers : CapCall(d, ask[d], wire', made, flavor)
    BY DEF CapInv, CapCall, Inactive
  <1>2. CapTyped'
    BY DEF CapInv, CapTyped
  <1> QED BY <1>1, <1>2 DEF CapInv

LEMMA OnTheWire ==
  ASSUME CapInv, NEW c \in wire
  PROVE  /\ c \in Callers /\ ask[c] \in CapCalls
         /\ CapCall(c, ask[c], wire, made, flavor)
         /\ ask[c].at \in {"wait", "ended"} /\ ask[c].content \in 1..MaxSource
         /\ ~ask[c].has /\ Inactive(c, wire \ {c}, made)
  <1>1. /\ c \in Callers /\ ask[c] \in CapCalls
        /\ CapCall(c, ask[c], wire, made, flavor)
    BY DEF CapInv, CapTyped
  <1>2. ask[c].content \in 1..MaxSource
    BY SMT, <1>1 DEF CapCall, CapCalls
  <1> QED BY <1>1, <1>2 DEF CapCall, Inactive

(* Fleet refuses: the receipt holds another body.                          *)
LEMMA RefusedSound ==
  ASSUME CapSetting, CapInv, NEW c \in wire, wire' = wire \ {c}, ask[c].at = "wait",
         kept # None, kept.body # Cap!Body(c, "current"),
         IF ask[c].explicit THEN Cap!Ends(c, "mismatch") ELSE Cap!Goes(c, "mismatch"),
         UNCHANGED <<flavor, heavy, source, kept, made, counted, faults>>
  PROVE  CapInv'
  <1>1. /\ c \in Callers /\ ask[c] \in CapCalls
        /\ CapCall(c, ask[c], wire, made, flavor)
        /\ Inactive(c, wire', made)
    BY OnTheWire
  <1>2. /\ faults' \in 0..MaxFaults
        /\ \E r \in made : r.body # <<"current", ask[c].content>>
    BY DEF CapInv, CapTyped, CapFleet, Cap!Body
  <1>3. CASE ask[c].explicit
    <2>1. /\ made # {}
          /\ \A r \in made : made = {r} =>
               r.body \notin {<<w, ask[c].content>> : w \in Tried(ask[c])}
      BY <1>2, <1>3 DEF Tried
    <2>2. Cap!Ends(c, "mismatch") /\ "mismatch" \in Refusals
      BY <1>3 DEF Refusals
    <2> QED BY <1>1, <1>2, <2>1, <2>2, EndSound DEF Cap!Ends
  <1>4. CASE ~ask[c].explicit
    <2> DEFINE k == [ask[c] EXCEPT !.at = "mismatch"]
    <2>1. /\ k \in CapCalls /\ k.at = "mismatch" /\ k.answer = ask[c].answer
          /\ k.has = ask[c].has /\ k.content = ask[c].content
      BY <1>1 DEF CapCalls, CapSteps
    <2>2. ask' = [ask EXCEPT ![c] = k]
      BY <1>4 DEF Cap!Goes
    <2> HIDE DEF k
    <2>3. ask[c].answer = None
      BY <1>1 DEF CapCall
    <2>4. CapCall(c, k, wire', made, flavor)
      BY <1>1, <2>1, <2>3 DEF CapCall, Refusals, CapSetting, Inactive
    <2>5. MismatchSound(k, made, kept, flavor)
      BY <1>2, <2>1, <2>3 DEF MismatchSound, CapSetting, Refusals
    <2> QED BY <1>1, <1>2, <2>1, <2>2, <2>3, <2>4, <2>5, OneAlone DEF CapSetting
  <1> QED BY <1>3, <1>4

(* A new resource leaves what is known of the other calls as it was.       *)
LEMMA GrowsSound ==
  ASSUME CapSetting, CapInv, NEW c \in wire, NEW r \in Cap!Resources, NEW rc,
         r.by = c, r.body[1] = "current", rc = kept \/ rc = r
  PROVE  /\ made \cup {r} \subseteq Cap!Resources
         /\ rc = None \/ rc \in Cap!Resources
         /\ CapFleet(rc, made \cup {r})
         /\ \A d \in Callers : d # c =>
              CapCall(d, ask[d], wire \ {c}, made \cup {r}, flavor)
         /\ heavy = {} => \A d \in Callers :
              MismatchSound(ask[d], made \cup {r}, rc, flavor)
  <1>1. made \cup {r} \subseteq Cap!Resources /\ (rc = None \/ rc \in Cap!Resources)
    BY DEF CapInv, CapTyped
  <1>2. r \notin made
    BY OnTheWire DEF Inactive
  <1>3. CapFleet(rc, made \cup {r})
    BY DEF CapInv, CapFleet
  <1>4. \A d \in Callers : d # c =>
          CapCall(d, ask[d], wire \ {c}, made \cup {r}, flavor)
    BY DEF CapInv, CapCall, Inactive
  <1>5. ASSUME heavy = {}, NEW d \in Callers
        PROVE  MismatchSound(ask[d], made \cup {r}, rc, flavor)
    <2>1. MismatchSound(ask[d], made, kept, flavor)
      BY <1>5 DEF CapInv
    <2>2. made # {} => \A s : made \cup {r} # {s}
      BY <1>2
    <2> QED BY <2>1, <2>2 DEF MismatchSound
  <1> QED BY <1>1, <1>3, <1>4, <1>5

(* Fleet installs.                                                         *)
LEMMA InstalledSound ==
  ASSUME CapSetting, CapInv, NEW c \in wire, NEW r \in Cap!Resources,
         r.by = c, r.body[1] = "current",
         wire' = wire \ {c}, made' = made \cup {r}, kept' = kept \/ kept' = r,
         IF ask[c].at = "wait" THEN Cap!Succeeds(c, r) ELSE UNCHANGED <<ask, counted>>,
         UNCHANGED <<flavor, heavy, source, faults>>
  PROVE  CapInv'
  <1>1. /\ c \in Callers /\ ask[c] \in CapCalls
        /\ CapCall(c, ask[c], wire, made, flavor)
        /\ ask[c].at \in {"wait", "ended"} /\ ~ask[c].has
        /\ Inactive(c, wire \ {c}, made)
    BY OnTheWire
  <1>2. PICK rc : rc = kept'
    OBVIOUS
  <1>3. /\ made \cup {r} \subseteq Cap!Resources
        /\ rc = None \/ rc \in Cap!Resources
        /\ CapFleet(rc, made \cup {r})
        /\ \A d \in Callers : d # c =>
             CapCall(d, ask[d], wire \ {c}, made \cup {r}, flavor)
        /\ heavy = {} => \A d \in Callers :
             MismatchSound(ask[d], made \cup {r}, rc, flavor)
    BY <1>2, GrowsSound
  <1>4. faults' \in 0..MaxFaults /\ wire' \subseteq Callers
    BY DEF CapInv, CapTyped
  <1>5. CASE ask[c].at = "wait"
    <2> DEFINE k == [ask[c] EXCEPT !.at = "ended", !.answer = "ok", !.res = r]
    <2>1. ask' = [ask EXCEPT ![c] = k] /\ counted' = counted \cup {c}
      BY <1>5 DEF Cap!Succeeds
    <2>2. /\ k \in CapCalls /\ k.at = "ended" /\ k.answer = "ok"
          /\ k.res = r /\ k.has = ask[c].has
      BY <1>1 DEF CapCalls, CapSteps, CapAnswers
    <2> HIDE DEF k
    <2>3. ask[c].answer = None
      BY <1>1, <1>5 DEF CapCall
    <2>4. CapCall(c, k, wire', made', flavor)
      BY <1>1, <2>2 DEF CapCall, Refusals
    <2>5. MismatchSound(k, made', kept', flavor)
      BY <2>2 DEF MismatchSound
    <2> QED BY <1>1, <1>2, <1>3, <1>4, <2>1, <2>2, <2>3, <2>4, <2>5, OneMoves
  <1>6. CASE ask[c].at # "wait"
    <2>1. UNCHANGED <<ask, counted>> /\ ask[c].answer \notin Refusals
      BY <1>1, <1>6 DEF CapCall, Inactive
    <2>2. CapCall(c, ask[c], wire', made', flavor)
      BY <1>1, <1>6, <2>1 DEF CapCall
    <2>3. \A d \in Callers : CapCall(d, ask'[d], wire', made', flavor)
      BY <1>3, <2>1, <2>2
    <2>4. CapTyped'
      BY <1>2, <1>3, <1>4, <2>1 DEF CapInv, CapTyped
    <2>5. heavy = {} => \A d \in Callers : MismatchSound(ask'[d], made', kept', flavor)
      BY <1>2, <1>3, <2>1
    <2>6. CapFleet(kept', made')
      BY <1>2, <1>3
    <2> QED BY <2>1, <2>3, <2>4, <2>5, <2>6 DEF CapInv
  <1> QED BY <1>5, <1>6


LEMMA HandleSound ==
  ASSUME CapSetting, CapInv, NEW c \in Callers, Cap!Handle(c)
  PROVE  CapInv'
  <1> DEFINE b == Cap!Body(c, "current")
             waiting == ask[c].at = "wait"
             r == [by |-> c, body |-> b]
  <1>1. /\ c \in wire /\ wire' = wire \ {c}
        /\ UNCHANGED <<flavor, heavy, source, faults>>
    BY DEF Cap!Handle, Cap!World
  <1>2. /\ ask[c] \in CapCalls /\ ask[c].content \in 1..MaxSource
        /\ Inactive(c, wire', made) /\ ask[c].at \in {"wait", "ended"}
        /\ faults' \in 0..MaxFaults
    BY <1>1, OnTheWire DEF CapInv, CapTyped
  <1>3. CASE /\ ask[c].keyed /\ kept # None /\ kept.body = b
             /\ IF waiting THEN Cap!Succeeds(c, kept) ELSE UNCHANGED <<ask, counted>>
             /\ UNCHANGED <<kept, made>>
    <2>1. CASE waiting
      BY <1>1, <1>3, <2>1, ReplaySuccess
    <2>2. CASE ~waiting
      BY <1>1, <1>3, <2>2, LateSound
    <2> QED BY <2>1, <2>2
  <1>4. CASE /\ ask[c].keyed /\ kept # None /\ kept.body # b
             /\ IF ~waiting THEN UNCHANGED ask
                ELSE IF ask[c].explicit THEN Cap!Ends(c, "mismatch") ELSE Cap!Goes(c, "mismatch")
             /\ UNCHANGED <<kept, made, counted>>
    <2>1. CASE waiting
      BY <1>1, <1>4, <2>1, RefusedSound
    <2>2. CASE ~waiting
      BY <1>1, <1>4, <2>2, LateSound
    <2> QED BY <2>1, <2>2
  <1>5. CASE /\ IF waiting THEN Cap!Ends(c, "rejected") ELSE UNCHANGED ask
             /\ UNCHANGED <<kept, made, counted>>
    <2>1. CASE waiting
      BY <1>1, <1>2, <1>5, <2>1, EndSound DEF Cap!Ends, Refusals
    <2>2. CASE ~waiting
      BY <1>1, <1>5, <2>2, LateSound
    <2> QED BY <2>1, <2>2
  <1>6. CASE /\ ~ask[c].keyed \/ kept = None
             /\ made' = made \cup {r}
             /\ kept' = IF ask[c].keyed THEN r ELSE kept
             /\ IF waiting THEN Cap!Succeeds(c, r) ELSE UNCHANGED <<ask, counted>>
    <2>1. r \in Cap!Resources /\ r.by = c /\ r.body[1] = "current"
      BY <1>2 DEF Cap!Resources, Cap!Body, Cap!Bodies, Cap!Wires
    <2>2. kept' = kept \/ kept' = r
      BY <1>6
    <2>3. PICK s \in Cap!Resources : s = r
      BY <2>1
    <2> HIDE DEF r, b
    <2> QED BY <1>1, <1>6, <2>1, <2>2, <2>3, InstalledSound
  <1> QED BY <1>3, <1>4, <1>5, <1>6 DEF Cap!Handle

-----------------------------------------------------------------------------
(* Replays.                                                                *)

(* Where one resource exists, the receipt is a receipt of that one.        *)
LEMMA ReceiptOfOne ==
  ASSUME CapInv, kept # None, NEW r \in made, made = {r}
  PROVE  kept.body = r.body
  BY DEF CapInv, CapFleet

LEMMA RecoverSound ==
  ASSUME CapSetting, CapInv, NEW c \in Callers, Cap!RecoverMismatch(c)
  PROVE  CapInv'
  <1>1. /\ ask[c] \in CapCalls /\ CapCall(c, ask[c], wire, made, flavor)
        /\ ask[c].at = "mismatch" /\ faults \in 0..MaxFaults
        /\ UNCHANGED <<flavor, heavy, source, kept, made, wire>>
    BY DEF CapInv, CapTyped, Cap!RecoverMismatch, Cap!World, Cap!Fleet
  <1>2. Inactive(c, wire, made)
    BY <1>1 DEF CapCall
  <1>3. CASE Cap!Replay(c, "legacy") = "ok" /\ Cap!Succeeds(c, kept) /\ UNCHANGED faults
    BY <1>1, <1>3, ReplaySuccess DEF Cap!Replay
  <1>4. CASE /\ Cap!LegacyBuilt => Cap!Replay(c, "legacy") # "ok"
             /\ Cap!Ends(c, "mismatch") /\ UNCHANGED <<counted, faults>>
    <2>1. ASSUME heavy = {}
          PROVE  /\ made # {}
                 /\ \A r \in made : made = {r} /\ kept # None =>
                      r.body \notin {<<w, ask[c].content>> : w \in Tried(ask[c])}
      <3>1. MismatchSound(ask[c], made, kept, flavor)
        BY <2>1 DEF CapInv
      <3>2. kept # None => kept.body # <<"legacy", ask[c].content>>
        BY <1>4, <2>1 DEF Cap!LegacyBuilt, Cap!Replay, Cap!Body
      <3> QED BY <1>1, <3>1, <3>2, ReceiptOfOne DEF MismatchSound, Tried, Cap!Wires
    <2> QED BY <1>1, <1>2, <1>4, <2>1, EndSound DEF Cap!Ends, Refusals
  <1>5. CASE /\ faults < MaxFaults /\ faults' = faults + 1
             /\ Cap!Ends(c, "unknown") /\ UNCHANGED counted
    <2>1. faults' \in 0..MaxFaults
      BY <1>1, <1>5, OneMoreFault DEF CapSetting
    <2> QED BY <1>1, <1>5, <2>1, EndSound DEF Cap!Ends, Refusals
  <1> QED BY <1>3, <1>4, <1>5 DEF Cap!RecoverMismatch

LEMMA FirstSound ==
  ASSUME CapSetting, CapInv, NEW c \in Callers, Cap!ReplayFirst(c)
  PROVE  CapInv'
  <1>1. /\ ask[c] \in CapCalls /\ CapCall(c, ask[c], wire, made, flavor)
        /\ ask[c].at = "first" /\ faults \in 0..MaxFaults
        /\ UNCHANGED <<flavor, heavy, source, kept, made, wire>>
    BY DEF CapInv, CapTyped, Cap!ReplayFirst, Cap!World, Cap!Fleet
  <1>2. Inactive(c, wire, made) /\ ask[c].answer = None
    BY <1>1 DEF CapCall
  <1>3. CASE Cap!Replay(c, Cap!First) = "ok" /\ Cap!Succeeds(c, kept) /\ UNCHANGED faults
    BY <1>1, <1>3, ReplaySuccess DEF Cap!Replay
  <1>4. CASE /\ Cap!Goes(c, "second") /\ UNCHANGED <<counted, faults>>
             /\ heavy # {} \/ Cap!Replay(c, Cap!First) = "mismatch"
    <2> DEFINE k == [ask[c] EXCEPT !.at = "second"]
    <2>1. /\ k \in CapCalls /\ k.at = "second" /\ k.answer = ask[c].answer
          /\ k.has = ask[c].has /\ k.content = ask[c].content
      BY <1>1 DEF CapCalls, CapSteps
    <2>2. ask' = [ask EXCEPT ![c] = k]
      BY <1>4 DEF Cap!Goes
    <2> HIDE DEF k
    <2>3. CapCall(c, k, wire, made, flavor)
      BY <1>1, <1>2, <2>1 DEF CapCall, Refusals, CapSetting, Inactive
    <2>4. heavy = {} => MismatchSound(k, made, kept, flavor)
      <3>1. heavy = {} => kept # None /\ kept.body # <<Cap!First, ask[c].content>>
        BY <1>4 DEF Cap!Replay, Cap!Body
      <3>2. heavy = {} => \E r \in made : r.body # <<FirstOf(flavor), ask[c].content>>
        BY <3>1 DEF CapInv, CapFleet, Cap!First, FirstOf
      <3> QED BY <1>2, <2>1, <3>2 DEF MismatchSound, CapSetting, Refusals
    <2> QED BY <1>1, <1>2, <1>4, <2>1, <2>2, <2>3, <2>4, OneAlone DEF CapSetting
  <1>5. CASE Cap!Ends(c, "gone") /\ UNCHANGED <<counted, faults>>
    BY <1>1, <1>2, <1>5, EndSound DEF Cap!Ends, Refusals
  <1>6. CASE /\ faults < MaxFaults /\ faults' = faults + 1
             /\ Cap!Ends(c, "unknown") /\ UNCHANGED counted
    <2>1. faults' \in 0..MaxFaults
      BY <1>1, <1>6, OneMoreFault DEF CapSetting
    <2> QED BY <1>1, <1>6, <2>1, EndSound DEF Cap!Ends, Refusals
  <1> QED BY <1>3, <1>4, <1>5, <1>6 DEF Cap!ReplayFirst, Cap!Replay

LEMMA SecondSound ==
  ASSUME CapSetting, CapInv, NEW c \in Callers, Cap!ReplaySecond(c)
  PROVE  CapInv'
  <1>1. /\ ask[c] \in CapCalls /\ CapCall(c, ask[c], wire, made, flavor)
        /\ ask[c].at = "second" /\ faults \in 0..MaxFaults
        /\ UNCHANGED <<flavor, heavy, source, kept, made, wire>>
    BY DEF CapInv, CapTyped, Cap!ReplaySecond, Cap!World, Cap!Fleet
  <1>2. Inactive(c, wire, made)
    BY <1>1 DEF CapCall
  <1>3. CASE Cap!Replay(c, Cap!Second) = "ok" /\ Cap!Succeeds(c, kept) /\ UNCHANGED faults
    BY <1>1, <1>3, ReplaySuccess DEF Cap!Replay
  <1>4. CASE /\ Cap!Replay(c, Cap!Second) = "mismatch"
             /\ Cap!Ends(c, "mismatch") /\ UNCHANGED <<counted, faults>>
    <2>1. ASSUME heavy = {}
          PROVE  /\ made # {}
                 /\ \A r \in made : made = {r} /\ kept # None =>
                      r.body \notin {<<w, ask[c].content>> : w \in Tried(ask[c])}
      <3>1. MismatchSound(ask[c], made, kept, flavor)
        BY <2>1 DEF CapInv
      <3>2. kept.body # <<Cap!Second, ask[c].content>>
        BY <1>4 DEF Cap!Replay, Cap!Body
      <3>3. \A w \in Tried(ask[c]) : w = FirstOf(flavor) \/ w = Cap!Second
        BY DEF Tried, Cap!Wires, FirstOf, Cap!Second
      <3> QED BY <1>1, <3>1, <3>2, <3>3, ReceiptOfOne DEF MismatchSound
    <2> QED BY <1>1, <1>2, <1>4, <2>1, EndSound DEF Cap!Ends, Refusals
  <1>5. CASE (Cap!Ends(c, "gone") \/ Cap!Ends(c, "tooLarge")) /\ UNCHANGED <<counted, faults>>
    BY <1>1, <1>2, <1>5, EndSound DEF Cap!Ends, Refusals
  <1>6. CASE /\ faults < MaxFaults /\ faults' = faults + 1
             /\ Cap!Ends(c, "unknown") /\ UNCHANGED counted
    <2>1. faults' \in 0..MaxFaults
      BY <1>1, <1>6, OneMoreFault DEF CapSetting
    <2> QED BY <1>1, <1>6, <2>1, EndSound DEF Cap!Ends, Refusals
  <1> QED BY <1>3, <1>4, <1>5, <1>6 DEF Cap!ReplaySecond, Cap!Replay

-----------------------------------------------------------------------------
LEMMA WorldSound ==
  ASSUME CapSetting, CapInv, Cap!Edit \/ Cap!Expire
  PROVE  CapInv'
  <1>1. CASE Cap!Edit
    <2>1. source' \in 1..MaxSource
          /\ UNCHANGED <<flavor, heavy, kept, made, wire, ask, counted, faults>>
      <3>1. source \in 1..MaxSource /\ MaxSource \in Nat
        BY DEF CapInv, CapTyped, CapSetting
      <3>2. source < MaxSource /\ source' = source + 1
            /\ UNCHANGED <<flavor, heavy, kept, made, wire, ask, counted, faults>>
        BY <1>1 DEF Cap!Edit, Cap!Fleet
      <3> QED BY <3>1, <3>2, AtLeastOne
    <2> QED BY <2>1 DEF CapInv, CapTyped
  <1>2. CASE Cap!Expire
    <2>1. kept' = None
          /\ UNCHANGED <<flavor, heavy, source, made, wire, ask, counted, faults>>
      BY <1>2 DEF Cap!Expire, Cap!World
    <2>2. CapTyped' /\ CapFleet(kept', made)
      BY <2>1 DEF CapInv, CapTyped, CapFleet
    <2>3. \A c \in Callers : MismatchSound(ask[c], made, kept, flavor)
            => MismatchSound(ask[c], made, kept', flavor)
      BY <2>1 DEF MismatchSound
    <2> QED BY <2>1, <2>2, <2>3 DEF CapInv
  <1> QED BY <1>1, <1>2

LEMMA CapInit ==
  ASSUME CapSetting, Cap!Init
  PROVE  CapInv
  <1>1. /\ Cap!NewCall \in CapCalls /\ Cap!NewCall.at = "new" /\ Cap!NewCall.answer = None
        /\ Cap!NewCall.has = FALSE
    BY SMT DEF Cap!NewCall, CapCalls, CapSteps, CapAnswers, CapSetting
  <1>2. \A c \in Callers : ask[c] = Cap!NewCall
    BY DEF Cap!Init
  <1>4. CapTyped
    <2>1. ask \in [Callers -> CapCalls]
      BY <1>1 DEF Cap!Init
    <2>2. made \subseteq Cap!Resources /\ (kept = None \/ kept \in Cap!Resources)
      <3>1. <<"legacy", 1>> \in Cap!Bodies
        BY SMT DEF Cap!Bodies, Cap!Wires, CapSetting
      <3> QED BY SMT, <3>1 DEF Cap!Init, Cap!Resources
    <2>3. source \in 1..MaxSource /\ faults \in 0..MaxFaults
      BY SMT DEF Cap!Init, CapSetting
    <2> QED BY <2>1, <2>2, <2>3 DEF Cap!Init, CapTyped
  <1>5. CapFleet(kept, made)
    BY SMT DEF Cap!Init, CapFleet
  <1>6. \A c \in Callers : CapCall(c, ask[c], wire, made, flavor)
    <2>1. wire = {} /\ \A r \in made : r.by = None
      BY SMT DEF Cap!Init
    <2>2. \A c \in Callers : Inactive(c, wire, made)
      BY <2>1 DEF Inactive, CapSetting
    <2> QED BY <1>1, <1>2, <2>1, <2>2 DEF CapCall, Refusals, CapSetting
  <1>7. \A c \in Callers : MismatchSound(ask[c], made, kept, flavor)
    BY <1>1, <1>2 DEF MismatchSound, CapSetting, Refusals
  <1>8. counted = {c \in Callers : ask[c].answer = "ok"}
    BY <1>1, <1>2 DEF Cap!Init, CapSetting
  <1> QED BY <1>4, <1>5, <1>6, <1>7, <1>8 DEF CapInv

LEMMA CapStep ==
  ASSUME CapSetting, CapInv, [Cap!Next]_(Cap!vars)
  PROVE  CapInv'
  <1>1. CASE UNCHANGED Cap!vars
    BY <1>1 DEF Cap!vars, CapInv, CapTyped
  <1>2. ASSUME NEW c \in Callers, NEW keyed \in BOOLEAN, NEW explicit \in BOOLEAN,
               Cap!Begin(c, keyed, explicit)
        PROVE  CapInv'
    BY <1>2, CapBegin
  <1>3. ASSUME NEW c \in Callers,
               \/ Cap!HasCapabilityInstallationReceipt(c) \/ Cap!Load(c)
               \/ Cap!InstallCapability(c) \/ Cap!Handle(c) \/ Cap!Unanswered(c)
        PROVE  CapInv'
    BY <1>3, CapProbe, LoadSound, CapSend, HandleSound, UnansweredSound
  <1>4. ASSUME NEW c \in Callers,
               Cap!RecoverMismatch(c) \/ Cap!ReplayFirst(c) \/ Cap!ReplaySecond(c)
        PROVE  CapInv'
    BY <1>4, RecoverSound, FirstSound, SecondSound
  <1>5. CASE Cap!Edit \/ Cap!Expire
    BY <1>5, WorldSound
  <1> QED BY <1>1, <1>2, <1>3, <1>4, <1>5 DEF Cap!Next

LEMMA CapImplies ==
  ASSUME CapSetting, CapInv
  PROVE  Cap!TypeOK /\ Cap!HonestInstall
  <1>1. Cap!TypeOK
    BY DEF CapInv, CapTyped, Cap!TypeOK, CapCalls, CapSteps
  <1>2. Cap!OnlyCurrentInstalls
    BY DEF CapInv, CapFleet, Cap!OnlyCurrentInstalls
  <1>3. Cap!SeenForbidsInstall
    <2> SUFFICES ASSUME NEW r \in made, r.by # None PROVE ~ask[r.by].has
      BY DEF Cap!SeenForbidsInstall
    <2>1. r.by \in Callers
      BY DEF CapInv, CapTyped, Cap!Resources
    <2>2. CapCall(r.by, ask[r.by], wire, made, flavor)
      BY <2>1 DEF CapInv
    <2> QED BY <2>2 DEF CapCall, Inactive
  <1>4. Cap!AnswerIsHonest
    <2>1. ASSUME NEW c \in Callers
          PROVE  /\ ask[c].answer = "ok" => ask[c].res \in made
                 /\ ask[c].answer \in Refusals => c \notin wire /\ \A r \in made : r.by # c
      <3>1. CapCall(c, ask[c], wire, made, flavor)
        BY DEF CapInv
      <3> QED BY <3>1 DEF CapCall, Inactive
    <2> QED BY <2>1 DEF CapInv, Cap!AnswerIsHonest, Refusals
  <1>5. Cap!MismatchIsReal
    <2> SUFFICES ASSUME NEW c \in Callers, ask[c].answer = "mismatch", kept # None,
                        NEW r \in made, made = {r}, heavy = {}
                 PROVE  kept.body \notin {<<w, ask[c].content>> : w \in Tried(ask[c])}
      BY DEF Cap!MismatchIsReal, Cap!Body, Tried
    <2>1. kept.body = r.body
      BY ReceiptOfOne
    <2> QED BY <2>1 DEF CapInv, MismatchSound
  <1> QED BY <1>1, <1>2, <1>3, <1>4, <1>5 DEF Cap!HonestInstall

-----------------------------------------------------------------------------
(* For any number of duplicates, edits, expiries and failures: only the    *)
(* connector wire installs, a receipt that was seen forbids installing,    *)
(* and the answer says what happened (installDefaultOperation,             *)
(* installCapability).                                                     *)
THEOREM InstallsHonestly == CapSetting => (CapPart => []HonestInstall)
  <1> SUFFICES ASSUME CapSetting PROVE CapPart => []HonestInstall
    OBVIOUS
  <1> DEFINE I == part = "capability" => CapInv
             N == part = "capability" /\ Cap!Next /\ UNCHANGED part
  <1>1. CapStarts => I
    BY CapInit DEF CapStarts
  <1>2. I /\ [N]_<<part, capVars>> => I'
    BY CapStep DEF capVars, Cap!vars
  <1>3. I => HonestInstall
    BY CapImplies DEF HonestInstall
  <1> QED BY <1>1, <1>2, <1>3, PTL DEF CapPart
=============================================================================
