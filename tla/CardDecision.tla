---------------------------- MODULE CardDecision ----------------------------
(***************************************************************************)
(* Decisions taken on an IM approval card.  octo-server delivers a click   *)
(* at least once: it redelivers the event until it is answered with 200,   *)
(* or with 400, which dead-letters it.  The callback must decide a review  *)
(* at most once per event and give every delivery the same answer, while   *)
(* web decisions, withdrawals and takedowns race with it                   *)
(* (Service.DecideReviewFromCard and the decision transactions of          *)
(* internal/repository/plugin/review.go).                                  *)
(*                                                                         *)
(* Every step of the callback between two reads or writes of the store is  *)
(* an action.  What may refuse an approval is an attribute of the request, *)
(* trouble, moved by the environment; PluginReview models where it comes   *)
(* from.                                                                   *)
(***************************************************************************)
EXTENDS FiniteSets

CONSTANTS
    Reviews,     \* review requests, all open at the start
    Events,      \* card-action event ids (one per click)
    Operators,   \* users who can click
    Calls,       \* deliveries handled at the same time
    Troubles,    \* what may stand in the way of an approval, a subset of
                 \* {"label", "target", "name"}
    MayReuse,    \* whether an event id may come back with another payload
    None         \* no row, no delivery, no payload

VARIABLES
    status,      \* plugin_review_requests.status
    gone,        \* requests whose plugin is soft-deleted
    trouble,     \* why an approval of the request would be refused
    admin,       \* operators with the Space admin role
    receipt,     \* plugin_card_action_receipts, keyed by event id
    call,        \* deliveries in progress
    payload,     \* octo-server: what the event says, once clicked
    closed,      \* octo-server: events answered or dead-lettered
    answers,     \* history: results sent with 200, per event
    decider      \* history: the event, or "web", that settled the request

vars == <<status, gone, trouble, admin, receipt, call, payload, closed,
          answers, decider>>

Settled == {"approved", "rejected", "canceled"}

Payload == [review : Reviews, decision : {"approve", "deny"},
            operator : Operators]

(* What a callback answers: the disposition and the state of the card.     *)
Result  == [disposition : {"applied", "forbidden", "conflict", "not_found"},
            state : {"pending", "approved", "denied", "cancelled"}]
Refusal == {x \in Result : x.disposition # "applied"}

Receipt == [bound : Payload, result : Result]

(* A delivery in progress.  refusal is what is about to be recorded.       *)
Call == [pc : {"lookup", "load", "role", "apply", "conflict", "replay"},
         event : Events, bound : Payload, read : {"pending"} \cup Settled]
          \cup [pc : {"record"}, event : Events, bound : Payload,
                refusal : Refusal]

ASSUME CardDecisionAssumption ==
    /\ Troubles \subseteq {"label", "target", "name"}
    /\ MayReuse \in BOOLEAN
    /\ "web" \notin Events
    /\ None \notin Events \cup Troubles \cup {"web"}
    /\ None \notin Payload \cup Receipt \cup Call

NotFound  == [disposition |-> "not_found", state |-> "cancelled"]
Forbidden == [disposition |-> "forbidden", state |-> "pending"]

(* The card protocol has its own words for the states of a request.        *)
cardState(s) == CASE s = "approved" -> "approved"
                  [] s = "rejected" -> "denied"
                  [] s = "canceled" -> "cancelled"
                  [] OTHER          -> "pending"

Init ==
    /\ status  = [r \in Reviews |-> "pending"]
    /\ gone    = {}
    /\ trouble = [r \in Reviews |-> None]
    /\ admin   = Operators
    /\ receipt = [e \in Events |-> None]
    /\ call    = [c \in Calls |-> None]
    /\ payload = [e \in Events |-> None]
    /\ closed  = {}
    /\ answers = [e \in Events |-> {}]
    /\ decider = [r \in Reviews |-> None]

-----------------------------------------------------------------------------
(* octo-server (external)                                                  *)

Click(e) ==
    /\ payload[e] = None
    /\ \E d \in Payload : payload' = [payload EXCEPT ![e] = d]
    /\ UNCHANGED <<status, gone, trouble, admin, receipt, call, closed,
                   answers, decider>>

(* Delivers, or redelivers, an event that is neither answered nor dead.    *)
Deliver(c, e) ==
    /\ call[c] = None
    /\ payload[e] # None
    /\ e \notin closed
    /\ \E d \in IF MayReuse THEN Payload ELSE {payload[e]} :
         call' = [call EXCEPT ![c] = [pc |-> "lookup", event |-> e,
                                      bound |-> d, read |-> "pending"]]
    /\ UNCHANGED <<status, gone, trouble, admin, receipt, payload, closed,
                   answers, decider>>

-----------------------------------------------------------------------------
(* The callback                                                            *)

(* 503, a crash, or a dropped connection: the event will be redelivered.   *)
Fault(c) ==
    /\ call[c] # None
    /\ call' = [call EXCEPT ![c] = None]
    /\ UNCHANGED <<status, gone, trouble, admin, receipt, payload, closed,
                   answers, decider>>

GoTo(c, pc) == call' = [call EXCEPT ![c].pc = pc]

Refuse(c, refusal) ==
    call' = [call EXCEPT ![c] = [pc |-> "record", event |-> call[c].event,
                                 bound |-> call[c].bound,
                                 refusal |-> refusal]]

(* 200 with a typed body; the reply may be lost on the way.                *)
Reply(c, result) ==
    LET e == call[c].event IN
    /\ answers' = [answers EXCEPT ![e] = @ \cup {result}]
    /\ closed' \in {closed, closed \cup {e}}
    /\ call' = [call EXCEPT ![c] = None]

(* Mutant: replays without comparing what the receipt is bound to.         *)
decodeUnbound(c) == Reply(c, receipt[call[c].event].result)

(* Replays a receipt to a delivery of the same payload; any other payload  *)
(* is malformed and dead-lettered (400).                                   *)
decodeCardActionReceipt(c) ==
    LET rec == receipt[call[c].event] IN
    \/ rec.bound = call[c].bound /\ Reply(c, rec.result)
    \/ /\ rec.bound # call[c].bound
       /\ closed' \in {closed, closed \cup {call[c].event}}
       /\ call' = [call EXCEPT ![c] = None]
       /\ UNCHANGED answers

GetCardActionReceipt(c) ==
    /\ call[c] # None
    /\ call[c].pc = "lookup"
    /\ IF receipt[call[c].event] # None
       THEN decodeCardActionReceipt(c)
       ELSE GoTo(c, "load") /\ UNCHANGED <<closed, answers>>
    /\ UNCHANGED <<status, gone, trouble, admin, receipt, payload, decider>>

GetReviewRequestAnySpace(c) ==
    /\ call[c] # None
    /\ call[c].pc = "load"
    /\ LET r == call[c].bound.review IN
       IF r \in gone
       THEN Refuse(c, NotFound)
       ELSE call' = [call EXCEPT ![c].pc = "role", ![c].read = status[r]]
    /\ UNCHANGED <<status, gone, trouble, admin, receipt, payload, closed,
                   answers, decider>>

operatorRole(c) ==
    /\ call[c] # None
    /\ call[c].pc = "role"
    /\ IF call[c].bound.operator \notin admin
       THEN Refuse(c, Forbidden)
       ELSE GoTo(c, IF call[c].read = "pending" THEN "apply" ELSE "conflict")
    /\ UNCHANGED <<status, gone, trouble, admin, receipt, payload, closed,
                   answers, decider>>

(* Mutant: the receipt of an applied decision is left to a later write.    *)
applyThenRecord(c) ==
    LET d == call[c].bound  r == d.review IN
    /\ status[r] = "pending"
    /\ r \notin gone
    /\ d.decision = "deny" \/ trouble[r] = None
    /\ status' = [status EXCEPT ![r] =
                    IF d.decision = "approve" THEN "approved" ELSE "rejected"]
    /\ decider' = [decider EXCEPT ![r] = call[c].event]
    /\ Reply(c, [disposition |-> "applied",
                 state |-> cardState(status'[r])])
    /\ UNCHANGED receipt

(* The decision transaction: claims the event's receipt, settles the       *)
(* request and commits both.  Its commit may be reported as an error.      *)
applyCardDecision(c) ==
    LET d == call[c].bound  r == d.review  e == call[c].event IN
    /\ status[r] = "pending"
    /\ r \notin gone
    /\ d.decision = "deny" \/ trouble[r] = None
    /\ status' = [status EXCEPT ![r] =
                    IF d.decision = "approve" THEN "approved" ELSE "rejected"]
    /\ decider' = [decider EXCEPT ![r] = e]
    /\ LET result == [disposition |-> "applied",
                      state |-> cardState(status'[r])] IN
       /\ receipt' = [receipt EXCEPT ![e] = [bound |-> d, result |-> result]]
       /\ \/ Reply(c, result)
          \/ /\ call' = [call EXCEPT ![c] = None]
             /\ UNCHANGED <<closed, answers>>

(* Mutant: a refusal for good is reported as a fault.                      *)
refuseAsFault(c) ==
    LET d == call[c].bound  r == d.review IN
    /\ CASE r \in gone /\ status[r] = "pending" -> Refuse(c, NotFound)
         [] status[r] # "pending"               -> GoTo(c, "conflict")
         [] OTHER ->
              /\ d.decision = "approve"
              /\ trouble[r] # None
              /\ call' = [call EXCEPT ![c] = None]
    /\ UNCHANGED <<status, receipt, decider, closed, answers>>

(* What the transaction refuses is rolled back with its receipt.           *)
refuseCardDecision(c) ==
    LET d == call[c].bound  r == d.review IN
    /\ CASE r \in gone /\ status[r] = "pending" -> Refuse(c, NotFound)
         [] status[r] # "pending"               -> GoTo(c, "conflict")
         [] OTHER ->
              /\ d.decision = "approve"
              /\ \/ trouble[r] = "label"  /\ Refuse(c, Forbidden)
                 \/ trouble[r] = "target" /\ Refuse(c, NotFound)
                 \/ trouble[r] = "name"   /\ call' = [call EXCEPT ![c] = None]
    /\ UNCHANGED <<status, receipt, decider, closed, answers>>

decideCardAction(c) ==
    /\ call[c] # None
    /\ call[c].pc = "apply"
    /\ IF receipt[call[c].event] # None
       THEN /\ GoTo(c, "replay")
            /\ UNCHANGED <<status, receipt, decider, closed, answers>>
       ELSE applyCardDecision(c) \/ refuseCardDecision(c)
    /\ UNCHANGED <<gone, trouble, admin, payload>>

(* Mutant: answers from the row the callback started from.                 *)
cardConflictStale(c) ==
    /\ call[c] # None
    /\ call[c].pc = "conflict"
    /\ Refuse(c, [disposition |-> "conflict", state |-> cardState(call[c].read)])
    /\ UNCHANGED <<status, gone, trouble, admin, receipt, payload, closed,
                   answers, decider>>

(* Re-reads the request to answer with the winner's outcome.               *)
cardConflict(c) ==
    /\ call[c] # None
    /\ call[c].pc = "conflict"
    /\ LET r == call[c].bound.review IN
       Refuse(c, IF r \in gone THEN NotFound
                 ELSE [disposition |-> "conflict",
                       state |-> cardState(status[r])])
    /\ UNCHANGED <<status, gone, trouble, admin, receipt, payload, closed,
                   answers, decider>>

(* A refusal is durable before it is answered; whoever loses the race for  *)
(* the event's receipt replays the winner's.                               *)
InsertCardActionReceipt(c) ==
    /\ call[c] # None
    /\ call[c].pc = "record"
    /\ IF receipt[call[c].event] # None
       THEN /\ call' = [call EXCEPT ![c] =
                 [pc |-> "replay", event |-> call[c].event,
                  bound |-> call[c].bound, read |-> "pending"]]
            /\ UNCHANGED <<receipt, closed, answers>>
       ELSE /\ receipt' = [receipt EXCEPT ![call[c].event] =
                 [bound |-> call[c].bound, result |-> call[c].refusal]]
            /\ Reply(c, call[c].refusal)
    /\ UNCHANGED <<status, gone, trouble, admin, payload, decider>>

replayCardAction(c) ==
    /\ call[c] # None
    /\ call[c].pc = "replay"
    /\ receipt[call[c].event] # None
    /\ decodeCardActionReceipt(c)
    /\ UNCHANGED <<status, gone, trouble, admin, receipt, payload, decider>>

-----------------------------------------------------------------------------
(* Everyone else                                                           *)

(* A web decision, a withdrawal, or a takedown settles the request.        *)
SettleElsewhere(r) ==
    /\ status[r] = "pending"
    /\ \E s \in Settled :
         /\ s = "approved" => trouble[r] = None
         /\ status' = [status EXCEPT ![r] = s]
    /\ decider' = [decider EXCEPT ![r] = "web"]
    /\ UNCHANGED <<gone, trouble, admin, receipt, call, payload, closed,
                   answers>>

(* Deleting the plugin cancels its open request in the same transaction.   *)
DeletePlugin(r) ==
    /\ r \notin gone
    /\ gone' = gone \cup {r}
    /\ status' = [status EXCEPT ![r] = IF @ = "pending" THEN "canceled" ELSE @]
    /\ decider' = [decider EXCEPT ![r] = IF status[r] = "pending"
                                         THEN "web" ELSE @]
    /\ UNCHANGED <<trouble, admin, receipt, call, payload, closed, answers>>

(* The label moves past the frozen one, a frozen relation target is        *)
(* deleted, or another plugin takes the name.                              *)
TroubleAppears(r) ==
    /\ status[r] = "pending"
    /\ trouble[r] = None
    /\ \E t \in Troubles : trouble' = [trouble EXCEPT ![r] = t]
    /\ UNCHANGED <<status, gone, admin, receipt, call, payload, closed,
                   answers, decider>>

RoleChanges(o) ==
    /\ admin' = IF o \in admin THEN admin \ {o} ELSE admin \cup {o}
    /\ UNCHANGED <<status, gone, trouble, receipt, call, payload, closed,
                   answers, decider>>

CallStep(c) ==
    \/ GetCardActionReceipt(c)
    \/ GetReviewRequestAnySpace(c)
    \/ operatorRole(c)
    \/ decideCardAction(c)
    \/ cardConflict(c)
    \/ InsertCardActionReceipt(c)
    \/ replayCardAction(c)

Next ==
    \/ \E e \in Events : Click(e)
    \/ \E c \in Calls, e \in Events : Deliver(c, e)
    \/ \E c \in Calls : CallStep(c) \/ Fault(c)
    \/ \E r \in Reviews : \/ SettleElsewhere(r)
                          \/ DeletePlugin(r)
                          \/ TroubleAppears(r)
    \/ \E o \in Operators : RoleChanges(o)

Spec == Init /\ [][Next]_vars

(* The store, the role lookup and the network do not fail for ever: from   *)
(* some point on, a delivery ends unanswered only if the code refuses it.  *)
FaultsStop ==
    <>[][\A c \in Calls : call[c] # None /\ call'[c] = None =>
           \/ call[c].event \in closed'
           \/ decideCardAction(c) /\ refuseCardDecision(c)]_vars

(* octo-server keeps redelivering, and a delivery that was taken up runs.  *)
Fairness == \A c \in Calls : /\ WF_vars(CallStep(c))
                             /\ \A e \in Events : WF_vars(Deliver(c, e))

FairSpec == Spec /\ Fairness /\ FaultsStop

-----------------------------------------------------------------------------
(* Rows, receipts and deliveries have the values the code gives them.      *)
TypeOK ==
    /\ status \in [Reviews -> {"pending"} \cup Settled]
    /\ gone \subseteq Reviews
    /\ trouble \in [Reviews -> Troubles \cup {None}]
    /\ admin \subseteq Operators
    /\ receipt \in [Events -> Receipt \cup {None}]
    /\ call \in [Calls -> Call \cup {None}]
    /\ payload \in [Events -> Payload \cup {None}]
    /\ closed \subseteq Events
    /\ answers \in [Events -> SUBSET Result]
    /\ decider \in [Reviews -> Events \cup {"web", None}]

(* A decision and its receipt exist together: an event settled a request   *)
(* exactly when its receipt says "applied" for that request, with the      *)
(* state the request has.  So an event never settles two requests, nor one *)
(* after it was refused (claimCardActionReceipt inside the decision).      *)
AppliedExactlyOnce ==
    \A e \in Events, r \in Reviews :
        decider[r] = e <=>
            /\ receipt[e] # None
            /\ receipt[e].bound.review = r
            /\ receipt[e].result = [disposition |-> "applied",
                                    state |-> cardState(status[r])]

(* Every delivery of an event that was answered with 200 got the same      *)
(* answer, the one on its receipt (GetCardActionReceipt,                   *)
(* InsertCardActionReceipt, replayCardAction).                             *)
AnswersAgree ==
    \A e \in Events : answers[e] # {} =>
        receipt[e] # None /\ answers[e] = {receipt[e].result}

(* An answer "conflict" names the outcome that won: the request is settled *)
(* and the card shows its state (cardConflict re-reads the request).       *)
ConflictNamesWinner ==
    \A e \in Events :
        receipt[e] # None /\ receipt[e].result.disposition = "conflict" =>
            /\ status[receipt[e].bound.review] \in Settled
            /\ receipt[e].result.state = cardState(status[receipt[e].bound.review])

RepliesAsBound ==
    \A e \in Events, c \in Calls :
        ( /\ call[c] # None /\ call'[c] = None /\ call[c].event = e
          /\ answers'[e] # answers[e] )
          => receipt'[e].bound = call[c].bound

(* A delivery that does not say what the event's receipt is bound to is    *)
(* never answered with that receipt (decodeCardActionReceipt).             *)
ReplayIsBound == [][RepliesAsBound]_vars

(* Every click is eventually answered or dead-lettered, unless it is left  *)
(* waiting for a name that another plugin holds: no other refusal makes    *)
(* octo-server redeliver an event for ever (decideCardAction answers it).  *)
HandledEventsSettle ==
    \A e \in Events :
        payload[e] # None ~>
            \/ e \in closed
            \/ \E r \in Reviews : trouble[r] = "name" /\ status[r] = "pending"

(* Every click is eventually answered or dead-lettered (the handler        *)
(* promises 200 for every handled outcome, business refusals included).    *)
EventsSettle == \A e \in Events : payload[e] # None ~> e \in closed

(* What the callers of an event are told agrees, with each other and with  *)
(* the request (InsertCardActionReceipt, cardConflict).                    *)
AnswersSound ==
  /\ AnswersAgree
  /\ ConflictNamesWinner
=============================================================================
