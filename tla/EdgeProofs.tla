----------------------------- MODULE EdgeProofs -----------------------------
(***************************************************************************)
(* Proofs about what comes from outside, for any number of calls, events   *)
(* and faults: clicks on approval cards, then MCP servers and their probe. *)
(***************************************************************************)
EXTENDS CardDecision, Servers, Integers, Sequences, TLAPS

(* A leaf that names no prover is left to Zenon: most need no more than    *)
(* first-order reasoning about the facts they cite.                        *)
USE Zenon

(* The deliveries that carry a row read earlier, and those that carry a    *)
(* refusal.                                                                *)
Reading   == [pc : {"lookup", "load", "role", "apply", "conflict", "replay"},
              event : Events, bound : Payload, read : {"pending"} \cup Settled]
Recording == [pc : {"record"}, event : Events, bound : Payload,
              refusal : Refusal]

(* Which fields a delivery has follows from where it is.                   *)
LEMMA CallKinds ==
    ASSUME TypeOK, NEW c \in Calls, call[c] # None
    PROVE  /\ call[c].event \in Events /\ call[c].bound \in Payload
           /\ call[c].bound.review \in Reviews
           /\ call[c].pc = "record" => call[c] \in Recording
           /\ call[c].pc # "record" => call[c] \in Reading
  <1>1. call[c] \in Reading \cup Recording
    BY DEF TypeOK, Call, Reading, Recording
  <1> QED BY <1>1 DEF Reading, Recording, Payload

(* The answers the code can give are answers of the protocol.              *)
LEMMA Protocol ==
    /\ NotFound \in Refusal /\ Forbidden \in Refusal
    /\ \A s \in {"pending"} \cup Settled :
         /\ [disposition |-> "applied", state |-> cardState(s)] \in Result
         /\ [disposition |-> "conflict", state |-> cardState(s)] \in Refusal
  <1>1. \A s \in {"pending"} \cup Settled :
            cardState(s) \in {"pending", "approved", "denied", "cancelled"}
    BY DEF cardState, Settled
  <1> QED BY <1>1 DEF NotFound, Forbidden, Refusal, Result

(* GoTo and Refuse keep the deliveries typed.                              *)
LEMMA MoveTyped ==
    ASSUME TypeOK, NEW c \in Calls, call[c] # None,
           \/ /\ call[c].pc # "record"
              /\ \E pc \in {"load", "apply", "conflict", "replay"} : GoTo(c, pc)
           \/ \E x \in Refusal : Refuse(c, x)
           \/ call' = [call EXCEPT ![c] = None]
    PROVE  call' \in [Calls -> Call \cup {None}]
  <1>1. ASSUME NEW pc \in {"load", "apply", "conflict", "replay"},
               call[c].pc # "record", GoTo(c, pc)
        PROVE  call' \in [Calls -> Call \cup {None}]
    <2>1. call[c] \in Reading
      BY <1>1, CallKinds
    <2>2. [call[c] EXCEPT !.pc = pc] \in Reading
      BY <2>1 DEF Reading
    <2>3. call' = [call EXCEPT ![c] = [call[c] EXCEPT !.pc = pc]]
      BY <1>1 DEF GoTo
    <2> QED BY <2>2, <2>3 DEF TypeOK, Call, Reading
  <1>2. ASSUME NEW x \in Refusal, Refuse(c, x)
        PROVE  call' \in [Calls -> Call \cup {None}]
    <2>1. [pc |-> "record", event |-> call[c].event, bound |-> call[c].bound,
           refusal |-> x] \in Recording
      BY <1>2, CallKinds DEF Recording
    <2> QED BY <1>2, <2>1 DEF TypeOK, Call, Recording, Refuse
  <1>3. CASE call' = [call EXCEPT ![c] = None]
    BY <1>3 DEF TypeOK
  <1> QED BY <1>1, <1>2, <1>3

(* Answering keeps what octo-server and the history hold typed.            *)
LEMMA ReplyTyped ==
    ASSUME TypeOK, NEW c \in Calls, call[c] # None, NEW x \in Result,
           Reply(c, x)
    PROVE  /\ call' \in [Calls -> Call \cup {None}]
           /\ closed' \subseteq Events
           /\ answers' \in [Events -> SUBSET Result]
  BY CallKinds DEF Reply, TypeOK

(* Replaying a receipt keeps them typed too (decodeCardActionReceipt).     *)
LEMMA DecodeTyped ==
    ASSUME TypeOK, NEW c \in Calls, call[c] # None,
           receipt[call[c].event] # None, decodeCardActionReceipt(c)
    PROVE  /\ call' \in [Calls -> Call \cup {None}]
           /\ closed' \subseteq Events
           /\ answers' \in [Events -> SUBSET Result]
  <1>1. call[c].event \in Events /\ receipt[call[c].event].result \in Result
    BY CallKinds DEF TypeOK, Receipt
  <1>2. CASE Reply(c, receipt[call[c].event].result)
    BY <1>1, <1>2, ReplyTyped
  <1>3. CASE /\ closed' \in {closed, closed \cup {call[c].event}}
             /\ call' = [call EXCEPT ![c] = None]
             /\ UNCHANGED answers
    BY <1>1, <1>3 DEF TypeOK
  <1> QED BY <1>2, <1>3 DEF decodeCardActionReceipt

(* Every step keeps the state typed.                                       *)
LEMMA TypeStep == TypeOK /\ [Next]_vars => TypeOK'
  <1> SUFFICES ASSUME TypeOK, [Next]_vars
               PROVE  TypeOK'
    OBVIOUS
  <1>1. ASSUME NEW e \in Events, Click(e)
        PROVE  TypeOK'
    BY <1>1 DEF Click, TypeOK
  <1>2. ASSUME NEW c \in Calls, NEW e \in Events, Deliver(c, e)
        PROVE  TypeOK'
    <2>1. PICK d \in Payload :
            call' = [call EXCEPT ![c] = [pc |-> "lookup", event |-> e,
                                         bound |-> d, read |-> "pending"]]
      BY <1>2 DEF Deliver, TypeOK
    <2>2. call' \in [Calls -> Call \cup {None}]
      BY <2>1 DEF TypeOK, Call
    <2> QED BY <1>2, <2>2 DEF Deliver, TypeOK
  <1>3. ASSUME NEW c \in Calls, Fault(c)
        PROVE  TypeOK'
    BY <1>3 DEF Fault, TypeOK
  <1>4. ASSUME NEW c \in Calls, GetCardActionReceipt(c)
        PROVE  TypeOK'
    <2>1. CASE receipt[call[c].event] # None
      BY <1>4, <2>1, DecodeTyped DEF GetCardActionReceipt, TypeOK
    <2>2. CASE receipt[call[c].event] = None
      BY <1>4, <2>2, MoveTyped DEF GetCardActionReceipt, TypeOK
    <2> QED BY <2>1, <2>2
  <1>5. ASSUME NEW c \in Calls, GetReviewRequestAnySpace(c)
        PROVE  TypeOK'
    <2> DEFINE r == call[c].bound.review
    <2>1. CASE r \in gone
      BY <1>5, <2>1, MoveTyped, Protocol DEF GetReviewRequestAnySpace, TypeOK
    <2>2. CASE r \notin gone
      <3>1. call[c] \in Reading /\ r \in Reviews
        BY <1>5, CallKinds DEF GetReviewRequestAnySpace
      <3>2. [call[c] EXCEPT !.pc = "role", !.read = status[r]] \in Reading
        BY <3>1 DEF Reading, TypeOK
      <3>3. call' = [call EXCEPT ![c] =
                       [call[c] EXCEPT !.pc = "role", !.read = status[r]]]
        BY <1>5, <2>2 DEF GetReviewRequestAnySpace, TypeOK
      <3>4. call' \in [Calls -> Call \cup {None}]
        BY <3>2, <3>3 DEF TypeOK, Call, Reading
      <3> QED BY <1>5, <3>4 DEF GetReviewRequestAnySpace, TypeOK
    <2> QED BY <2>1, <2>2
  <1>6. ASSUME NEW c \in Calls, operatorRole(c)
        PROVE  TypeOK'
    BY <1>6, MoveTyped, Protocol DEF operatorRole, TypeOK
  <1>7. ASSUME NEW c \in Calls, decideCardAction(c)
        PROVE  TypeOK'
    <2> DEFINE r == call[c].bound.review
               e == call[c].event
    <2>1. r \in Reviews /\ e \in Events /\ call[c].bound \in Payload
      BY <1>7, CallKinds DEF decideCardAction
    <2>2. CASE receipt[e] # None
      BY <1>7, <2>2, MoveTyped DEF decideCardAction, TypeOK
    <2>3. CASE applyCardDecision(c)
      <3>1. status' \in [Reviews -> {"pending"} \cup Settled]
        BY <2>1, <2>3 DEF applyCardDecision, TypeOK, Settled
      <3> DEFINE answer == [disposition |-> "applied",
                            state |-> cardState(status'[r])]
      <3>2. answer \in Result
        BY <2>1, <3>1, Protocol
      <3>3. receipt' = [receipt EXCEPT ![e] = [bound |-> call[c].bound,
                                               result |-> answer]]
        BY <2>3 DEF applyCardDecision
      <3>4. receipt' \in [Events -> Receipt \cup {None}]
        BY <2>1, <3>2, <3>3 DEF TypeOK, Receipt
      <3>5. /\ call' \in [Calls -> Call \cup {None}]
            /\ closed' \subseteq Events
            /\ answers' \in [Events -> SUBSET Result]
        <4>1. CASE Reply(c, answer)
          BY <1>7, <3>2, <4>1, ReplyTyped DEF decideCardAction
        <4>2. CASE /\ call' = [call EXCEPT ![c] = None]
                   /\ UNCHANGED <<closed, answers>>
          BY <4>2 DEF TypeOK
        <4> QED BY <2>3, <4>1, <4>2 DEF applyCardDecision
      <3>6. decider' \in [Reviews -> Events \cup {"web", None}]
        BY <2>1, <2>3 DEF applyCardDecision, TypeOK
      <3> QED BY <1>7, <3>1, <3>4, <3>5, <3>6 DEF decideCardAction, TypeOK
    <2>4. CASE refuseCardDecision(c)
      <3>1. \/ \E x \in Refusal : Refuse(c, x)
            \/ GoTo(c, "conflict")
            \/ call' = [call EXCEPT ![c] = None]
        BY <2>4, Protocol DEF refuseCardDecision
      <3>2. call' \in [Calls -> Call \cup {None}]
        BY <1>7, <3>1, MoveTyped DEF decideCardAction
      <3> QED BY <1>7, <2>4, <3>2 DEF decideCardAction, refuseCardDecision, TypeOK
    <2> QED BY <1>7, <2>2, <2>3, <2>4 DEF decideCardAction
  <1>8. ASSUME NEW c \in Calls, cardConflict(c)
        PROVE  TypeOK'
    <2>1. call[c].bound.review \in Reviews
      BY <1>8, CallKinds DEF cardConflict
    <2>2. status[call[c].bound.review] \in {"pending"} \cup Settled
      BY <2>1 DEF TypeOK
    <2>3. \E x \in Refusal : Refuse(c, x)
      BY <1>8, <2>2, Protocol DEF cardConflict
    <2> QED BY <1>8, <2>3, MoveTyped DEF cardConflict, TypeOK
  <1>9. ASSUME NEW c \in Calls, InsertCardActionReceipt(c)
        PROVE  TypeOK'
    <2> DEFINE e == call[c].event
    <2>1. /\ e \in Events /\ call[c].bound \in Payload
          /\ call[c].refusal \in Result
      BY <1>9, CallKinds DEF InsertCardActionReceipt, Recording, Refusal
    <2>2. CASE receipt[e] # None
      <3>1. call' = [call EXCEPT ![c] = [pc |-> "replay", event |-> e,
                       bound |-> call[c].bound, read |-> "pending"]]
        BY <1>9, <2>2 DEF InsertCardActionReceipt
      <3>2. call' \in [Calls -> Call \cup {None}]
        BY <2>1, <3>1 DEF TypeOK, Call
      <3> QED BY <1>9, <2>2, <3>2 DEF InsertCardActionReceipt, TypeOK
    <2>3. CASE receipt[e] = None
      <3>1. receipt' \in [Events -> Receipt \cup {None}]
        BY SMT, <1>9, <2>1, <2>3 DEF InsertCardActionReceipt, TypeOK, Receipt
      <3>2. Reply(c, call[c].refusal)
        BY <1>9, <2>3 DEF InsertCardActionReceipt
      <3> QED BY <1>9, <2>1, <3>1, <3>2, ReplyTyped
              DEF InsertCardActionReceipt, TypeOK
    <2> QED BY <2>2, <2>3
  <1>10. ASSUME NEW c \in Calls, replayCardAction(c)
         PROVE  TypeOK'
    BY <1>10, DecodeTyped DEF replayCardAction, TypeOK
  <1>11. ASSUME NEW r \in Reviews,
                SettleElsewhere(r) \/ DeletePlugin(r) \/ TroubleAppears(r)
         PROVE  TypeOK'
    BY SMT, <1>11
       DEF SettleElsewhere, DeletePlugin, TroubleAppears, TypeOK, Settled
  <1>12. ASSUME NEW o \in Operators, RoleChanges(o)
         PROVE  TypeOK'
    BY <1>12 DEF RoleChanges, TypeOK
  <1>13. CASE UNCHANGED vars
    BY <1>13 DEF vars, TypeOK
  <1> QED BY <1>1, <1>2, <1>3, <1>4, <1>5, <1>6, <1>7, <1>8, <1>9, <1>10,
             <1>11, <1>12, <1>13 DEF Next, CallStep

(* The state stays typed; in particular only the four dispositions and the *)
(* four card states of the protocol are ever answered (cardState).         *)
THEOREM TypeCorrect == Spec => []TypeOK
  <1>1. Init => TypeOK
    BY DEF Init, TypeOK
  <1> QED BY <1>1, TypeStep, PTL DEF Spec

-----------------------------------------------------------------------------
(* The inductive invariant behind the three safety properties.             *)

(* A request has a decider exactly when it is settled.                     *)
SettledByOne == \A r \in Reviews : decider[r] = None <=> status[r] = "pending"

(* What a delivery on its way to "conflict" knows of the request: it was   *)
(* read settled, the decision was refused because it is settled, or the    *)
(* answer was taken from the settled row.                                  *)
ConflictGrounded ==
    \A c \in Calls : call[c] # None =>
        LET s == status[call[c].bound.review] IN
        /\ call[c].pc = "role" /\ call[c].read # "pending" => s \in Settled
        /\ call[c].pc = "conflict" => s \in Settled
        /\ call[c].pc = "record" /\ call[c].refusal.disposition = "conflict" =>
             s \in Settled /\ call[c].refusal.state = cardState(s)

(* An applied receipt belongs to the event that decided the request.       *)
ReceiptsDecide ==
    \A e \in Events :
        receipt[e] # None /\ receipt[e].result.disposition = "applied" =>
            decider[receipt[e].bound.review] = e

CardInv ==
    /\ TypeOK
    /\ SettledByOne
    /\ ConflictGrounded
    /\ ReceiptsDecide
    /\ AppliedExactlyOnce
    /\ AnswersAgree
    /\ ConflictNamesWinner

(* Steps that settle nothing and write no receipt: what the deliveries in  *)
(* progress know and what was answered is all that can change.             *)
LEMMA QuietStep ==
    ASSUME CardInv, UNCHANGED <<status, decider, receipt>>
    PROVE  SettledByOne' /\ ReceiptsDecide' /\ AppliedExactlyOnce'
           /\ ConflictNamesWinner'
  BY DEF CardInv, SettledByOne, ReceiptsDecide, AppliedExactlyOnce,
         ConflictNamesWinner

(* One delivery moves, and what it is about to answer is grounded.         *)
LEMMA GroundedStep ==
    ASSUME CardInv, NEW c \in Calls, UNCHANGED status,
           \A d \in Calls : d # c => call'[d] = call[d],
           \/ call'[c].pc = "apply"
           \/ call'[c].pc = "conflict" /\ status[call'[c].bound.review] \in Settled
           \/ /\ call'[c].pc = "record"
              /\ call'[c].refusal.disposition = "conflict" =>
                   /\ status[call'[c].bound.review] \in Settled
                   /\ call'[c].refusal.state = cardState(status[call'[c].bound.review])
    PROVE  ConflictGrounded'
  <1> DEFINE s(d) == status'[call'[d].bound.review]
  <1>1. SUFFICES ASSUME NEW d \in Calls, call'[d] # None
                 PROVE  /\ call'[d].pc = "role" /\ call'[d].read # "pending" => s(d) \in Settled
                        /\ call'[d].pc = "conflict" => s(d) \in Settled
                        /\ call'[d].pc = "record" /\ call'[d].refusal.disposition = "conflict" =>
                             s(d) \in Settled /\ call'[d].refusal.state = cardState(s(d))
    BY DEF ConflictGrounded
  <1>2. CASE d = c
    BY <1>2
  <1>3. CASE d # c
    BY <1>1, <1>3 DEF CardInv, ConflictGrounded
  <1> QED BY <1>2, <1>3

(* A replay answers what the receipt says.                                 *)
LEMMA DecodeAgrees ==
    ASSUME CardInv, NEW c \in Calls, call[c] # None,
           receipt[call[c].event] # None, decodeCardActionReceipt(c),
           UNCHANGED <<status, receipt>>
    PROVE  AnswersAgree' /\ ConflictGrounded'
  <1>1. call' = [call EXCEPT ![c] = None]
    BY DEF decodeCardActionReceipt, Reply
  <1>2. ConflictGrounded'
    BY <1>1 DEF CardInv, TypeOK, ConflictGrounded
  <1>3. call[c].event \in Events
    BY CallKinds DEF CardInv
  <1>4. AnswersAgree'
    <2>1. CASE Reply(c, receipt[call[c].event].result)
      BY <1>3, <2>1 DEF Reply, CardInv, TypeOK, AnswersAgree
    <2>2. CASE UNCHANGED answers
      BY <2>2 DEF CardInv, AnswersAgree
    <2> QED BY <2>1, <2>2 DEF decodeCardActionReceipt
  <1> QED BY <1>2, <1>4

(* Settling a request other than by an event of its own.                   *)
LEMMA SettledElsewhere ==
    ASSUME CardInv, NEW r \in Reviews, NEW s \in Settled,
           status[r] = "pending", status' = [status EXCEPT ![r] = s],
           decider' = [decider EXCEPT ![r] = "web"],
           UNCHANGED <<receipt, call, answers>>
    PROVE  /\ SettledByOne' /\ ConflictGrounded' /\ ReceiptsDecide'
           /\ AppliedExactlyOnce' /\ AnswersAgree' /\ ConflictNamesWinner'
  <1>1. \A q \in Reviews : status[q] # "pending" =>
            status'[q] = status[q] /\ decider'[q] = decider[q]
    BY DEF CardInv, TypeOK
  <1>2. decider[r] = None /\ decider'[r] = "web" /\ "web" # None
    BY CardDecisionAssumption DEF CardInv, TypeOK, SettledByOne
  <1>3. s # "pending" /\ \A q \in Settled : q # "pending"
    BY DEF Settled
  <1>4. \A e \in Events : receipt[e] # None =>
            receipt[e].bound.review \in Reviews
    BY DEF CardInv, TypeOK, Receipt, Payload
  <1>5. \A c \in Calls : call[c] # None => call[c].bound.review \in Reviews
    BY CallKinds DEF CardInv
  <1>6. SettledByOne'
    BY <1>2, <1>3 DEF CardInv, TypeOK, SettledByOne
  <1>7. ConflictGrounded'
    BY SMT, <1>1, <1>3, <1>5 DEF CardInv, ConflictGrounded
  <1>8. ReceiptsDecide'
    <2>1. \A e \in Events :
            receipt[e] # None /\ receipt[e].result.disposition = "applied" =>
                receipt[e].bound.review # r
      BY <1>2, CardDecisionAssumption DEF CardInv, ReceiptsDecide
    <2> QED BY <2>1, <1>4 DEF CardInv, TypeOK, ReceiptsDecide
  <1>9. AppliedExactlyOnce'
    <2> SUFFICES ASSUME NEW e \in Events, NEW q \in Reviews
                 PROVE  decider'[q] = e <=>
                          /\ receipt[e] # None
                          /\ receipt[e].bound.review = q
                          /\ receipt[e].result =
                               [disposition |-> "applied",
                                state |-> cardState(status'[q])]
      BY SMT DEF AppliedExactlyOnce
    <2>1. CASE q # r
      <3>1. decider'[q] = decider[q] /\ status'[q] = status[q]
        BY <2>1 DEF CardInv, TypeOK
      <3> QED BY SMT, <3>1 DEF CardInv, AppliedExactlyOnce
    <2>2. CASE q = r
      <3>1. decider'[q] # e
        BY <1>2, <2>2, CardDecisionAssumption
      <3>2. receipt[e] # None /\ receipt[e].result.disposition = "applied" =>
              receipt[e].bound.review # q
        BY <1>2, <2>2, CardDecisionAssumption DEF CardInv, ReceiptsDecide
      <3> QED BY SMT, <3>1, <3>2
    <2> QED BY <2>1, <2>2
  <1>10. AnswersAgree'
    BY DEF CardInv, AnswersAgree
  <1>11. ConflictNamesWinner'
    BY SMT, <1>1, <1>3, <1>4 DEF CardInv, ConflictNamesWinner
  <1> QED BY <1>6, <1>7, <1>8, <1>9, <1>10, <1>11

(* The decision transaction.                                               *)
LEMMA ApplyStep ==
    ASSUME CardInv, NEW c \in Calls, call[c] # None,
           receipt[call[c].event] = None, applyCardDecision(c)
    PROVE  /\ SettledByOne' /\ ConflictGrounded' /\ ReceiptsDecide'
           /\ AppliedExactlyOnce' /\ AnswersAgree' /\ ConflictNamesWinner'
  <1> DEFINE r == call[c].bound.review
             e == call[c].event
             answer == [disposition |-> "applied",
                        state |-> cardState(status'[r])]
  <1>1. r \in Reviews /\ e \in Events
    BY CallKinds DEF CardInv
  <1>2. /\ status[r] = "pending" /\ status'[r] \in Settled
        /\ decider'[r] = e
        /\ \A q \in Reviews : q # r =>
             status'[q] = status[q] /\ decider'[q] = decider[q]
    BY <1>1 DEF applyCardDecision, CardInv, TypeOK, Settled
  <1>3. receipt' = [receipt EXCEPT ![e] = [bound |-> call[c].bound,
                                           result |-> answer]]
    BY DEF applyCardDecision
  <1>4. /\ receipt'[e] = [bound |-> call[c].bound, result |-> answer]
        /\ \A f \in Events : f # e => receipt'[f] = receipt[f]
    BY <1>1, <1>3 DEF CardInv, TypeOK
  <1>5. e # None /\ receipt'[e] # None
    <2>1. receipt'[e] \in Receipt
      <3>1. answer \in Result
        BY <1>2, Protocol
      <3>2. call[c].bound \in Payload
        BY CallKinds DEF CardInv
      <3> QED BY SMT, <1>4, <3>1, <3>2 DEF Receipt
    <2> QED BY <1>1, <2>1, CardDecisionAssumption
  <1>6. decider[r] = None
    BY <1>1, <1>2 DEF CardInv, SettledByOne
  <1>7. \A s \in Settled : s # "pending"
    BY DEF Settled
  <1>8. \A f \in Events : receipt[f] # None => receipt[f].bound.review \in Reviews
    BY DEF CardInv, TypeOK, Receipt, Payload
  <1> HIDE DEF answer, r, e
  <1>9. SettledByOne'
    BY <1>1, <1>2, <1>5, <1>7 DEF CardInv, SettledByOne
  <1>10. ConflictGrounded'
    <2>1. call' = [call EXCEPT ![c] = None]
      BY DEF applyCardDecision, Reply
    <2>2. \A d \in Calls : call[d] # None => call[d].bound.review \in Reviews
      BY CallKinds DEF CardInv
    <2>3. \A q \in Reviews : status[q] \in Settled => status'[q] = status[q]
      BY <1>2, <1>7
    <2>4. \A d \in Calls : call'[d] # None => call'[d] = call[d]
      BY <2>1 DEF CardInv, TypeOK
    <2> QED BY SMT, <2>2, <2>3, <2>4 DEF CardInv, ConflictGrounded
  <1>11. \A f \in Events : receipt[f] # None
           /\ receipt[f].result.disposition = "applied" =>
               receipt[f].bound.review # r
    BY <1>1, <1>6, CardDecisionAssumption DEF CardInv, ReceiptsDecide
  <1>12. ReceiptsDecide'
    <2> SUFFICES ASSUME NEW f \in Events, receipt'[f] # None,
                        receipt'[f].result.disposition = "applied"
                 PROVE  decider'[receipt'[f].bound.review] = f
      BY DEF ReceiptsDecide
    <2>1. CASE f = e
      BY SMT, <1>2, <1>4, <2>1 DEF r
    <2>2. CASE f # e
      BY SMT, <1>2, <1>4, <1>8, <1>11, <2>2 DEF CardInv, ReceiptsDecide
    <2> QED BY <2>1, <2>2
  <1>13. AppliedExactlyOnce'
    <2> SUFFICES ASSUME NEW f \in Events, NEW q \in Reviews
                 PROVE  decider'[q] = f <=>
                          /\ receipt'[f] # None
                          /\ receipt'[f].bound.review = q
                          /\ receipt'[f].result =
                               [disposition |-> "applied",
                                state |-> cardState(status'[q])]
      BY DEF AppliedExactlyOnce
    <2>1. CASE f = e /\ q = r
      BY SMT, <1>2, <1>4, <1>5, <2>1 DEF answer, r
    <2>2. CASE f = e /\ q # r
      <3>1. decider[q] # e
        BY <1>1 DEF CardInv, AppliedExactlyOnce, e
      <3>2. receipt'[e].bound.review # q
        BY SMT, <1>4, <2>2 DEF r
      <3> QED BY <1>2, <2>2, <3>1, <3>2
    <2>3. CASE f # e /\ q = r
      <3>1. decider'[q] # f
        BY <1>2, <2>3
      <3> QED BY SMT, <1>4, <1>11, <2>3, <3>1
    <2>4. CASE f # e /\ q # r
      <3>1. decider'[q] = decider[q] /\ status'[q] = status[q] /\ receipt'[f] = receipt[f]
        BY <1>2, <1>4, <2>4
      <3> QED BY SMT, <3>1 DEF CardInv, AppliedExactlyOnce
    <2> QED BY <2>1, <2>2, <2>3, <2>4
  <1>14. AnswersAgree'
    <2>1. answers[e] = {}
      BY <1>1 DEF CardInv, AnswersAgree, e
    <2>2. \A f \in Events : f # e => answers'[f] = answers[f]
      BY <1>1 DEF applyCardDecision, Reply, CardInv, TypeOK, e
    <2>3. answers'[e] \in {{}, {answer}}
      BY <1>1, <2>1 DEF applyCardDecision, Reply, CardInv, TypeOK, e, r, answer
    <2> SUFFICES ASSUME NEW f \in Events, answers'[f] # {}
                 PROVE  receipt'[f] # None /\ answers'[f] = {receipt'[f].result}
      BY DEF AnswersAgree
    <2>4. CASE f = e
      BY SMT, <1>4, <1>5, <2>3, <2>4
    <2>5. CASE f # e
      BY <1>4, <2>2, <2>5 DEF CardInv, AnswersAgree
    <2> QED BY <2>4, <2>5
  <1>15. ConflictNamesWinner'
    <2> SUFFICES ASSUME NEW f \in Events, receipt'[f] # None,
                        receipt'[f].result.disposition = "conflict"
                 PROVE  LET s == status'[receipt'[f].bound.review] IN
                        s \in Settled /\ receipt'[f].result.state = cardState(s)
      BY DEF ConflictNamesWinner
    <2>1. f # e
      BY SMT, <1>4 DEF answer
    <2>2. status[receipt[f].bound.review] \in Settled
      BY <1>4, <2>1 DEF CardInv, ConflictNamesWinner
    <2>3. status'[receipt[f].bound.review] = status[receipt[f].bound.review]
      BY <1>2, <1>4, <1>7, <1>8, <2>1, <2>2
    <2> QED BY <1>4, <2>1, <2>3 DEF CardInv, ConflictNamesWinner
  <1> QED BY <1>9, <1>10, <1>12, <1>13, <1>14, <1>15

(* Every step preserves the invariant.                                     *)
LEMMA CardInvStep == CardInv /\ [Next]_vars => CardInv'
  <1> SUFFICES ASSUME CardInv, [Next]_vars
               PROVE  CardInv'
    OBVIOUS
  <1> USE DEF CardInv
  <1>0. TypeOK'
    BY TypeStep
  <1>1. ASSUME NEW e \in Events, Click(e)
        PROVE  CardInv'
    <2>1. ConflictGrounded' /\ AnswersAgree'
      BY <1>1 DEF Click, ConflictGrounded, AnswersAgree
    <2> QED BY <1>0, <1>1, <2>1, QuietStep DEF Click
  <1>2. ASSUME NEW c \in Calls, NEW e \in Events, Deliver(c, e)
        PROVE  CardInv'
    <2>1. AnswersAgree'
      BY <1>2 DEF Deliver, AnswersAgree
    <2>2. /\ call'[c].pc = "lookup"
          /\ \A d \in Calls : d # c => call'[d] = call[d]
      BY SMT, <1>2 DEF Deliver, TypeOK
    <2>3. ConflictGrounded'
      BY <1>2, <2>2 DEF Deliver, ConflictGrounded
    <2> QED BY <1>0, <1>2, <2>1, <2>3, QuietStep DEF Deliver
  <1>3. ASSUME NEW c \in Calls, Fault(c)
        PROVE  CardInv'
    <2>1. ConflictGrounded' /\ AnswersAgree'
      BY <1>3 DEF Fault, ConflictGrounded, AnswersAgree, TypeOK
    <2> QED BY <1>0, <1>3, <2>1, QuietStep DEF Fault
  <1>4. ASSUME NEW c \in Calls, GetCardActionReceipt(c)
        PROVE  CardInv'
    <2>1. CASE receipt[call[c].event] # None
      BY <1>0, <1>4, <2>1, DecodeAgrees, QuietStep DEF GetCardActionReceipt
    <2>2. CASE receipt[call[c].event] = None
      <3>1. /\ call'[c].pc = "load"
            /\ \A d \in Calls : d # c => call'[d] = call[d]
        <4>1. call[c] \in Reading
          BY <1>4, CallKinds DEF GetCardActionReceipt
        <4> QED BY <1>4, <2>2, <4>1
                DEF GetCardActionReceipt, GoTo, TypeOK, Reading
      <3>2. ConflictGrounded' /\ AnswersAgree'
        BY <1>4, <2>2, <3>1
           DEF GetCardActionReceipt, ConflictGrounded, AnswersAgree
      <3> QED BY <1>0, <1>4, <3>2, QuietStep DEF GetCardActionReceipt
    <2> QED BY <2>1, <2>2
  <1>5. ASSUME NEW c \in Calls, GetReviewRequestAnySpace(c)
        PROVE  CardInv'
    <2> DEFINE r == call[c].bound.review
    <2>1. call[c] \in Reading /\ r \in Reviews
      BY <1>5, CallKinds DEF GetReviewRequestAnySpace
    <2>2. /\ \A d \in Calls : d # c => call'[d] = call[d]
          /\ \/ call'[c].pc = "record" /\ call'[c].refusal = NotFound
             \/ /\ call'[c].pc = "role" /\ call'[c].read = status[r]
                /\ call'[c].bound = call[c].bound
      <3>1. CASE r \in gone
        BY SMT, <1>5, <3>1 DEF GetReviewRequestAnySpace, Refuse, TypeOK
      <3>2. CASE r \notin gone
        BY SMT, <1>5, <2>1, <3>2 DEF GetReviewRequestAnySpace, TypeOK, Reading
      <3> QED BY <3>1, <3>2
    <2>3. status[r] # "pending" => status[r] \in Settled
      BY <2>1 DEF TypeOK
    <2>4. ConflictGrounded'
      BY SMT, <1>5, <2>2, <2>3
         DEF GetReviewRequestAnySpace, ConflictGrounded, NotFound
    <2>5. AnswersAgree'
      BY <1>5 DEF GetReviewRequestAnySpace, AnswersAgree
    <2> QED BY <1>0, <1>5, <2>4, <2>5, QuietStep DEF GetReviewRequestAnySpace
  <1>6. ASSUME NEW c \in Calls, operatorRole(c)
        PROVE  CardInv'
    <2>1. call[c] \in Reading
      BY <1>6, CallKinds DEF operatorRole
    <2>2. /\ \A d \in Calls : d # c => call'[d] = call[d]
          /\ \/ call'[c].pc = "record" /\ call'[c].refusal = Forbidden
             \/ call'[c].pc = "apply"
             \/ /\ call'[c].pc = "conflict" /\ call[c].read # "pending"
                /\ call'[c].bound = call[c].bound
      <3>1. CASE call[c].bound.operator \notin admin
        BY SMT, <1>6, <3>1 DEF operatorRole, Refuse, TypeOK
      <3>2. CASE call[c].bound.operator \in admin
        BY SMT, <1>6, <2>1, <3>2 DEF operatorRole, GoTo, TypeOK, Reading
      <3> QED BY <3>1, <3>2
    <2>3. ConflictGrounded'
      <3>1. call[c].read # "pending" => status[call[c].bound.review] \in Settled
        BY <1>6 DEF operatorRole, ConflictGrounded
      <3>2. UNCHANGED status
        BY <1>6 DEF operatorRole
      <3>3. Forbidden.disposition # "conflict"
        BY DEF Forbidden
      <3> QED BY <1>0, <2>2, <3>1, <3>2, <3>3, GroundedStep
    <2>4. AnswersAgree'
      BY <1>6 DEF operatorRole, AnswersAgree
    <2> QED BY <1>0, <1>6, <2>3, <2>4, QuietStep DEF operatorRole
  <1>7. ASSUME NEW c \in Calls, decideCardAction(c)
        PROVE  CardInv'
    <2> DEFINE r == call[c].bound.review
    <2>1. call[c] \in Reading /\ r \in Reviews
      BY <1>7, CallKinds DEF decideCardAction
    <2>2. CASE receipt[call[c].event] # None
      <3>1. /\ call'[c].pc = "replay"
            /\ \A d \in Calls : d # c => call'[d] = call[d]
        BY <1>7, <2>1, <2>2 DEF decideCardAction, GoTo, TypeOK, Reading
      <3>2. ConflictGrounded' /\ AnswersAgree'
        BY <1>7, <2>2, <3>1 DEF decideCardAction, ConflictGrounded, AnswersAgree
      <3> QED BY <1>0, <1>7, <2>2, <3>2, QuietStep DEF decideCardAction
    <2>3. CASE receipt[call[c].event] = None /\ applyCardDecision(c)
      BY <1>0, <1>7, <2>3, ApplyStep DEF decideCardAction
    <2>4. CASE refuseCardDecision(c)
      <3>1. /\ \A d \in Calls : d # c => call'[d] = call[d]
            /\ \/ call'[c] = None
               \/ /\ call'[c].pc = "record"
                  /\ call'[c].refusal \in {NotFound, Forbidden}
               \/ /\ call'[c].pc = "conflict" /\ status[r] # "pending"
                  /\ call'[c].bound = call[c].bound
        <4>1. \/ Refuse(c, NotFound) \/ Refuse(c, Forbidden)
              \/ GoTo(c, "conflict") /\ status[r] # "pending"
              \/ call' = [call EXCEPT ![c] = None]
          BY <2>4 DEF refuseCardDecision
        <4>2. CASE Refuse(c, NotFound) \/ Refuse(c, Forbidden)
          BY SMT, <4>2 DEF Refuse, TypeOK
        <4>3. CASE GoTo(c, "conflict") /\ status[r] # "pending"
          BY <2>1, <4>3 DEF GoTo, TypeOK, Reading
        <4>4. CASE call' = [call EXCEPT ![c] = None]
          BY <4>4 DEF TypeOK
        <4> QED BY <4>1, <4>2, <4>3, <4>4
      <3>2. status[r] # "pending" => status[r] \in Settled
        BY <2>1 DEF TypeOK
      <3>3. ConflictGrounded'
        BY SMT, <2>4, <3>1, <3>2
           DEF refuseCardDecision, ConflictGrounded, NotFound, Forbidden
      <3>4. AnswersAgree'
        BY <2>4 DEF refuseCardDecision, AnswersAgree
      <3> QED BY <1>0, <2>4, <3>3, <3>4, QuietStep DEF refuseCardDecision
    <2> QED BY <1>7, <2>2, <2>3, <2>4 DEF decideCardAction
  <1>8. ASSUME NEW c \in Calls, cardConflict(c)
        PROVE  CardInv'
    <2> DEFINE r == call[c].bound.review
               x == IF r \in gone THEN NotFound
                    ELSE [disposition |-> "conflict",
                          state |-> cardState(status[r])]
    <2>1. status[r] \in Settled
      BY <1>8 DEF cardConflict, ConflictGrounded
    <2>2. Refuse(c, x)
      BY <1>8 DEF cardConflict
    <2>3. /\ \A d \in Calls : d # c => call'[d] = call[d]
          /\ call'[c].pc = "record" /\ call'[c].refusal = x
          /\ call'[c].bound = call[c].bound
      BY <2>2 DEF Refuse, TypeOK
    <2>4. ConflictGrounded'
      <3>1. UNCHANGED status
        BY <1>8 DEF cardConflict
      <3>2. x.disposition = "conflict" => x.state = cardState(status[r])
        BY DEF NotFound
      <3> QED BY <1>0, <2>1, <2>3, <3>1, <3>2, GroundedStep
    <2>5. AnswersAgree'
      BY <1>8 DEF cardConflict, AnswersAgree
    <2> QED BY <1>0, <1>8, <2>4, <2>5, QuietStep DEF cardConflict
  <1>9. ASSUME NEW c \in Calls, InsertCardActionReceipt(c)
        PROVE  CardInv'
    <2> DEFINE e == call[c].event
    <2>1. e \in Events /\ call[c] \in Recording /\ call[c].bound.review \in Reviews
      BY <1>9, CallKinds DEF InsertCardActionReceipt
    <2>2. CASE receipt[e] # None
      <3>1. /\ call'[c].pc = "replay"
            /\ \A d \in Calls : d # c => call'[d] = call[d]
        BY SMT, <1>9, <2>2 DEF InsertCardActionReceipt, TypeOK
      <3>2. ConflictGrounded' /\ AnswersAgree'
        BY <1>9, <2>2, <3>1
           DEF InsertCardActionReceipt, ConflictGrounded, AnswersAgree
      <3> QED BY <1>0, <1>9, <2>2, <3>2, QuietStep DEF InsertCardActionReceipt
    <2>3. CASE receipt[e] = None
      <3>1. /\ receipt'[e] = [bound |-> call[c].bound,
                              result |-> call[c].refusal]
            /\ \A f \in Events : f # e => receipt'[f] = receipt[f]
            /\ UNCHANGED <<status, decider>>
        BY <1>9, <2>1, <2>3 DEF InsertCardActionReceipt, TypeOK
      <3>2. call[c].refusal.disposition # "applied"
        BY <2>1 DEF Recording, Refusal
      <3>3. receipt'[e] # None
        <4>1. receipt'[e] \in Receipt
          BY SMT, <2>1, <3>1 DEF Recording, Refusal, Receipt
        <4> QED BY <4>1, CardDecisionAssumption
      <3>4. /\ call' = [call EXCEPT ![c] = None]
            /\ answers' = [answers EXCEPT ![e] = @ \cup {call[c].refusal}]
        BY <1>9, <2>3 DEF InsertCardActionReceipt, Reply
      <3>5. ConflictGrounded'
        BY <3>1, <3>4 DEF TypeOK, ConflictGrounded
      <3>6. SettledByOne'
        BY <3>1 DEF SettledByOne
      <3>7. ReceiptsDecide'
        BY SMT, <3>1, <3>2 DEF ReceiptsDecide
      <3>8. AppliedExactlyOnce'
        <4>1. \A q \in Reviews : decider[q] # e
          BY <2>1, <2>3 DEF AppliedExactlyOnce
        <4>2. \A f \in Events, q \in Reviews :
                receipt'[e].result # [disposition |-> "applied",
                                      state |-> cardState(status[q])]
          BY SMT, <3>1, <3>2
        <4> SUFFICES ASSUME NEW f \in Events, NEW q \in Reviews
                     PROVE  decider[q] = f <=>
                              /\ receipt'[f] # None
                              /\ receipt'[f].bound.review = q
                              /\ receipt'[f].result =
                                   [disposition |-> "applied",
                                    state |-> cardState(status[q])]
          BY SMT, <3>1 DEF AppliedExactlyOnce
        <4>3. CASE f = e
          BY <4>1, <4>2, <4>3
        <4>4. CASE f # e
          BY SMT, <3>1, <4>4 DEF AppliedExactlyOnce
        <4> QED BY <4>3, <4>4
      <3>9. AnswersAgree'
        <4>1. answers[e] = {}
          BY <2>1, <2>3 DEF AnswersAgree
        <4>2. /\ answers'[e] = {call[c].refusal}
              /\ \A f \in Events : f # e => answers'[f] = answers[f]
          BY <2>1, <3>4, <4>1 DEF TypeOK
        <4> QED BY SMT, <3>1, <3>3, <4>2 DEF AnswersAgree
      <3>10. ConflictNamesWinner'
        <4>1. call[c].refusal.disposition = "conflict" =>
                /\ status[call[c].bound.review] \in Settled
                /\ call[c].refusal.state =
                     cardState(status[call[c].bound.review])
          BY <1>9 DEF InsertCardActionReceipt, ConflictGrounded
        <4> SUFFICES ASSUME NEW f \in Events, receipt'[f] # None,
                            receipt'[f].result.disposition = "conflict"
                     PROVE  /\ status[receipt'[f].bound.review] \in Settled
                            /\ receipt'[f].result.state =
                                 cardState(status[receipt'[f].bound.review])
          BY <3>1 DEF ConflictNamesWinner
        <4>2. CASE f = e
          BY SMT, <3>1, <4>1, <4>2
        <4>3. CASE f # e
          BY <3>1, <4>3 DEF ConflictNamesWinner
        <4> QED BY <4>2, <4>3
      <3> QED BY <1>0, <3>5, <3>6, <3>7, <3>8, <3>9, <3>10
    <2> QED BY <2>2, <2>3
  <1>10. ASSUME NEW c \in Calls, replayCardAction(c)
         PROVE  CardInv'
    BY <1>0, <1>10, DecodeAgrees, QuietStep DEF replayCardAction
  <1>11. ASSUME NEW r \in Reviews, SettleElsewhere(r)
         PROVE  CardInv'
    <2>1. PICK s \in Settled : status' = [status EXCEPT ![r] = s]
      BY <1>11 DEF SettleElsewhere
    <2> QED BY <1>0, <1>11, <2>1, SettledElsewhere DEF SettleElsewhere
  <1>12. ASSUME NEW r \in Reviews, DeletePlugin(r)
         PROVE  CardInv'
    <2>1. CASE status[r] = "pending"
      <3>1. /\ status' = [status EXCEPT ![r] = "canceled"]
            /\ decider' = [decider EXCEPT ![r] = "web"]
        BY <1>12, <2>1 DEF DeletePlugin, TypeOK
      <3>2. "canceled" \in Settled
        BY DEF Settled
      <3> QED BY <1>0, <1>12, <2>1, <3>1, <3>2, SettledElsewhere
              DEF DeletePlugin
    <2>2. CASE status[r] # "pending"
      <3>1. status' = status /\ decider' = decider
        BY <1>12, <2>2 DEF DeletePlugin, TypeOK
      <3>2. ConflictGrounded' /\ AnswersAgree'
        BY <1>12, <3>1 DEF DeletePlugin, ConflictGrounded, AnswersAgree
      <3> QED BY <1>0, <1>12, <3>1, <3>2, QuietStep DEF DeletePlugin
    <2> QED BY <2>1, <2>2
  <1>13. ASSUME NEW r \in Reviews, TroubleAppears(r)
         PROVE  CardInv'
    <2>1. ConflictGrounded' /\ AnswersAgree'
      BY <1>13 DEF TroubleAppears, ConflictGrounded, AnswersAgree
    <2> QED BY <1>0, <1>13, <2>1, QuietStep DEF TroubleAppears
  <1>14. ASSUME NEW o \in Operators, RoleChanges(o)
         PROVE  CardInv'
    <2>1. ConflictGrounded' /\ AnswersAgree'
      BY <1>14 DEF RoleChanges, ConflictGrounded, AnswersAgree
    <2> QED BY <1>0, <1>14, <2>1, QuietStep DEF RoleChanges
  <1>15. CASE UNCHANGED vars
    <2>1. ConflictGrounded' /\ AnswersAgree'
      BY <1>15 DEF vars, ConflictGrounded, AnswersAgree
    <2> QED BY <1>0, <1>15, <2>1, QuietStep DEF vars
  <1> QED BY <1>1, <1>2, <1>3, <1>4, <1>5, <1>6, <1>7, <1>8, <1>9, <1>10,
             <1>11, <1>12, <1>13, <1>14, <1>15 DEF Next, CallStep

(* However often an event is delivered, and however the deliveries race    *)
(* with each other, with a web decision or with a deletion: it is applied  *)
(* at most once and exactly when its receipt says so, every answer is the  *)
(* receipt's, and a conflict names the outcome that won.                   *)
THEOREM DecisionsExactlyOnce ==
    Spec => [](AppliedExactlyOnce /\ AnswersAgree /\ ConflictNamesWinner)
  <1>1. Init => CardInv
    <2> SUFFICES ASSUME Init PROVE CardInv
      OBVIOUS
    <2>1. TypeOK
      BY DEF Init, TypeOK
    <2>2. \A e \in Events : e # None
      BY CardDecisionAssumption
    <2> QED BY <2>1, <2>2
            DEF Init, CardInv, SettledByOne, ConflictGrounded, ReceiptsDecide,
                AppliedExactlyOnce, AnswersAgree, ConflictNamesWinner
  <1>2. CardInv => AppliedExactlyOnce /\ AnswersAgree /\ ConflictNamesWinner
    BY DEF CardInv
  <1> QED BY <1>1, <1>2, CardInvStep, PTL DEF Spec


(* Every answer to an event is the one its receipt records                 *)
(* (decideCardAction's replay).                                            *)
THEOREM AnswersAreReceipts == Spec => []AnswersAgree
  BY DecisionsExactlyOnce, PTL

(* A conflict names the outcome that won (ErrReviewDecided).               *)
THEOREM ConflictsNameWinner == Spec => []ConflictNamesWinner
  BY DecisionsExactlyOnce, PTL

(* All deliveries of one event get the stored answer, and a conflict names *)
(* the outcome that won (Decide, cardConflict).                            *)
THEOREM AnswersAreSound == Spec => []AnswersSound
  <1>1. AnswersAgree /\ ConflictNamesWinner => AnswersSound
    BY DEF AnswersSound
  <1> QED BY <1>1, DecisionsExactlyOnce, PTL


(* Only the delivery that ends is answered.                                *)
LEMMA OthersStay ==
    ASSUME TypeOK, NEW c \in Calls, call' = [call EXCEPT ![c] = None],
           NEW d \in Calls, call[d] # None, call'[d] = None
    PROVE  d = c
  BY DEF TypeOK

LEMMA DecodeIsBound ==
    ASSUME TypeOK, NEW c \in Calls, decodeCardActionReceipt(c), UNCHANGED receipt
    PROVE  RepliesAsBound
  <1>1. call' = [call EXCEPT ![c] = None]
    BY DEF decodeCardActionReceipt, Reply
  <1>2. CASE receipt[call[c].event].bound = call[c].bound
    BY <1>1, <1>2, OthersStay DEF RepliesAsBound
  <1>3. CASE UNCHANGED answers
    BY <1>3 DEF RepliesAsBound
  <1> QED BY <1>2, <1>3 DEF decodeCardActionReceipt

LEMMA BoundStep ==
    ASSUME TypeOK, [Next]_vars
    PROVE  [RepliesAsBound]_vars
  <1>1. ASSUME UNCHANGED answers PROVE RepliesAsBound
    BY <1>1 DEF RepliesAsBound
  <1>2. ASSUME NEW c \in Calls, GetCardActionReceipt(c) \/ replayCardAction(c)
        PROVE  RepliesAsBound
    BY <1>1, <1>2, DecodeIsBound DEF GetCardActionReceipt, replayCardAction
  <1>3. ASSUME NEW c \in Calls, decideCardAction(c)
        PROVE  RepliesAsBound
    <2>1. CASE applyCardDecision(c)
      <3>1. PICK e \in Events : e = call[c].event
        BY <1>3, CallKinds DEF decideCardAction
      <3>2. PICK answer : receipt' = [receipt EXCEPT ![e] = [bound |-> call[c].bound,
                                                            result |-> answer]]
        BY <2>1, <3>1 DEF applyCardDecision
      <3>3. receipt'[e].bound = call[c].bound
        BY <3>1, <3>2 DEF TypeOK
      <3>4. call' = [call EXCEPT ![c] = None]
        BY <2>1 DEF applyCardDecision, Reply
      <3> QED BY <3>1, <3>3, <3>4, OthersStay DEF RepliesAsBound
    <2>2. CASE UNCHANGED answers
      BY <1>1, <2>2
    <2> QED BY <1>3, <2>1, <2>2 DEF decideCardAction, refuseCardDecision
  <1>4. ASSUME NEW c \in Calls, InsertCardActionReceipt(c)
        PROVE  RepliesAsBound
    <2>1. PICK e \in Events : e = call[c].event
      BY <1>4, CallKinds DEF InsertCardActionReceipt
    <2>2. CASE receipt[e] = None
      <3>1. /\ receipt' = [receipt EXCEPT ![e] = [bound |-> call[c].bound,
                                                  result |-> call[c].refusal]]
            /\ call' = [call EXCEPT ![c] = None]
        BY <1>4, <2>1, <2>2 DEF InsertCardActionReceipt, Reply
      <3>2. receipt'[e].bound = call[c].bound
        BY <2>1, <3>1 DEF TypeOK
      <3> QED BY <2>1, <3>1, <3>2, OthersStay DEF RepliesAsBound
    <2>3. CASE receipt[e] # None
      BY <1>1, <1>4, <2>1, <2>3 DEF InsertCardActionReceipt
    <2> QED BY <2>2, <2>3
  <1>5. ASSUME NEW c \in Calls,
               \/ GetReviewRequestAnySpace(c) \/ operatorRole(c) \/ cardConflict(c)
               \/ Fault(c)
        PROVE  UNCHANGED answers
    BY <1>5 DEF GetReviewRequestAnySpace, operatorRole, cardConflict, Fault
  <1>6. ASSUME \/ \E e \in Events : Click(e)
               \/ \E c \in Calls, e \in Events : Deliver(c, e)
               \/ \E r \in Reviews : SettleElsewhere(r) \/ DeletePlugin(r) \/ TroubleAppears(r)
               \/ \E o \in Operators : RoleChanges(o)
        PROVE  UNCHANGED answers
    BY <1>6 DEF Click, Deliver, SettleElsewhere, DeletePlugin, TroubleAppears, RoleChanges
  <1>7. CASE Next
    BY <1>1, <1>2, <1>3, <1>4, <1>5, <1>6, <1>7 DEF Next, CallStep
  <1> QED BY <1>7

(* ReplayIsBound: a receipt answers only deliveries of the payload it was  *)
(* recorded for (decodeCardActionReceipt), even if an event id comes back  *)
(* with another one.                                                       *)
THEOREM ReceiptsAnswerTheirPayload == Spec => ReplayIsBound
  <1>1. TypeOK /\ [Next]_vars => [RepliesAsBound]_vars
    BY BoundStep
  <1> QED BY <1>1, TypeCorrect, PTL DEF Spec, ReplayIsBound

-----------------------------------------------------------------------------
(* MCP servers.  A PATCH or an icon upload writes back a whole row it read *)
(* before: the invariant says of the row a call carries what the theorems  *)
(* say of the rows in the table.                                           *)

Columns == [state : {"absent", "live", "deleted"},
            name : McpNames \cup Official \cup {Nothing},
            slug : McpNames \cup Official \cup {Nothing},
            transport : Mcp!Transports, url : Mcp!Urls, cmd : BOOLEAN,
            icon : Nat, version : 0..MaxIcons]

(* What the proofs assume of the constants: Nothing is nobody's name.      *)
McpSetting == Nothing \notin Official /\ MaxIcons \in Nat /\ MaxErrors \in Nat

CallRecord == [at : {"new", "put", "write", "ended"}, id : Mcps \cup {Nothing},
               base : Columns, new : Columns]

Typed == server \in [Mcps -> Columns] /\ request \in [Callers -> CallRecord]

(* Nothing official, unless the row is from before the rules.              *)
OwnName(id, r) == id \notin Old => r.name \notin Official /\ r.slug \notin Official

Connects(id, r) == id \notin Old => Mcp!Usable(r)

Shown(id, r) == r.icon # 0 => <<id, r.icon>> \in icons

RowsSound ==
  \A id \in Mcps : /\ OwnName(id, server[id])
                   /\ server[id].state = "live" => Connects(id, server[id])
                   /\ Shown(id, server[id])

(* What a call is about to write.  An upload stores the icon first.        *)
CallsSound ==
  \A c \in Callers : request[c].at \in {"put", "write"} =>
    /\ request[c].id \in Mcps /\ request[c].new.state = "live"
    /\ OwnName(request[c].id, request[c].new) /\ Connects(request[c].id, request[c].new)
    /\ IF request[c].at = "write" THEN Shown(request[c].id, request[c].new)
       ELSE request[c].new.icon = request[c].new.version /\ request[c].new.version # 0

IconsTyped == icons \subseteq Mcps \X (1..MaxIcons) /\ errors \in 0..MaxErrors

CatalogInv == Typed /\ RowsSound /\ CallsSound

LEMMA NoRowTyped ==
  ASSUME McpSetting
  PROVE  Mcp!NoRow \in Columns /\ Mcp!NewCall \in CallRecord
  BY SMT
     DEF McpSetting, Mcp!NoRow, Mcp!NewCall, Columns, CallRecord, Mcp!Transports, Mcp!Urls

LEMMA RowIs ==
  ASSUME CatalogInv, NEW id \in Mcps
  PROVE  /\ OwnName(id, server[id]) /\ Shown(id, server[id])
         /\ server[id].state = "live" => Connects(id, server[id])
  BY DEF CatalogInv, RowsSound

(* One row is written, none of the calls moves.                            *)
LEMMA RowWritten ==
  ASSUME Typed, RowsSound, NEW id \in Mcps, NEW r \in Columns,
         server' = [server EXCEPT ![id] = r], icons' = icons,
         OwnName(id, r), r.state = "live" => Connects(id, r), Shown(id, r)
  PROVE  server' \in [Mcps -> Columns] /\ RowsSound'
  <1>1. /\ server' \in [Mcps -> Columns] /\ server'[id] = r
        /\ \A jd \in Mcps : jd # id => server'[jd] = server[jd]
    BY DEF Typed
  <1>2. \A jd \in Mcps : server'[jd].icon # 0 => <<jd, server'[jd].icon>> \in icons'
    BY <1>1 DEF Shown, RowsSound
  <1> QED BY <1>1, <1>2 DEF RowsSound, Shown, OwnName, Connects, Mcp!Usable,
             Mcp!validateTransportFields, Mcp!validateConnectionURL

(* One call moves.                                                         *)
LEMMA CallMoved ==
  ASSUME Typed, CallsSound, NEW c \in Callers, NEW k \in CallRecord,
         request' = [request EXCEPT ![c] = k], icons \subseteq icons',
         k.at \in {"put", "write"} =>
           /\ k.id \in Mcps /\ k.new.state = "live"
           /\ OwnName(k.id, k.new) /\ Connects(k.id, k.new)
           /\ IF k.at = "write" THEN k.new.icon # 0 => <<k.id, k.new.icon>> \in icons'
              ELSE k.new.icon = k.new.version /\ k.new.version # 0
  PROVE  request' \in [Callers -> CallRecord] /\ CallsSound'
  <1>1. /\ request' \in [Callers -> CallRecord] /\ request'[c] = k
        /\ \A d \in Callers : d # c => request'[d] = request[d]
    BY DEF Typed
  <1>2. ASSUME NEW d \in Callers, request'[d].at \in {"put", "write"}
        PROVE  /\ request'[d].id \in Mcps /\ request'[d].new.state = "live"
               /\ OwnName(request'[d].id, request'[d].new)
               /\ Connects(request'[d].id, request'[d].new)
               /\ IF request'[d].at = "write"
                  THEN request'[d].new.icon # 0 => <<request'[d].id, request'[d].new.icon>> \in icons'
                  ELSE request'[d].new.icon = request'[d].new.version /\ request'[d].new.version # 0
    <2>1. CASE d = c
      BY <1>1, <1>2, <2>1
    <2>2. CASE d # c
      BY <1>1, <1>2, <2>2 DEF CallsSound, Shown
    <2> QED BY <2>1, <2>2
  <1> QED BY <1>1, <1>2 DEF CallsSound, Shown, OwnName, Connects, Mcp!Usable,
             Mcp!validateTransportFields, Mcp!validateConnectionURL

(* The rows of a state whose table did not move.                           *)
LEMMA RowsKept ==
  ASSUME RowsSound, server' = server, icons \subseteq icons'
  PROVE  RowsSound'
  BY DEF RowsSound, OwnName, Connects, Mcp!Usable, Shown, Mcp!validateTransportFields,
         Mcp!validateConnectionURL

LEMMA CallsKept ==
  ASSUME CallsSound, request' = request, icons' = icons
  PROVE  CallsSound'
  BY DEF CallsSound, OwnName, Connects, Mcp!Usable, Shown, Mcp!validateTransportFields,
         Mcp!validateConnectionURL

(* A patched row keeps to the rules its row kept to: a name or a slug that *)
(* changes is checked, and a connection that changes is checked as a whole *)
(* (applyPatch, checkSystemName, checkSystemSlug).                         *)
LEMMA PatchSound ==
  ASSUME McpSetting, CatalogInv, NEW c \in Callers, NEW id \in Mcps, NEW p \in Mcp!Patches,
         Mcp!Patch(c, id, p)
  PROVE  CatalogInv'
  <1> DEFINE m == [server[id] EXCEPT !.name = p.name, !.slug = p.slug,
                     !.transport = p.transport, !.url = p.url, !.cmd = p.cmd]
             k == [at |-> "write", id |-> id, base |-> server[id], new |-> m]
  <1>1. server[id] \in Columns /\ server[id].state = "live"
    BY DEF Mcp!Patch, CatalogInv, Typed
  <1>2. /\ m \in Columns /\ m.state = "live" /\ m.name = p.name /\ m.slug = p.slug
        /\ m.transport = p.transport /\ m.url = p.url /\ m.cmd = p.cmd
        /\ m.icon = server[id].icon
    BY <1>1 DEF Columns, Mcp!Patches
  <1>3. /\ <<p.transport, p.url, p.cmd>> # <<server[id].transport, server[id].url, server[id].cmd>>
             => Mcp!Usable(m)
        /\ request' = [request EXCEPT ![c] = k] /\ UNCHANGED <<server, icons>>
        /\ p.name # server[id].name => p.name \notin Official
        /\ p.slug # server[id].slug => p.slug \notin Official
    BY DEF Mcp!Patch, Mcp!applyPatch, Mcp!Loads, Mcp!checkSystemName, Mcp!checkSystemSlug
  <1> HIDE DEF m
  <1>4. OwnName(id, m) /\ Shown(id, m)
    BY <1>2, <1>3, RowIs DEF OwnName, Shown
  <1>5. Connects(id, m)
    <2>1. Connects(id, server[id])
      BY <1>1, RowIs
    <2> QED BY <1>2, <1>3, <2>1 DEF Connects, Mcp!Usable, Mcp!validateTransportFields,
               Mcp!validateConnectionURL
  <1>6. k \in CallRecord
    BY <1>1, <1>2 DEF CallRecord
  <1>7. k.at = "write" /\ k.id = id /\ k.new = m
    OBVIOUS
  <1> HIDE DEF k
  <1>8. request' \in [Callers -> CallRecord] /\ CallsSound'
    BY <1>2, <1>3, <1>4, <1>5, <1>6, <1>7, CallMoved DEF CatalogInv, Shown
  <1> QED BY <1>3, <1>8, RowsKept DEF CatalogInv, Typed

LEMMA UploadSound ==
  ASSUME McpSetting, CatalogInv, NEW c \in Callers, NEW id \in Mcps, Mcp!UploadIcon(c, id)
  PROVE  CatalogInv'
  <1> DEFINE v == server[id].version + 1
             m == [server[id] EXCEPT !.icon = v, !.version = v]
             k == [at |-> "put", id |-> id, base |-> server[id], new |-> m]
  <1>1. server[id] \in Columns /\ server[id].state = "live"
    BY DEF Mcp!UploadIcon, CatalogInv, Typed
  <1>3. request' = [request EXCEPT ![c] = k] /\ UNCHANGED <<server, icons>>
    BY DEF Mcp!UploadIcon, Mcp!Loads
  <1>v. v \in 1..MaxIcons
    BY SMT, <1>1 DEF Columns, Mcp!UploadIcon, McpSetting
  <1> HIDE DEF v
  <1>2. /\ m \in Columns /\ m.state = "live" /\ m.name = server[id].name
        /\ m.slug = server[id].slug /\ m.transport = server[id].transport
        /\ m.url = server[id].url /\ m.cmd = server[id].cmd /\ m.icon = m.version /\ m.version # 0
    <2>1. v \in Nat /\ v # 0 /\ v \in 0..MaxIcons
      BY SMT, <1>v DEF McpSetting
    <2> QED BY <1>1, <2>1 DEF Columns
  <1> HIDE DEF m
  <1>4. OwnName(id, m) /\ Connects(id, m)
    <2>1. OwnName(id, server[id]) /\ Connects(id, server[id])
      BY <1>1, RowIs
    <2> QED BY <1>2, <2>1 DEF OwnName, Connects, Mcp!Usable, Mcp!validateTransportFields,
               Mcp!validateConnectionURL
  <1>5. k \in CallRecord /\ k.at = "put" /\ k.id = id /\ k.new = m
    BY <1>1, <1>2 DEF CallRecord
  <1> HIDE DEF k
  <1>6. request' \in [Callers -> CallRecord] /\ CallsSound'
    BY <1>2, <1>3, <1>4, <1>5, CallMoved DEF CatalogInv
  <1> QED BY <1>3, <1>6, RowsKept DEF CatalogInv, Typed

LEMMA PutSound ==
  ASSUME McpSetting, CatalogInv, NEW c \in Callers, Mcp!PutIcon(c)
  PROVE  CatalogInv'
  <1>0. request[c] \in CallRecord /\ request[c].at = "put" /\ server' = server
    BY DEF Mcp!PutIcon, CatalogInv, Typed
  <1>1. CASE /\ icons' = icons \cup {<<request[c].id, request[c].new.version>>}
             /\ request' = [request EXCEPT ![c].at = "write"]
    <2> DEFINE k == [request[c] EXCEPT !.at = "write"]
    <2>1. k \in CallRecord /\ k.at = "write" /\ k.id = request[c].id /\ k.new = request[c].new
      BY <1>0 DEF CallRecord
    <2>2. request' = [request EXCEPT ![c] = k]
      BY <1>1
    <2> HIDE DEF k
    <2>3. /\ k.id \in Mcps /\ k.new.state = "live"
          /\ OwnName(k.id, k.new) /\ Connects(k.id, k.new)
          /\ k.new.icon = k.new.version /\ k.new.version # 0
      BY <1>0, <2>1 DEF CatalogInv, CallsSound
    <2>4. request' \in [Callers -> CallRecord] /\ CallsSound'
      BY <1>1, <2>1, <2>2, <2>3, CallMoved DEF CatalogInv
    <2> QED BY <1>0, <1>1, <2>4, RowsKept DEF CatalogInv, Typed
  <1>2. CASE request' = [request EXCEPT ![c] = [Mcp!NewCall EXCEPT !.at = "ended"]] /\ icons' = icons
    <2> DEFINE k == [Mcp!NewCall EXCEPT !.at = "ended"]
    <2>1. k \in CallRecord /\ k.at = "ended"
      BY NoRowTyped DEF CallRecord
    <2>2. request' = [request EXCEPT ![c] = k]
      BY <1>2
    <2> HIDE DEF k
    <2>3. request' \in [Callers -> CallRecord] /\ CallsSound'
      BY <1>2, <2>1, <2>2, CallMoved DEF CatalogInv
    <2> QED BY <1>0, <1>2, <2>3, RowsKept DEF CatalogInv, Typed
  <1> QED BY <1>1, <1>2 DEF Mcp!PutIcon

(* The write replaces the row by the one the call carries, whatever was    *)
(* written since it was read.                                              *)
LEMMA UpdateSound ==
  ASSUME McpSetting, CatalogInv, NEW c \in Callers, Mcp!Update(c)
  PROVE  CatalogInv'
  <1> DEFINE k == [Mcp!NewCall EXCEPT !.at = "ended"]
  <1>1. k \in CallRecord /\ k.at = "ended"
    BY NoRowTyped DEF CallRecord
  <1>2. request' = [request EXCEPT ![c] = k] /\ icons' = icons /\ request[c].at = "write"
    BY DEF Mcp!Update
  <1> HIDE DEF k
  <1>3. request' \in [Callers -> CallRecord] /\ CallsSound'
    BY <1>1, <1>2, CallMoved DEF CatalogInv
  <1>4. CASE server' = server
    BY <1>2, <1>3, <1>4, RowsKept DEF CatalogInv, Typed
  <1>5. CASE server' = [server EXCEPT ![request[c].id] = request[c].new]
    <2>1. /\ request[c].id \in Mcps /\ request[c].new \in Columns
          /\ OwnName(request[c].id, request[c].new) /\ Connects(request[c].id, request[c].new)
          /\ Shown(request[c].id, request[c].new)
      BY <1>2 DEF CatalogInv, CallsSound, Typed, CallRecord
    <2>2. PICK id \in Mcps, r \in Columns : id = request[c].id /\ r = request[c].new
      BY <2>1
    <2>3. server' \in [Mcps -> Columns] /\ RowsSound'
      BY <1>2, <1>5, <2>1, <2>2, RowWritten DEF CatalogInv
    <2> QED BY <1>3, <2>3 DEF CatalogInv, Typed
  <1> QED BY <1>4, <1>5 DEF Mcp!Update

LEMMA CreateSound ==
  ASSUME McpSetting, CatalogInv, NEW id \in Mcps, NEW n \in McpNames, NEW s \in McpNames,
         NEW t \in Mcp!Transports, NEW url \in Mcp!Urls, NEW cmd \in BOOLEAN,
         Mcp!Create(id, n, s, t, url, cmd)
  PROVE  CatalogInv'
  <1> DEFINE r == [Mcp!NoRow EXCEPT !.state = "live", !.name = n, !.slug = s,
                     !.transport = t, !.url = url, !.cmd = cmd]
  <1>1. r \in Columns /\ r.name = n /\ r.slug = s /\ r.icon = 0
    BY NoRowTyped DEF Columns, Mcp!NoRow
  <1>2. /\ server' = [server EXCEPT ![id] = r] /\ icons' = icons /\ request' = request
        /\ Mcp!Usable(r) /\ n \notin Official /\ s \notin Official
    BY DEF Mcp!Create, Mcp!checkSystemName, Mcp!checkSystemSlug
  <1> HIDE DEF r
  <1>3. server' \in [Mcps -> Columns] /\ RowsSound'
    BY <1>1, <1>2, RowWritten DEF CatalogInv, OwnName, Connects, Shown
  <1> QED BY <1>2, <1>3, CallsKept DEF CatalogInv, Typed

LEMMA DeleteSound ==
  ASSUME McpSetting, CatalogInv, NEW id \in Mcps, Mcp!Delete(id)
  PROVE  CatalogInv'
  <1> DEFINE r == [server[id] EXCEPT !.state = "deleted"]
  <1>1. server[id] \in Columns
    BY DEF CatalogInv, Typed
  <1>2. /\ r \in Columns /\ r.name = server[id].name /\ r.slug = server[id].slug
        /\ r.icon = server[id].icon /\ r.state = "deleted"
    BY <1>1 DEF Columns
  <1>3. server' = [server EXCEPT ![id] = r] /\ icons' = icons /\ request' = request
    BY DEF Mcp!Delete
  <1> HIDE DEF r
  <1>4. server' \in [Mcps -> Columns] /\ RowsSound'
    <2>1. OwnName(id, r) /\ Shown(id, r)
      BY <1>2, RowIs DEF OwnName, Shown
    <2> QED BY <1>2, <1>3, <2>1, RowWritten DEF CatalogInv
  <1> QED BY <1>3, <1>4, CallsKept DEF CatalogInv, Typed

LEMMA CatalogStep == McpSetting /\ CatalogInv /\ [Mcp!Next]_(Mcp!vars) => CatalogInv'
  <1> SUFFICES ASSUME McpSetting, CatalogInv, [Mcp!Next]_(Mcp!vars) PROVE CatalogInv'
    OBVIOUS
  <1>1. CASE UNCHANGED Mcp!vars
    BY <1>1, RowsKept, CallsKept DEF Mcp!vars, CatalogInv, Typed
  <1> QED BY <1>1, PatchSound, UploadSound, PutSound, UpdateSound, CreateSound,
             DeleteSound DEF Mcp!Next

(* A stored icon is one that an upload numbered.                           *)
LEMMA IconsStep ==
  ASSUME McpSetting, CatalogInv, IconsTyped, [Mcp!Next]_(Mcp!vars)
  PROVE  IconsTyped'
  <1>1. ASSUME NEW c \in Callers, Mcp!PutIcon(c) PROVE IconsTyped'
    <2>1. request[c].id \in Mcps /\ request[c].new.version \in 1..MaxIcons
      BY SMT, <1>1
         DEF Mcp!PutIcon, CatalogInv, CallsSound, Typed, CallRecord, Columns, McpSetting
    <2> QED BY SMT, <1>1, <2>1 DEF Mcp!PutIcon, IconsTyped, McpSetting
  <1>2. ASSUME UNCHANGED <<icons, errors>> PROVE IconsTyped'
    BY <1>2 DEF IconsTyped
  <1>3. ASSUME NEW c \in Callers, NEW id \in Mcps, NEW p \in Mcp!Patches, Mcp!Patch(c, id, p)
        PROVE  UNCHANGED <<icons, errors>>
    BY <1>3 DEF Mcp!Patch
  <1>4. ASSUME NEW c \in Callers, NEW id \in Mcps, Mcp!UploadIcon(c, id)
        PROVE  UNCHANGED <<icons, errors>>
    BY <1>4 DEF Mcp!UploadIcon
  <1>5. ASSUME NEW c \in Callers, Mcp!Update(c) PROVE UNCHANGED <<icons, errors>>
    BY <1>5 DEF Mcp!Update
  <1>6. ASSUME NEW id \in Mcps, Mcp!Delete(id) PROVE UNCHANGED <<icons, errors>>
    BY <1>6 DEF Mcp!Delete
  <1>7. ASSUME NEW id \in Mcps, NEW n \in McpNames, NEW s \in McpNames, NEW t \in Mcp!Transports,
               NEW url \in Mcp!Urls, NEW cmd \in BOOLEAN, Mcp!Create(id, n, s, t, url, cmd)
        PROVE  UNCHANGED <<icons, errors>>
    BY <1>7 DEF Mcp!Create
  <1>8. CASE UNCHANGED Mcp!vars
    BY <1>2, <1>8 DEF Mcp!vars
  <1> QED BY <1>1, <1>2, <1>3, <1>4, <1>5, <1>6, <1>7, <1>8 DEF Mcp!Next

(* The rows from before the rules are the Old ones.                        *)
LEMMA CatalogInit == McpSetting => (Mcp!Init => CatalogInv)
  <1> SUFFICES ASSUME McpSetting, Mcp!Init PROVE CatalogInv
    OBVIOUS
  <1>1. PICK n \in Official :
          server = [id \in Mcps |-> IF id \in Old THEN Mcp!OldRow(n) ELSE Mcp!NoRow]
    BY DEF Mcp!Init
  <1>2. Mcp!OldRow(n) \in Columns /\ Mcp!OldRow(n).icon = 0
    BY NoRowTyped DEF Mcp!OldRow, Columns, Mcp!NoRow, Mcp!Transports, McpSetting
  <1>3. Mcp!NoRow.name = Nothing /\ Mcp!NoRow.slug = Nothing /\ Mcp!NoRow.icon = 0 /\ Mcp!NoRow.state = "absent"
    BY DEF Mcp!NoRow
  <1>4. Typed
    BY <1>1, <1>2, NoRowTyped DEF Mcp!Init, Typed
  <1>5. RowsSound
    BY <1>1, <1>2, <1>3 DEF RowsSound, OwnName, Connects, Shown, McpSetting
  <1>6. CallsSound
    BY DEF Mcp!Init, CallsSound, Mcp!NewCall
  <1> QED BY <1>4, <1>5, <1>6 DEF CatalogInv

(* What the catalogue of MCP servers promises of a live row: its name does *)
(* not shadow an official one, its connection can be used and its icon is  *)
(* served (Create, applyPatch, UploadIcon).                                *)
THEOREM ServersAreSound == McpSetting => (McpPart => []ServersSound)
  <1> SUFFICES ASSUME McpSetting PROVE McpPart => []ServersSound
    OBVIOUS
  <1> DEFINE I == part = "mcp" => CatalogInv /\ IconsTyped
             N == part = "mcp" /\ Mcp!Next /\ UNCHANGED part
  <1>1. McpStarts => I
    BY SMT, CatalogInit DEF McpStarts, Mcp!Init, IconsTyped, McpSetting
  <1>2. I /\ [N]_<<part, mcpVars>> => I'
    <2> SUFFICES ASSUME I, [N]_<<part, mcpVars>>, part' = "mcp" PROVE CatalogInv' /\ IconsTyped'
      OBVIOUS
    <2>1. part = "mcp" /\ [Mcp!Next]_(Mcp!vars)
      BY DEF mcpVars, Mcp!vars
    <2> QED BY <2>1, CatalogStep, IconsStep
  <1>3. I => ServersSound
    <2> SUFFICES ASSUME part = "mcp", CatalogInv, IconsTyped PROVE Mcp!TypeOK /\ Mcp!ServersSound
      BY DEF ServersSound
    <2>1. Mcp!TypeOK
      BY DEF CatalogInv, IconsTyped, Typed, Columns, CallRecord, Mcp!TypeOK
    <2>2. Mcp!ShadowsAreOld
      BY RowIs DEF OwnName, Mcp!ShadowsAreOld
    <2>3. Mcp!ConnectionUsable
      BY RowIs DEF Connects, Mcp!ConnectionUsable
    <2>4. Mcp!IconServed
      BY RowIs DEF Shown, Mcp!IconServed
    <2> QED BY <2>1, <2>2, <2>3, <2>4 DEF Mcp!ServersSound
  <1> QED BY <1>1, <1>2, <1>3, PTL DEF McpPart

-----------------------------------------------------------------------------
(* The probe of an MCP server.  Where it goes next is at home, and before  *)
(* it asks for tools it has read that there are some.                      *)

(* What the proofs assume of the constants: Nothing is none of the origins *)
(* and results.                                                            *)
ProbeSetting ==
  /\ Nothing \notin Probe!Origins \cup {"tools", "caps", "nocaps"}
  /\ MaxHops \in Nat /\ MaxEvents \in Nat

AtHome(o) == o \in Probe!Origins /\ Probe!Canonical(o) = "home"

(* The next request, and the steps that were passed.                       *)
ProbeGoes ==
  /\ origin # Nothing => AtHome(origin)
  /\ at \in {"init", "notify", "list"} => AtHome(target)
  /\ at \in {"notify", "list"} => caps
  /\ at # "ended" => result = Nothing
  /\ at = "ended" => origin = Nothing

ProbeInv == Probe!TypeOK /\ Probe!ProbeSound /\ ProbeGoes

LEMMA HomeIs == AtHome("home") /\ Probe!sameEndpointOrigin("home")
  BY DEF AtHome, Probe!Origins, Probe!Canonical, Probe!sameEndpointOrigin

LEMMA CountsFromZero == ProbeSetting => 0 \in 0..MaxHops /\ 0 \in 0..MaxEvents
  BY SMT DEF ProbeSetting

LEMMA NextEvent ==
  ASSUME Probe!TypeOK, stream # <<>>
  PROVE  Head(stream) \in Probe!Events /\ Tail(stream) \in Seq(Probe!Events)
  BY SMT DEF Probe!TypeOK

(* An answer to the question of the step.                                  *)
LEMMA AnswerIs ==
  /\ \A e \in Probe!Events : e.kind = "reply" => e \in Probe!Replies
  /\ \A e \in Probe!Replies : /\ e.id = 1 => e.body \in {"caps", "nocaps", "error"}
                              /\ e.id = 2 => e.body \in {"tools", "error"}
  BY SMT
     DEF Probe!Events, Probe!Replies, Probe!Others, Probe!Endpoints, Probe!Reply

(* The probe gives up, or goes on without the notification's outcome.      *)
LEMMA BrokenSound ==
  ASSUME ProbeSetting, ProbeInv, at # "ended", Probe!Broken,
         UNCHANGED <<transport, allowPrivate, target, stream, emitted, dialled, sent, caps>>
  PROVE  ProbeInv'
  <1>1. CASE at = "notify"
    <2>1. /\ at' = "list" /\ waits' = FALSE /\ origin' = Nothing /\ hops' = 0 /\ result' = result
      BY <1>1 DEF Probe!Broken, Probe!Goes
    <2>2. Probe!TypeOK'
      BY <2>1, CountsFromZero DEF ProbeInv, Probe!TypeOK
    <2>3. Probe!ProbeSound'
      BY <2>1 DEF ProbeInv, Probe!ProbeSound, Probe!ToolsAreTheAnswer, Probe!HeadersStayHome,
                  Probe!DialsAreChecked
    <2>4. ProbeGoes'
      BY <1>1, <2>1 DEF ProbeInv, ProbeGoes, AtHome
    <2> QED BY <2>2, <2>3, <2>4 DEF ProbeInv
  <1>2. CASE at # "notify"
    <2>1. /\ at' = "ended" /\ waits' = FALSE /\ origin' = Nothing /\ hops' = hops /\ result' = "failed"
      BY <1>2 DEF Probe!Broken, Probe!Ends
    <2>2. Probe!TypeOK'
      BY <2>1 DEF ProbeInv, Probe!TypeOK
    <2>3. Probe!ProbeSound'
      BY <2>1 DEF ProbeInv, Probe!ProbeSound, Probe!ToolsAreTheAnswer, Probe!HeadersStayHome,
                  Probe!DialsAreChecked
    <2>4. ProbeGoes'
      BY <2>1 DEF ProbeGoes
    <2> QED BY <2>2, <2>3, <2>4 DEF ProbeInv
  <1> QED BY <1>1, <1>2

(* Nothing is sent, and the step stays.                                    *)
LEMMA ProbeStays ==
  ASSUME ProbeInv, Probe!TypeOK',
         UNCHANGED <<allowPrivate, at, target, dialled, sent, caps, result>>,
         origin' # Nothing => AtHome(origin') /\ at # "ended"
  PROVE  ProbeInv'
  <1>1. Probe!ProbeSound'
    BY DEF ProbeInv, Probe!ProbeSound, Probe!ToolsAreTheAnswer, Probe!HeadersStayHome,
           Probe!DialsAreChecked
  <1>2. ProbeGoes'
    BY DEF ProbeInv, ProbeGoes, AtHome
  <1> QED BY <1>1, <1>2 DEF ProbeInv

LEMMA RequestSound ==
  ASSUME ProbeSetting, ProbeInv, Probe!Request
  PROVE  ProbeInv'
  <1>1. at \in {"open", "init", "notify", "list"}
    BY DEF Probe!Request
  <1>2. AtHome(origin')
    BY <1>1, HomeIs DEF Probe!Request, ProbeInv, ProbeGoes
  <1>3. Probe!TypeOK'
    BY <1>2 DEF Probe!Request, Probe!Fixed, ProbeInv, Probe!TypeOK, AtHome
  <1> QED BY <1>1, <1>2, <1>3, ProbeStays DEF Probe!Request, Probe!Fixed

(* A connection goes to an address of an answer that was checked, with the *)
(* headers of a request at home (newProbeHTTPClient).                      *)
LEMMA DialSound ==
  ASSUME ProbeSetting, ProbeInv, NEW ips \in SUBSET (Safe \cup Unsafe), NEW ip \in Safe \cup Unsafe,
         Probe!Dial(ips, ip)
  PROVE  ProbeInv'
  <1>1. /\ origin # Nothing /\ at # "ended"
        /\ UNCHANGED <<transport, allowPrivate, target, stream, emitted, caps>>
    BY DEF Probe!Dial, Probe!Fixed, ProbeInv, ProbeGoes
  <1>2. CASE Probe!AllSafe(ips)
    <2>1. /\ ip \in ips /\ dialled' = dialled \cup {ip} /\ sent' = sent \cup {origin}
          /\ waits' = TRUE /\ UNCHANGED <<at, origin, hops, result>>
      BY <1>2 DEF Probe!Dial
    <2>2. AtHome(origin)
      BY <1>1 DEF ProbeInv, ProbeGoes
    <2>3. allowPrivate \/ ip \in Safe
      BY <1>2, <2>1 DEF Probe!AllSafe
    <2>4. Probe!TypeOK'
      BY <1>1, <2>1, <2>2 DEF ProbeInv, Probe!TypeOK, AtHome
    <2>5. Probe!HeadersStayHome'
      BY <2>1, <2>2 DEF ProbeInv, Probe!ProbeSound, Probe!HeadersStayHome, AtHome, Probe!Canonical
    <2>6. Probe!DialsAreChecked'
      BY <1>1, <2>1, <2>3 DEF ProbeInv, Probe!ProbeSound, Probe!DialsAreChecked
    <2>7. Probe!ToolsAreTheAnswer'
      BY <1>1, <2>1 DEF ProbeInv, Probe!ProbeSound, Probe!ToolsAreTheAnswer
    <2>8. ProbeGoes'
      BY <1>1, <2>1 DEF ProbeInv, ProbeGoes, AtHome
    <2> QED BY <2>4, <2>5, <2>6, <2>7, <2>8 DEF ProbeInv, Probe!ProbeSound
  <1>3. CASE ~Probe!AllSafe(ips)
    BY <1>1, <1>3, BrokenSound DEF Probe!Dial
  <1> QED BY <1>2, <1>3

LEMMA RedirectSound ==
  ASSUME ProbeSetting, ProbeInv, NEW o \in Probe!Origins, Probe!CheckRedirect(o)
  PROVE  ProbeInv'
  <1>1. /\ origin # Nothing /\ at # "ended"
        /\ UNCHANGED <<transport, allowPrivate, target, stream, emitted, dialled, sent, caps>>
    BY DEF Probe!CheckRedirect, Probe!Fixed, ProbeInv, ProbeGoes
  <1>2. CASE hops < MaxHops /\ o = origin
    <2>1. origin' = origin /\ hops' = hops + 1 /\ waits' = FALSE /\ UNCHANGED <<at, result>>
      BY <1>2 DEF Probe!CheckRedirect
    <2>2. hops' \in 0..MaxHops
      BY SMT, <1>2, <2>1 DEF ProbeInv, Probe!TypeOK, ProbeSetting
    <2>3. Probe!TypeOK'
      BY <1>1, <2>1, <2>2 DEF ProbeInv, Probe!TypeOK
    <2>4. AtHome(origin)
      BY <1>1 DEF ProbeInv, ProbeGoes
    <2> QED BY <1>1, <2>1, <2>3, <2>4, ProbeStays
  <1>3. CASE ~(hops < MaxHops /\ o = origin)
    BY <1>1, <1>3, BrokenSound DEF Probe!CheckRedirect
  <1> QED BY <1>2, <1>3

LEMMA EmitSound ==
  ASSUME ProbeSetting, ProbeInv, NEW e \in Probe!Events, Probe!Emit(e)
  PROVE  ProbeInv'
  <1>1. /\ at # "ended" /\ emitted < MaxEvents /\ stream' = Append(stream, e)
        /\ emitted' = emitted + 1
        /\ UNCHANGED <<transport, allowPrivate, at, waits, origin, target, hops, dialled, sent, caps, result>>
    BY DEF Probe!Emit, Probe!Fixed
  <1>2. stream' \in Seq(Probe!Events) /\ emitted' \in 0..MaxEvents
    BY SMT, <1>1 DEF ProbeInv, Probe!TypeOK, ProbeSetting
  <1>3. Probe!TypeOK'
    BY <1>1, <1>2 DEF ProbeInv, Probe!TypeOK
  <1>4. origin # Nothing => AtHome(origin)
    BY DEF ProbeInv, ProbeGoes
  <1> QED BY <1>1, <1>3, <1>4, ProbeStays

(* The next step is reached with the headers where they were.              *)
LEMMA ProbeAdvances ==
  ASSUME ProbeSetting, ProbeInv, NEW step \in {"endpoint", "init", "notify", "list"},
         Probe!Goes(step), at # "ended",
         UNCHANGED <<allowPrivate, dialled, sent, result>>,
         stream' \in Seq(Probe!Events), emitted' = emitted,
         target' \in Probe!Origins \cup {Nothing}, caps' \in BOOLEAN,
         step # "endpoint" => AtHome(target'), step \in {"notify", "list"} => caps'
  PROVE  ProbeInv'
  <1>1. at' = step /\ waits' = FALSE /\ origin' = Nothing /\ hops' = 0 /\ result = Nothing
    BY DEF Probe!Goes, ProbeInv, ProbeGoes
  <1>2. Probe!TypeOK'
    BY <1>1, CountsFromZero DEF ProbeInv, Probe!TypeOK
  <1>3. Probe!ProbeSound'
    BY <1>1 DEF ProbeInv, Probe!ProbeSound, Probe!ToolsAreTheAnswer, Probe!HeadersStayHome,
                Probe!DialsAreChecked, ProbeSetting
  <1>4. ProbeGoes'
    BY <1>1 DEF ProbeGoes, AtHome
  <1> QED BY <1>2, <1>3, <1>4 DEF ProbeInv

LEMMA ProbeEnds ==
  ASSUME ProbeInv, NEW r \in {"failed", "no_tools_capability", "tools"}, Probe!Ends(r),
         UNCHANGED <<allowPrivate, target, hops, emitted, dialled, sent, caps>>,
         stream' \in Seq(Probe!Events), r = "tools" => caps
  PROVE  ProbeInv'
  <1>1. at' = "ended" /\ waits' = FALSE /\ origin' = Nothing /\ result' = r
    BY DEF Probe!Ends
  <1>2. Probe!TypeOK'
    BY <1>1 DEF ProbeInv, Probe!TypeOK
  <1>3. Probe!ProbeSound'
    BY <1>1 DEF ProbeInv, Probe!ProbeSound, Probe!ToolsAreTheAnswer, Probe!HeadersStayHome,
                Probe!DialsAreChecked
  <1>4. ProbeGoes'
    BY <1>1 DEF ProbeGoes
  <1> QED BY <1>2, <1>3, <1>4 DEF ProbeInv

LEMMA AcceptedSound ==
  ASSUME ProbeSetting, ProbeInv, Probe!Accepted
  PROVE  ProbeInv'
  <1>1. /\ origin # Nothing /\ at # "ended"
        /\ UNCHANGED <<transport, allowPrivate, target, stream, emitted, dialled, sent, caps>>
    BY DEF Probe!Accepted, Probe!Fixed, ProbeInv, ProbeGoes
  <1>2. /\ target \in Probe!Origins \cup {Nothing} /\ caps \in BOOLEAN /\ stream \in Seq(Probe!Events)
        /\ at = "notify" => AtHome(target) /\ caps
    BY DEF ProbeInv, ProbeGoes, Probe!TypeOK
  <1>3. CASE at = "open" /\ Probe!Goes("endpoint") /\ UNCHANGED result
    BY <1>1, <1>2, <1>3, ProbeAdvances
  <1>4. CASE at = "notify" /\ Probe!Goes("list") /\ UNCHANGED result
    BY <1>1, <1>2, <1>4, ProbeAdvances DEF AtHome
  <1>5. CASE at \in {"init", "list"} /\ origin' = Nothing /\ UNCHANGED <<at, waits, hops, result>>
    <2>1. Probe!TypeOK'
      BY <1>1, <1>5 DEF ProbeInv, Probe!TypeOK
    <2> QED BY <1>1, <1>5, <2>1, ProbeStays
  <1> QED BY <1>3, <1>4, <1>5 DEF Probe!Accepted

(* The endpoint that the server names is used at home only                 *)
(* (sameEndpointOrigin).                                                   *)
LEMMA EndpointSound ==
  ASSUME ProbeSetting, ProbeInv, Probe!ReadEndpoint
  PROVE  ProbeInv'
  <1>1. PICK e \in Probe!Events : e = Head(stream)
    BY NextEvent DEF Probe!ReadEndpoint, ProbeInv
  <1>2. /\ at = "endpoint" /\ stream' \in Seq(Probe!Events)
        /\ UNCHANGED <<transport, allowPrivate, emitted, dialled, sent, caps>>
    BY NextEvent DEF Probe!ReadEndpoint, Probe!Fixed, ProbeInv
  <1>3. CASE UNCHANGED <<at, waits, origin, target, hops, result>>
    <2>1. Probe!TypeOK'
      BY <1>2, <1>3 DEF ProbeInv, Probe!TypeOK
    <2>2. origin # Nothing => AtHome(origin)
      BY DEF ProbeInv, ProbeGoes
    <2> QED BY <1>2, <1>3, <2>1, <2>2, ProbeStays
  <1>4. CASE /\ e.kind = "endpoint" /\ Probe!sameEndpointOrigin(e.body)
             /\ target' = e.body /\ Probe!Goes("init") /\ UNCHANGED result
    <2>1. e.body \in Probe!Origins
      BY SMT, <1>4
         DEF Probe!Events, Probe!Replies, Probe!Others, Probe!Endpoints, Probe!Reply
    <2>2. AtHome(target')
      BY <1>4, <2>1 DEF AtHome, Probe!sameEndpointOrigin, Probe!Canonical
    <2>3. caps' \in BOOLEAN /\ target' \in Probe!Origins \cup {Nothing}
      BY <1>2, <1>4, <2>1 DEF ProbeInv, Probe!TypeOK
    <2> QED BY <1>2, <1>4, <2>2, <2>3, ProbeAdvances
  <1>5. CASE Probe!Ends("failed") /\ UNCHANGED <<target, hops>>
    BY <1>2, <1>5, ProbeEnds
  <1> QED BY <1>1, <1>3, <1>4, <1>5 DEF Probe!ReadEndpoint

(* An answer to the question that was asked.                               *)
LEMMA TakeSound ==
  ASSUME ProbeSetting, ProbeInv, at \in {"init", "list"}, NEW e \in Probe!Replies,
         e.id = IF at = "init" THEN 1 ELSE 2, Probe!Take(e), stream' \in Seq(Probe!Events),
         UNCHANGED <<transport, allowPrivate, target, emitted, dialled, sent>>
  PROVE  ProbeInv'
  <1>1. IF at = "init" THEN e.body \in {"caps", "nocaps", "error"} ELSE e.body \in {"tools", "error"}
    BY AnswerIs
  <1>2. at = "list" => caps
    BY DEF ProbeInv, ProbeGoes
  <1>3. CASE Probe!Ends("failed") /\ UNCHANGED <<hops, caps>>
    BY <1>3, ProbeEnds
  <1>4. CASE at = "init" /\ Probe!Ends("no_tools_capability") /\ UNCHANGED <<hops, caps>>
    BY <1>4, ProbeEnds
  <1>5. CASE at = "init" /\ e.body = "caps" /\ Probe!Goes("notify") /\ caps' = TRUE /\ UNCHANGED result
    <2>1. AtHome(target) /\ target \in Probe!Origins
      BY <1>5 DEF ProbeInv, ProbeGoes, AtHome
    <2>2. AtHome(target')
      BY <2>1 DEF AtHome
    <2> QED BY <1>5, <2>1, <2>2, ProbeAdvances
  <1>6. CASE at = "list" /\ Probe!Ends("tools") /\ UNCHANGED <<hops, caps>>
    BY <1>2, <1>6, ProbeEnds
  <1>7. CASE e.body = "error"
    BY <1>3, <1>7 DEF Probe!Take
  <1>8. CASE at = "init" /\ e.body # "error"
    <2>1. CASE e.body = "nocaps"
      BY <1>4, <1>8, <2>1 DEF Probe!Take
    <2>2. CASE e.body = "caps"
      BY <1>5, <1>8, <2>2 DEF Probe!Take
    <2> QED BY <1>1, <1>8, <2>1, <2>2
  <1>9. CASE at = "list" /\ e.body # "error"
    BY <1>1, <1>6, <1>9 DEF Probe!Take
  <1> QED BY <1>7, <1>8, <1>9

LEMMA ReplySound ==
  ASSUME ProbeSetting, ProbeInv, Probe!ReadReply
  PROVE  ProbeInv'
  <1>1. PICK e \in Probe!Events : e = Head(stream)
    BY NextEvent DEF Probe!ReadReply, ProbeInv
  <1>2. /\ at \in {"init", "list"} /\ stream' \in Seq(Probe!Events)
        /\ UNCHANGED <<transport, allowPrivate, target, emitted, dialled, sent>>
    BY NextEvent DEF Probe!ReadReply, Probe!Fixed, ProbeInv
  <1>3. CASE Probe!Matches(e, IF at = "init" THEN 1 ELSE 2)
    <2>1. e \in Probe!Replies /\ e.id = IF at = "init" THEN 1 ELSE 2
      BY <1>3, AnswerIs DEF Probe!Matches
    <2>2. Probe!Take(e)
      BY <1>1, <1>3 DEF Probe!ReadReply
    <2> QED BY <1>2, <2>1, <2>2, TakeSound
  <1>4. CASE ~Probe!Matches(e, IF at = "init" THEN 1 ELSE 2)
    <2>1. UNCHANGED <<at, waits, origin, hops, caps, result>>
      BY <1>1, <1>4 DEF Probe!ReadReply
    <2>2. Probe!TypeOK'
      BY <1>2, <2>1 DEF ProbeInv, Probe!TypeOK
    <2>3. origin # Nothing => AtHome(origin)
      BY DEF ProbeInv, ProbeGoes
    <2> QED BY <1>2, <2>1, <2>2, <2>3, ProbeStays
  <1> QED BY <1>3, <1>4

LEMMA RespondSound ==
  ASSUME ProbeSetting, ProbeInv, NEW e \in Probe!Replies, Probe!Respond(e)
  PROVE  ProbeInv'
  <1>1. stream \in Seq(Probe!Events)
    BY DEF ProbeInv, Probe!TypeOK
  <1> QED BY <1>1, TakeSound DEF Probe!Respond, Probe!Fixed

LEMMA ProbeInit ==
  ASSUME ProbeSetting, Probe!Init
  PROVE  ProbeInv
  <1>1. Probe!TypeOK
    <2>1. target \in Probe!Origins \cup {Nothing} /\ stream \in Seq(Probe!Events)
      BY SMT DEF Probe!Init, Probe!Origins
    <2>2. at \in {"open", "endpoint", "init", "notify", "list", "ended"}
      BY DEF Probe!Init
    <2> QED BY <2>1, <2>2, CountsFromZero DEF Probe!Init, Probe!TypeOK
  <1>2. Probe!ProbeSound
    BY DEF Probe!Init, Probe!ProbeSound, Probe!ToolsAreTheAnswer, Probe!HeadersStayHome,
           Probe!DialsAreChecked, ProbeSetting
  <1>3. ProbeGoes
    BY HomeIs DEF Probe!Init, ProbeGoes
  <1> QED BY <1>1, <1>2, <1>3 DEF ProbeInv

LEMMA ProbeStep ==
  ASSUME ProbeSetting, ProbeInv, [Probe!Next]_(Probe!vars)
  PROVE  ProbeInv'
  <1>1. CASE UNCHANGED Probe!vars
    <2>1. Probe!TypeOK'
      BY <1>1 DEF ProbeInv, Probe!TypeOK, Probe!vars
    <2>2. origin # Nothing => AtHome(origin) /\ at # "ended"
      BY DEF ProbeInv, ProbeGoes
    <2> QED BY <1>1, <2>1, <2>2, ProbeStays DEF Probe!vars
  <1>2. CASE Probe!Fails
    BY <1>2, BrokenSound DEF Probe!Fails, Probe!Fixed
  <1> QED BY <1>1, <1>2, RequestSound, AcceptedSound, EndpointSound, ReplySound, DialSound,
             RedirectSound, EmitSound, RespondSound DEF Probe!Next

(* However often names resolve differently and replies are repeated,       *)
(* delayed or mixed, with any number of redirects and events: the tools    *)
(* are the answer of a server that announced them, the caller's headers    *)
(* stay at the origin they were given for, and only checked addresses are  *)
(* dialled (rpcSSE, newProbeHTTPClient).                                   *)
THEOREM ProbesAreSound == ProbeSetting => (ProbePart => []ProbeSound)
  <1> SUFFICES ASSUME ProbeSetting PROVE ProbePart => []ProbeSound
    OBVIOUS
  <1> DEFINE I == part = "probe" => ProbeInv
             N == part = "probe" /\ Probe!Next /\ UNCHANGED part
  <1>1. ProbeStarts => I
    BY ProbeInit DEF ProbeStarts
  <1>2. I /\ [N]_<<part, probeVars>> => I'
    <2> SUFFICES ASSUME I, [N]_<<part, probeVars>>, part' = "probe" PROVE ProbeInv'
      OBVIOUS
    <2>1. part = "probe" /\ [Probe!Next]_(Probe!vars)
      BY DEF probeVars, Probe!vars
    <2> QED BY <2>1, ProbeStep
  <1>3. I => ProbeSound
    BY DEF ProbeSound, ProbeInv
  <1> QED BY <1>1, <1>2, <1>3, PTL DEF ProbePart
=============================================================================
