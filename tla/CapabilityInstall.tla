-------------------------- MODULE CapabilityInstall --------------------------
(***************************************************************************)
(* Installing without a local record: the plugin installer's current mode  *)
(* and the legacy expert and squad installers.  Fleet's receipt of the     *)
(* idempotency key is all there is.  Two wires describe one installation,  *)
(* the connector wire of today and the one sent before an upgrade; only    *)
(* the first may install, both may be replayed against a receipt.  All     *)
(* calls are duplicates of one operation with the caller's key, or calls   *)
(* without one; the content changes between them.  Fleet is external.      *)
(***************************************************************************)
EXTENDS Naturals

CONSTANTS Calls,
          MaxContent,  \* bound: how often the source is edited, plus 1
          MaxFaults,   \* bound on lost answers and other failures
          None

VARIABLES flavor,    \* "plugin", or "expert" for the legacy experts and squads
          heavy,     \* wires that exceed the request limit
          content,   \* what the source resolves to now
          receipt,   \* Fleet's receipt of the caller's key: None, or the resource
          created,   \* resources, known by the call that created them, with its body
          net,       \* installations on their way to Fleet
          call,
          tracked,   \* calls that trackInstall counted
          faults

vars == <<flavor, heavy, content, receipt, created, net, call, tracked, faults>>

Wires == {"current", "legacy"}
Bodies == Wires \X (1..MaxContent)
Resources == [by : Calls \cup {None}, body : Bodies]
NewCall == [at |-> "new", keyed |-> FALSE, explicit |-> FALSE, has |-> FALSE, content |-> 0,
            answer |-> None, res |-> None]

TypeOK ==
  /\ flavor \in {"plugin", "expert"} /\ heavy \subseteq Wires /\ content \in 1..MaxContent
  /\ receipt \in Resources \cup {None} /\ created \subseteq Resources
  /\ net \subseteq Calls /\ tracked \subseteq Calls /\ faults \in 0..MaxFaults
  /\ \A c \in Calls : call[c].at \in {"new", "load", "probe", "send", "wait", "mismatch", "first",
                                      "second", "ended"}

(* An operation from before the upgrade may have left its receipt.         *)
Init ==
  /\ flavor \in {"plugin", "expert"} /\ heavy \in SUBSET Wires
  /\ content = 1
  /\ \/ receipt = None /\ created = {}
     \/ /\ receipt = [by |-> None, body |-> <<"legacy", 1>>]
        /\ created = {receipt}
  /\ net = {} /\ call = [c \in Calls |-> NewCall] /\ tracked = {} /\ faults = 0

Goes(c, at) == call' = [call EXCEPT ![c].at = at]
Ends(c, a) == call' = [call EXCEPT ![c].at = "ended", ![c].answer = a]
Succeeds(c, r) ==
  /\ call' = [call EXCEPT ![c].at = "ended", ![c].answer = "ok", ![c].res = r]
  /\ tracked' = tracked \cup {c}
Body(c, w) == <<w, call[c].content>>
Fleet == <<receipt, created, net>>
World == <<flavor, heavy, content>>

(* The source, as it is visible now.                                       *)
resolveInstallDetail == content

(* With a receipt there are only replays, without one the call installs.   *)
installDefaultOperation(has) == IF has THEN "first" ELSE "send"

-----------------------------------------------------------------------------
(* A call with its own generated key, or with an explicit connector mode,  *)
(* writes once; any other is probed first.  An expert is loaded before the *)
(* probe, a plugin after it.                                               *)
Begin(c, keyed, explicit) ==
  /\ call[c].at = "new" /\ (explicit => flavor = "plugin")
  /\ call' = [call EXCEPT ![c].keyed = keyed, ![c].explicit = explicit,
                ![c].at = IF keyed /\ ~explicit /\ flavor = "plugin" THEN "probe" ELSE "load"]
  /\ UNCHANGED <<World, Fleet, tracked, faults>>

HasCapabilityInstallationReceipt(c) ==
  /\ call[c].at = "probe"
  /\ \/ /\ call' = [call EXCEPT ![c].has = receipt # None,
                      ![c].at = IF flavor = "plugin" THEN "load"
                                ELSE installDefaultOperation(receipt # None)]
        /\ UNCHANGED faults
     \/ faults < MaxFaults /\ faults' = faults + 1 /\ Ends(c, "unknown")
  /\ UNCHANGED <<World, Fleet, tracked>>

Load(c) ==
  /\ call[c].at = "load"
  /\ call' = [call EXCEPT ![c].content = resolveInstallDetail,
                ![c].at = IF flavor = "expert" /\ call[c].keyed THEN "probe"
                          ELSE installDefaultOperation(call[c].has)]
  /\ UNCHANGED <<World, Fleet, tracked, faults>>

(* The candidate is built and bounded before anything is sent; only the    *)
(* current wire installs.                                                  *)
InstallCapability(c) ==
  /\ call[c].at = "send"
  /\ IF "current" \in heavy THEN Ends(c, "tooLarge") /\ UNCHANGED net
                            ELSE Goes(c, "wait") /\ net' = net \cup {c}
  /\ UNCHANGED <<World, receipt, created, tracked, faults>>

(* Fleet handles an installation: it replays the receipt of this body,     *)
(* refuses another body under the key, rejects, or installs.               *)
Handle(c) ==
  LET b == Body(c, "current")
      waits == call[c].at = "wait"
      r == [by |-> c, body |-> b] IN
  /\ c \in net /\ net' = net \ {c}
  /\ \/ /\ call[c].keyed /\ receipt # None /\ receipt.body = b
        /\ IF waits THEN Succeeds(c, receipt) ELSE UNCHANGED <<call, tracked>>
        /\ UNCHANGED <<receipt, created>>
     \/ /\ call[c].keyed /\ receipt # None /\ receipt.body # b
        /\ IF ~waits THEN UNCHANGED call
           ELSE IF call[c].explicit THEN Ends(c, "mismatch") ELSE Goes(c, "mismatch")
        /\ UNCHANGED <<receipt, created, tracked>>
     \/ /\ IF waits THEN Ends(c, "rejected") ELSE UNCHANGED call
        /\ UNCHANGED <<receipt, created, tracked>>
     \/ /\ ~call[c].keyed \/ receipt = None
        /\ created' = created \cup {r}
        /\ receipt' = IF call[c].keyed THEN r ELSE receipt
        /\ IF waits THEN Succeeds(c, r) ELSE UNCHANGED <<call, tracked>>
  /\ UNCHANGED <<World, faults>>

(* No answer, or one that proves nothing.                                  *)
Unanswered(c) ==
  /\ call[c].at = "wait" /\ faults < MaxFaults
  /\ faults' = faults + 1 /\ Ends(c, "unknown")
  /\ UNCHANGED <<World, Fleet, tracked>>

(* What a replay of wire w answers: the stored resource, a mismatch or     *)
(* nothing at all.  It never installs.                                     *)
Replay(c, w) ==
  IF receipt = None THEN "gone" ELSE IF receipt.body = Body(c, w) THEN "ok" ELSE "mismatch"

(* An expert's older wire is derived from the current one, unbounded.      *)
LegacyBuilt == flavor = "expert" \/ "legacy" \notin heavy

(* Another request with this key was first: its receipt may carry the      *)
(* older wire.  The refusal stands unless that replay says more.           *)
RecoverMismatch(c) ==
  /\ call[c].at = "mismatch"
  /\ \/ /\ LegacyBuilt /\ Replay(c, "legacy") = "ok"
        /\ Succeeds(c, receipt) /\ UNCHANGED faults
     \/ /\ LegacyBuilt => Replay(c, "legacy") # "ok"
        /\ Ends(c, "mismatch") /\ UNCHANGED <<tracked, faults>>
     \/ /\ LegacyBuilt /\ faults < MaxFaults
        /\ faults' = faults + 1 /\ Ends(c, "unknown") /\ UNCHANGED tracked
  /\ UNCHANGED <<World, Fleet>>

-----------------------------------------------------------------------------
(* With a receipt there are only replays.  The plugin installer tries the  *)
(* older wire first and today's second, the expert installer the other way *)
(* round; a wire over the limit cannot be tried.                           *)
First == IF flavor = "plugin" THEN "legacy" ELSE "current"
Second == IF flavor = "plugin" THEN "current" ELSE "legacy"

(* Mutant: a receipt that is gone lets the call install.                   *)
InstallWhenGone(c) ==
  /\ call[c].at = "first"
  /\ IF First \in heavy THEN Goes(c, "second") /\ UNCHANGED tracked
     ELSE IF Replay(c, First) = "ok" THEN Succeeds(c, receipt)
     ELSE Goes(c, IF Replay(c, First) = "gone" THEN "send" ELSE "second") /\ UNCHANGED tracked
  /\ UNCHANGED <<World, Fleet, faults>>

ReplayFirst(c) ==
  /\ call[c].at = "first"
  /\ \/ /\ First \in heavy /\ Goes(c, "second") /\ UNCHANGED <<tracked, faults>>
     \/ /\ First \notin heavy /\ Replay(c, First) = "ok"
        /\ Succeeds(c, receipt) /\ UNCHANGED faults
     \/ /\ First \notin heavy /\ Replay(c, First) # "ok"
        /\ IF Replay(c, First) = "gone" THEN Ends(c, "gone") ELSE Goes(c, "second")
        /\ UNCHANGED <<tracked, faults>>
     \/ /\ First \notin heavy /\ faults < MaxFaults
        /\ faults' = faults + 1 /\ Ends(c, "unknown") /\ UNCHANGED tracked
  /\ UNCHANGED <<World, Fleet>>

(* The legacy candidate of an expert is derived from the current one, and  *)
(* is bounded only if that one was too large.                              *)
TooLarge == Second \in heavy /\ (flavor = "plugin" \/ First \in heavy)

ReplaySecond(c) ==
  /\ call[c].at = "second"
  /\ \/ TooLarge /\ Ends(c, "tooLarge") /\ UNCHANGED <<tracked, faults>>
     \/ /\ ~TooLarge /\ Replay(c, Second) = "ok"
        /\ Succeeds(c, receipt) /\ UNCHANGED faults
     \/ /\ ~TooLarge /\ Replay(c, Second) # "ok"
        /\ Ends(c, Replay(c, Second)) /\ UNCHANGED <<tracked, faults>>
     \/ /\ ~TooLarge /\ faults < MaxFaults
        /\ faults' = faults + 1 /\ Ends(c, "unknown") /\ UNCHANGED tracked
  /\ UNCHANGED <<World, Fleet>>

-----------------------------------------------------------------------------
Edit ==
  /\ content < MaxContent /\ content' = content + 1
  /\ UNCHANGED <<flavor, heavy, Fleet, call, tracked, faults>>

Expire ==
  /\ receipt # None /\ receipt' = None
  /\ UNCHANGED <<World, created, net, call, tracked, faults>>

Next ==
  \/ \E c \in Calls :
       \/ \E keyed, explicit \in BOOLEAN : Begin(c, keyed, explicit)
       \/ HasCapabilityInstallationReceipt(c) \/ Load(c)
       \/ InstallCapability(c) \/ Handle(c) \/ Unanswered(c)
       \/ RecoverMismatch(c) \/ ReplayFirst(c) \/ ReplaySecond(c)
  \/ Edit
  \/ Expire

Spec == Init /\ [][Next]_vars

-----------------------------------------------------------------------------
(* The older wire is for replays: whatever races, upgrades and expiries a  *)
(* call meets, everything installed since carries the connector wire.      *)
OnlyCurrentInstalls == \A r \in created : r.by # None => r.body[1] = "current"

(* A receipt that was seen forbids installing: a call whose probe found    *)
(* one creates nothing, not even when the receipt is gone at the replay.   *)
SeenForbidsInstall == \A r \in created : r.by # None => ~call[r.by].has

(* The answer is honest: success names a resource that was installed, is   *)
(* counted once, and a call that is told it was refused, too large or      *)
(* conflicting has installed nothing.                                      *)
AnswerIsHonest ==
  /\ tracked = {c \in Calls : call[c].answer = "ok"}
  /\ \A c \in Calls :
       /\ call[c].answer = "ok" => call[c].res \in created
       /\ call[c].answer \in {"rejected", "mismatch", "gone", "tooLarge"} =>
            c \notin net /\ \A r \in created : r.by # c

(* A mismatch is real: where only one resource ever existed, a caller that *)
(* is told so asked for something else than its receipt holds, in every    *)
(* wire its path may try; a retry across an upgrade is not turned away.    *)
MismatchIsReal ==
  \A c \in Calls, r \in created :
    call[c].answer = "mismatch" /\ heavy = {} /\ receipt # None /\ created = {r} =>
      receipt.body \notin {Body(c, w) : w \in IF call[c].explicit THEN {"current"} ELSE Wires}

(* Without a local record the receipt decides alone, and what a caller is  *)
(* told is what happened (installDefaultOperation, installCapability).     *)
HonestInstall ==
  /\ OnlyCurrentInstalls
  /\ SeenForbidsInstall
  /\ AnswerIsHonest
  /\ MismatchIsReal
=============================================================================
