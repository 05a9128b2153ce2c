----------------------------- MODULE MCSettles ------------------------------
(***************************************************************************)
(* What must eventually happen, for three components that share no state:  *)
(* the review flow, the metrics flush and the parse tasks.  A behaviour    *)
(* is a behaviour of one of them, chosen at the start; the other two stay  *)
(* in an initial state.                                                    *)
(***************************************************************************)
EXTENDS Naturals, Sequences, FiniteSets

CONSTANTS Plugins, Containers, Contents, MaxLabel, Reqs, Calls, MaxGen,
          MayCrash,
          Resources, Foreign, Events, Workers, FlushIDs, Batch, MaxRetries,
          Hazard,
          Tasks, Pods, Slots, Clients, QueueSize, MaxAttempts, MaxFaults,
          MaxUses, Patience, None

VARIABLES plugin, request, policy, call, carded, platform,
          counter, dirty, pending, lock, throttle, ledger, aged, counted,
          worker, tracked, used, hazard,
          task, queue, pool, http, launched, uses, stranded, faults, patient,
          part    \* the component that moves

Review  == INSTANCE PluginReview
Metrics == INSTANCE MetricsFlush
Parse   == INSTANCE ParseTask

reviewVars  == <<plugin, request, policy, call, carded, platform>>
metricsVars == <<counter, dirty, pending, lock, throttle, ledger, aged, counted,
                 worker, tracked, used, hazard>>
parseVars   == <<task, queue, pool, http, launched, uses, stranded, faults,
                 patient>>
vars == <<part, reviewVars, metricsVars, parseVars>>

Init ==
    /\ part \in {"review", "metrics", "parse"}
    /\ Review!Init /\ Metrics!Init /\ Parse!Init
    /\ part # "metrics" => hazard = CHOOSE h \in Hazard : TRUE
    /\ part # "parse" => patient = CHOOSE b \in Patience : TRUE

InReview(A)  == part = "review" /\ A
                  /\ UNCHANGED <<part, metricsVars, parseVars>>
InMetrics(A) == part = "metrics" /\ A
                  /\ UNCHANGED <<part, reviewVars, parseVars>>
InParse(A)   == part = "parse" /\ A
                  /\ UNCHANGED <<part, reviewVars, metricsVars>>

Next == \/ InReview(Review!Next)
        \/ InMetrics(Metrics!Next)
        \/ InParse(Parse!Next)

(* The fairness of each component, while it is the one that moves.         *)
FairReview ==
    \A c \in Calls : WF_vars(InReview(Review!CallStep(c)))

FairMetrics ==
    /\ \A w \in Workers : /\ WF_vars(InMetrics(Metrics!acquireLock(w)))
                          /\ WF_vars(InMetrics(Metrics!FlushStep(w)))
    /\ WF_vars(InMetrics(Metrics!LockExpires))
    /\ Metrics!FaultsStop

FairParse ==
    /\ \A c \in Clients : WF_vars(InParse(Parse!ClientStep(c)))
    /\ \A p \in Pods, s \in Slots :
         WF_vars(InParse(Parse!run(p, s) \/ Parse!process(p, s)))
    /\ \A t \in Tasks :
         /\ WF_vars(InParse(Parse!GrowStale(t)))
         /\ WF_vars(InParse(\E c \in Clients, p \in Pods :
                                Parse!GetParseStatus(c, p, t)))

FairSpec ==
    Init /\ [][Next]_vars /\ FairReview /\ FairMetrics /\ FairParse

-----------------------------------------------------------------------------
(* An automatic submission whose caller is still at work ends decided, or  *)
(* with an approval card sent (Service.autoApproveReview).                 *)
AutoSubmissionSettles == Review!AutoSubmissionSettles

(* A tracked event is counted in MySQL some time (FlushWorker.flush).      *)
EventuallyCounted == Metrics!EventuallyCounted

(* A claimed parse task leaves parsing some time (Service.GetParseStatus). *)
ParsingSettles == Parse!ParsingSettles
=============================================================================
