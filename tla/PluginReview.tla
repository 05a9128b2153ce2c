---------------------------- MODULE PluginReview ----------------------------
(***************************************************************************)
(* The publication workflow of a tenant plugin: drafts, the review request *)
(* that gates exposure to the whole Space, approval, takedown, deletion,   *)
(* and the platform operator's edits (internal/service/plugin and          *)
(* internal/repository/plugin, version management and references off, the  *)
(* configuration default).                                                 *)
(*                                                                         *)
(* A service call reads the plugin WITHOUT a lock, works for a while, and  *)
(* then runs a transaction that locks the row.  Both halves are actions;   *)
(* call[c] is what the call carries from its read to its transaction.  A   *)
(* transaction whose refusals all restate the unlocked checks is a single  *)
(* action.  Refusals change nothing; CallFails ends the call.              *)
(***************************************************************************)
EXTENDS Naturals, FiniteSets

CONSTANTS
    Plugins,      \* plugin ids
    Containers,   \* the plugins of type expert / expert_team
    Contents,     \* package contents, told apart by their hash only
    MaxLabel,     \* bound: version labels are 1..MaxLabel, in version order
    Reqs,         \* review request ids (their number bounds the submissions)
    Calls,        \* service calls in flight at the same time
    MaxGen,       \* bound: container rebuilds of one plugin
    MayCrash      \* whether the process may die between two steps of a call

ASSUME PluginReviewAssumption ==
    /\ Containers \subseteq Plugins
    /\ MaxLabel \in Nat \ {0}
    /\ MaxGen \in Nat
    /\ MayCrash \in BOOLEAN

VARIABLES
    plugin,       \* the plugins rows
    request,      \* the plugin_review_requests rows
    policy,       \* plugin_review_policies: auto-approve enabled?
    call,         \* the calls in flight
    carded,       \* requests for which an approval card was dispatched
    platform      \* history: rows whose content the operator wrote last

vars == <<plugin, request, policy, call, carded, platform>>

Labels     == 1 .. MaxLabel
Gens       == 0 .. MaxGen
Visibility == {"private", "space"}
Listing    == {"draft", "published", "delisted"}
Decided    == {"approved", "rejected", "canceled"}

(* One row of the plugins table.  gen counts its container rebuilds; child *)
(* is the generation of the embedded children linked to it (0: none), cvis *)
(* and clist are their visibility and listing_state columns.               *)
Row == [state : {"live"}, vis : Visibility, listing : Listing, ver : Labels,
        content : Contents, gen : Gens, child : Gens,
        cvis : Visibility, clist : Listing]

NoRow == [state : {"absent", "deleted"}]

(* One row of plugin_review_requests with its frozen snapshot.             *)
Request == [status : {"pending"} \cup Decided, p : Plugins,
            kind : {"first", "upgrade"}, label : Labels,
            content : Contents, child : Gens]

NoRequest == [status : {"none"}]

(* What a call in flight carries: a submission, an owner's save, an        *)
(* operator's edit or skill reupload, a container reupload, and, once its  *)
(* request is inserted, what is left of a submission.                      *)
SubmitCall   == [op : {"submit"}, p : Plugins, label : Labels,
                 content : Contents, declared : BOOLEAN, child : Gens,
                 auto : BOOLEAN]
UpdateCall   == [op : {"update"}, p : Plugins, vis : Visibility,
                 label : Labels, content : Contents, child : Gens,
                 refusePending : BOOLEAN]
OperatorCall == [op : {"admin"}, p : Plugins, vis : Visibility,
                 label : Labels, content : Contents, child : Gens,
                 forward : BOOLEAN]
RebuildCall  == [op : {"rebuild"}, p : Plugins, label : Labels,
                 content : Contents]
RequestCall  == [op : {"approve", "compensate", "notify"}, r : Reqs]

Call == [op : {"idle"}] \cup SubmitCall \cup UpdateCall \cup OperatorCall
          \cup RebuildCall \cup RequestCall

Idle == [op |-> "idle"]

Live(p)       == plugin[p].state = "live"
OrgListed(p)  == Live(p) /\ plugin[p].vis = "space"
                         /\ plugin[p].listing = "published"
Pending(p)    == {r \in Reqs : request[r].status = "pending"
                                /\ request[r].p = p}
HasPendingReview(p) == Pending(p) # {}

(* Mutant: forgets the labels of earlier approvals.                        *)
publishedCurrentOnly(p) ==
    IF plugin[p].listing # "draft" THEN {plugin[p].ver} ELSE {}

(* Labels the Space has seen: approved ones, and the current label of a    *)
(* row that is not a draft.                                                *)
publishedVersionLabels(p) ==
    {request[r].label : r \in {q \in Reqs : request[q].status = "approved"
                                              /\ request[q].p = p}}
    \cup (IF plugin[p].listing # "draft" THEN {plugin[p].ver} ELSE {})

VersionNotRegressed(current, next) == next >= current

(* Relation edges frozen or echoed by a client still resolve: it named no  *)
(* embedded child, or the children it names were not torn down since.      *)
lockRelationTargets(p, child) == child \in {0, plugin[p].child}

(* The embedded children after the edges are synchronised to a target      *)
(* state naming generation `child`: an edge that is not named is dropped.  *)
syncRelations(row, child) ==
    IF child = row.child THEN row
    ELSE [row EXCEPT !.child = 0, !.cvis = "private", !.clist = "draft"]

(* Only children that are not published yet take the audience.             *)
promoteEmbeddedChildren(row, audience) ==
    IF row.child # 0 /\ row.clist # "published"
    THEN [row EXCEPT !.cvis = audience, !.clist = "published"]
    ELSE row

demoteEmbeddedChildren(row) ==
    IF row.child # 0 /\ row.clist = "published"
    THEN [row EXCEPT !.clist = "delisted"]
    ELSE row

(* Mutant: writes a status the column's readers do not know.               *)
cancelPendingMisspelt(p) ==
    [r \in Reqs |-> IF r \in Pending(p)
                    THEN [request[r] EXCEPT !.status = "cancelled"]
                    ELSE request[r]]

(* Mutant: a blind write instead of a compare-and-set on pending.          *)
cancelPendingBlind(p) ==
    [r \in Reqs |-> IF request[r].status # "none" /\ request[r].p = p
                    THEN [request[r] EXCEPT !.status = "canceled"]
                    ELSE request[r]]

cancelPendingReviewFor(p) ==
    [r \in Reqs |-> IF r \in Pending(p)
                    THEN [request[r] EXCEPT !.status = "canceled"]
                    ELSE request[r]]

Init ==
    /\ plugin   = [p \in Plugins |-> [state |-> "absent"]]
    /\ request  = [r \in Reqs |-> [status |-> "none"]]
    /\ policy   = TRUE
    /\ call     = [c \in Calls |-> Idle]
    /\ carded   = {}
    /\ platform = {}

-----------------------------------------------------------------------------
(* Owner: drafts                                                           *)

CreatePlugin(p) ==
    /\ plugin[p].state = "absent"
    /\ \E vis \in Visibility, label \in Labels, content \in Contents :
         plugin' = [plugin EXCEPT ![p] =
            [state |-> "live", vis |-> vis, listing |-> "draft",
             ver |-> label, content |-> content,
             gen |-> 0, child |-> 0,
             cvis |-> "private", clist |-> "draft"]]
    /\ UNCHANGED <<request, policy, call, carded, platform>>

(* The unlocked half of an owner's save.  An omitted version carries the   *)
(* label just read; the relations sent keep the embedded children or drop  *)
(* them.  Whether the transaction will look for a pending review is        *)
(* decided here, from the unlocked visibility.                             *)
UpdateRead(c, p) ==
    /\ call[c] = Idle
    /\ Live(p)
    /\ ~OrgListed(p)
    /\ \E vis \in Visibility, label \in Labels, content \in Contents,
          child \in {0, plugin[p].child} :
         /\ VersionNotRegressed(plugin[p].ver, label)
         /\ vis # plugin[p].vis => ~HasPendingReview(p)
         /\ call' = [call EXCEPT ![c] =
              [op |-> "update", p |-> p, vis |-> vis, label |-> label,
               content |-> content, child |-> child,
               refusePending |-> vis # plugin[p].vis]]
    /\ UNCHANGED <<plugin, request, policy, carded, platform>>

(* Mutant: the listing gate is applied to the unlocked read only.          *)
UpdateUngated(c) ==
    /\ call[c].op = "update"
    /\ LET u == call[c]  p == u.p  before == plugin[p] IN
       /\ Live(p)
       /\ u.refusePending => ~HasPendingReview(p)
       /\ VersionNotRegressed(before.ver, u.label)
       /\ lockRelationTargets(p, u.child)
       /\ plugin' = [plugin EXCEPT ![p] = syncRelations(
            [before EXCEPT !.vis = u.vis, !.content = u.content,
               !.ver = u.label,
               !.listing = IF @ = "published" /\ u.vis # before.vis
                           THEN "draft" ELSE @], u.child)]
       /\ platform' = platform \ {p}
    /\ call' = [call EXCEPT ![c] = Idle]
    /\ UNCHANGED <<request, policy, carded>>

(* Mutant: the label is compared with the unlocked read only.              *)
UpdateUnordered(c) ==
    /\ call[c].op = "update"
    /\ LET u == call[c]  p == u.p  before == plugin[p] IN
       /\ Live(p)
       /\ u.refusePending => ~HasPendingReview(p)
       /\ ~OrgListed(p)
       /\ lockRelationTargets(p, u.child)
       /\ plugin' = [plugin EXCEPT ![p] = syncRelations(
            [before EXCEPT !.vis = u.vis, !.content = u.content,
               !.ver = u.label,
               !.listing = IF @ = "published" /\ u.vis # before.vis
                           THEN "draft" ELSE @], u.child)]
       /\ platform' = platform \ {p}
    /\ call' = [call EXCEPT ![c] = Idle]
    /\ UNCHANGED <<request, policy, carded>>

UpdateCommit(c) ==
    /\ call[c].op = "update"
    /\ LET u == call[c]  p == u.p  before == plugin[p] IN
       /\ Live(p)
       /\ u.refusePending => ~HasPendingReview(p)
       /\ ~OrgListed(p)
       /\ VersionNotRegressed(before.ver, u.label)
       /\ lockRelationTargets(p, u.child)
       /\ plugin' = [plugin EXCEPT ![p] = syncRelations(
            [before EXCEPT !.vis = u.vis, !.content = u.content,
               !.ver = u.label,
               !.listing = IF @ = "published" /\ u.vis # before.vis
                           THEN "draft" ELSE @], u.child)]
       /\ platform' = platform \ {p}
    /\ call' = [call EXCEPT ![c] = Idle]
    /\ UNCHANGED <<request, policy, carded>>

(* A private plugin is listed, to its owner only, without a review.        *)
PublishPlugin(p) ==
    /\ Live(p)
    /\ plugin[p].vis = "private"
    /\ ~HasPendingReview(p)
    /\ plugin[p].listing # "published"
    /\ plugin' = [plugin EXCEPT ![p].listing = "published"]
    /\ UNCHANGED <<request, policy, call, carded, platform>>

DeletePlugin(p) ==
    /\ Live(p)
    /\ plugin' = [plugin EXCEPT ![p] = [state |-> "deleted"]]
    /\ request' = cancelPendingReviewFor(p)
    /\ UNCHANGED <<policy, call, carded, platform>>

-----------------------------------------------------------------------------
(* Owner: submitting for review                                            *)

SubmitRead(c, p) ==
    /\ call[c] = Idle
    /\ Live(p)
    /\ plugin[p].vis = "space"
    /\ \E label \in Labels, declared \in BOOLEAN, content \in Contents,
          child \in {0, plugin[p].child} :
         /\ VersionNotRegressed(plugin[p].ver, label)
         /\ declared \/ ( /\ plugin[p].listing # "published"
                          /\ content = plugin[p].content )
         /\ call' = [call EXCEPT ![c] =
              [op |-> "submit", p |-> p, label |-> label,
               content |-> content, declared |-> declared,
               child |-> child, auto |-> policy]]
    /\ UNCHANGED <<plugin, request, policy, carded, platform>>

(* Mutant: the single-pending slot is checked by the unlocked read only.   *)
InsertSecondPending(c) ==
    /\ call[c].op = "submit"
    /\ LET s == call[c]  p == s.p  current == plugin[p] IN
       /\ Live(p)
       /\ current.vis = "space" \/ current.listing = "published"
       /\ s.declared \/ current.listing # "published"
       /\ VersionNotRegressed(current.ver, s.label)
       /\ s.label \notin publishedVersionLabels(p)
       /\ \E r \in Reqs :
            /\ request[r].status = "none"
            /\ request' = [request EXCEPT ![r] =
                 [status |-> "pending", p |-> p,
                  kind |-> IF current.listing # "published"
                           THEN "first" ELSE "upgrade",
                  label |-> s.label, content |-> s.content,
                  child |-> s.child]]
            /\ call' = [call EXCEPT ![c] =
                 [op |-> IF s.auto THEN "approve" ELSE "notify", r |-> r]]
    /\ UNCHANGED <<plugin, policy, carded, platform>>

InsertReviewRequest(c) ==
    /\ call[c].op = "submit"
    /\ LET s == call[c]  p == s.p  current == plugin[p] IN
       /\ Live(p)
       /\ current.vis = "space" \/ current.listing = "published"
       /\ s.declared \/ current.listing # "published"
       /\ VersionNotRegressed(current.ver, s.label)
       /\ s.label \notin publishedVersionLabels(p)
       /\ ~HasPendingReview(p)
       /\ \E r \in Reqs :
            /\ request[r].status = "none"
            /\ request' = [request EXCEPT ![r] =
                 [status |-> "pending", p |-> p,
                  kind |-> IF current.listing # "published"
                           THEN "first" ELSE "upgrade",
                  label |-> s.label, content |-> s.content,
                  child |-> s.child]]
            /\ call' = [call EXCEPT ![c] =
                 [op |-> IF s.auto THEN "approve" ELSE "notify", r |-> r]]
    /\ UNCHANGED <<plugin, policy, carded, platform>>

dispatchReviewCard(c) ==
    /\ call[c].op = "notify"
    /\ carded' = carded \cup {call[c].r}
    /\ call' = [call EXCEPT ![c] = Idle]
    /\ UNCHANGED <<plugin, request, policy, platform>>

-----------------------------------------------------------------------------
(* Decisions                                                               *)

(* The approval transaction on request r: refuses unless everything still  *)
(* holds under the locks, then applies the frozen snapshot.                *)
ApproveTx(r) ==
    /\ request[r].status = "pending"
    /\ LET q == request[r]  p == q.p  current == plugin[p]
           isFirst == ~OrgListed(p)
           applied == syncRelations(
                        [current EXCEPT !.content = q.content,
                           !.ver = q.label, !.vis = "space",
                           !.listing = "published"], q.child) IN
       /\ Live(p)
       /\ VersionNotRegressed(current.ver, q.label)
       /\ q.label \notin publishedVersionLabels(p)
       /\ lockRelationTargets(p, q.child)
       /\ plugin' = [plugin EXCEPT ![p] =
            IF isFirst THEN promoteEmbeddedChildren(applied, current.vis)
                       ELSE applied]
       /\ request' = [request EXCEPT ![r].status = "approved"]
       /\ platform' = platform \ {p}

(* Withdraws a pending request; the plugin row is locked, never written.   *)
CancelTx(r) ==
    /\ request[r].status = "pending"
    /\ Live(request[r].p)
    /\ request' = [request EXCEPT ![r].status = "canceled"]

ApproveReview(r) ==
    /\ ApproveTx(r)
    /\ UNCHANGED <<policy, call, carded>>

RejectReview(r) ==
    /\ request[r].status = "pending"
    /\ Live(request[r].p)
    /\ request' = [request EXCEPT ![r].status = "rejected"]
    /\ UNCHANGED <<plugin, policy, call, carded, platform>>

CancelReview(r) ==
    /\ CancelTx(r)
    /\ UNCHANGED <<plugin, policy, call, carded, platform>>

(* The Space's auto-approve policy decides right after the submission, in  *)
(* a second transaction.  Its commit may be reported as an error.          *)
AutoApprove(c) ==
    /\ call[c].op = "approve"
    /\ ApproveTx(call[c].r)
    /\ \E next \in {Idle, [call[c] EXCEPT !.op = "compensate"]} :
         call' = [call EXCEPT ![c] = next]
    /\ UNCHANGED <<policy, carded>>

(* Mutant: a failed approval returns its error and compensates nothing.    *)
AutoApproveGivesUp(c) ==
    /\ call[c].op = "approve"
    /\ call' = [call EXCEPT ![c] = Idle]
    /\ UNCHANGED <<plugin, request, policy, carded, platform>>

AutoApproveFails(c) ==
    /\ call[c].op = "approve"
    /\ call' = [call EXCEPT ![c].op = "compensate"]
    /\ UNCHANGED <<plugin, request, policy, carded, platform>>

AutoCancel(c) ==
    /\ call[c].op = "compensate"
    /\ CancelTx(call[c].r)
    /\ call' = [call EXCEPT ![c] = Idle]
    /\ UNCHANGED <<plugin, policy, carded, platform>>

(* Mutant: a failed compensation is only logged.                           *)
AutoCancelFailsSilently(c) ==
    /\ call[c].op = "compensate"
    /\ call' = [call EXCEPT ![c] = Idle]
    /\ UNCHANGED <<plugin, request, policy, carded, platform>>

(* The compensation lost a race or the store is unavailable.               *)
AutoCancelFails(c) ==
    /\ call[c].op = "compensate"
    /\ carded' = carded \cup {call[c].r}
    /\ call' = [call EXCEPT ![c] = Idle]
    /\ UNCHANGED <<plugin, request, policy, platform>>

-----------------------------------------------------------------------------
(* Space administrators and the platform operator                          *)

UpdateReviewPolicy ==
    /\ policy' = ~policy
    /\ UNCHANGED <<plugin, request, call, carded, platform>>

(* Mutant: the takedown leaves the open request standing.                  *)
DelistKeepsRequest(p) ==
    /\ OrgListed(p)
    /\ plugin' = [plugin EXCEPT ![p] =
         demoteEmbeddedChildren([@ EXCEPT !.listing = "delisted"])]
    /\ UNCHANGED <<request, policy, call, carded, platform>>

DelistPlugin(p) ==
    /\ OrgListed(p)
    /\ plugin' = [plugin EXCEPT ![p] =
         demoteEmbeddedChildren([@ EXCEPT !.listing = "delisted"])]
    /\ request' = cancelPendingReviewFor(p)
    /\ UNCHANGED <<policy, call, carded, platform>>

(* The operator's edits write back the visibility they read.  A metadata   *)
(* edit has its label compared again under the lock; the package reupload  *)
(* of a skill does not ask for that.                                       *)
OperatorRead(c, p, forward) ==
    /\ call[c] = Idle
    /\ Live(p)
    /\ \E label \in Labels, content \in Contents,
          child \in {0, plugin[p].child} :
         /\ VersionNotRegressed(plugin[p].ver, label)
         /\ call' = [call EXCEPT ![c] =
              [op |-> "admin", p |-> p, vis |-> plugin[p].vis,
               label |-> label, content |-> content,
               child |-> child, forward |-> forward]]
    /\ UNCHANGED <<plugin, request, policy, carded, platform>>

AdminUpdateRead(c, p) == OperatorRead(c, p, TRUE)

AdminImportRead(c, p) == p \notin Containers /\ OperatorRead(c, p, FALSE)

OperatorCommit(c) ==
    /\ call[c].op = "admin"
    /\ LET u == call[c]  p == u.p IN
       /\ Live(p)
       /\ u.forward => VersionNotRegressed(plugin[p].ver, u.label)
       /\ lockRelationTargets(p, u.child)
       /\ plugin' = [plugin EXCEPT ![p] = syncRelations(
            [@ EXCEPT !.vis = u.vis, !.content = u.content,
                      !.ver = u.label], u.child)]
       /\ platform' = platform \cup {p}
    /\ call' = [call EXCEPT ![c] = Idle]
    /\ UNCHANGED <<request, policy, carded>>

(* Re-uploading a container reads the row, parses the archive, and then    *)
(* rebuilds the graph.  The label is the one read before the parse.        *)
ReuploadRead(c, p) ==
    /\ call[c] = Idle
    /\ p \in Containers
    /\ Live(p)
    /\ \E content \in Contents :
         call' = [call EXCEPT ![c] =
            [op |-> "rebuild", p |-> p, label |-> plugin[p].ver,
             content |-> content]]
    /\ UNCHANGED <<plugin, request, policy, carded, platform>>

RebuildGraph(c) ==
    /\ call[c].op = "rebuild"
    /\ LET u == call[c]  p == u.p  before == plugin[p] IN
       /\ Live(p)
       /\ before.gen < MaxGen
       /\ plugin' = [plugin EXCEPT ![p] =
            [before EXCEPT !.content = u.content, !.ver = u.label,
               !.gen = @ + 1, !.child = before.gen + 1,
               !.cvis = before.vis, !.clist = before.listing]]
       /\ platform' = platform \cup {p}
    /\ call' = [call EXCEPT ![c] = Idle]
    /\ UNCHANGED <<request, policy, carded>>

-----------------------------------------------------------------------------
(* A refused or failed transaction is rolled back and ends the call.       *)
CallFails(c) ==
    /\ call[c].op \in {"submit", "update", "admin", "rebuild"}
    /\ call' = [call EXCEPT ![c] = Idle]
    /\ UNCHANGED <<plugin, request, policy, carded, platform>>

(* The process dies after the submission committed.                        *)
Crash(c) ==
    /\ MayCrash
    /\ call[c].op \in {"approve", "compensate", "notify"}
    /\ call' = [call EXCEPT ![c] = Idle]
    /\ UNCHANGED <<plugin, request, policy, carded, platform>>

(* The steps a call takes once it has read the row.                        *)
CallStep(c) ==
    \/ UpdateCommit(c)
    \/ InsertReviewRequest(c)
    \/ dispatchReviewCard(c)
    \/ AutoApprove(c)
    \/ AutoApproveFails(c)
    \/ AutoCancel(c)
    \/ AutoCancelFails(c)
    \/ OperatorCommit(c)
    \/ RebuildGraph(c)
    \/ CallFails(c)

Next ==
    \/ \E p \in Plugins : \/ CreatePlugin(p)
                          \/ PublishPlugin(p)
                          \/ DeletePlugin(p)
                          \/ DelistPlugin(p)
    \/ \E r \in Reqs : \/ ApproveReview(r)
                       \/ RejectReview(r)
                       \/ CancelReview(r)
    \/ UpdateReviewPolicy
    \/ \E c \in Calls : CallStep(c) \/ Crash(c)
    \/ \E c \in Calls, p \in Plugins : \/ UpdateRead(c, p)
                                       \/ SubmitRead(c, p)
                                       \/ AdminUpdateRead(c, p)
                                       \/ AdminImportRead(c, p)
                                       \/ ReuploadRead(c, p)

Spec == Init /\ [][Next]_vars

(* A handler that has started runs on: the scheduler never stops a         *)
(* goroutine for good.                                                     *)
FairSpec == Spec /\ \A c \in Calls : WF_vars(CallStep(c))

-----------------------------------------------------------------------------
(* Every row, request and call has the columns and fields the code gives   *)
(* it, and the values they range over.                                     *)
TypeOK ==
    /\ plugin \in [Plugins -> Row \cup NoRow]
    /\ request \in [Reqs -> Request \cup NoRequest]
    /\ policy \in BOOLEAN
    /\ call \in [Calls -> Call]
    /\ carded \subseteq Reqs
    /\ platform \subseteq Plugins

(* Content the whole Space reads was approved: a live row that is listed   *)
(* to the Space carries the content and the label of an approved request   *)
(* of that plugin, unless the platform operator wrote the content last     *)
(* (Service.update, Repo.updateInTx, PublishPlugin, ApproveReview).        *)
OrgContentReviewed ==
    \A p \in Plugins \ platform : OrgListed(p) =>
        \E r \in Reqs : /\ request[r].status = "approved"
                        /\ request[r].p = p
                        /\ request[r].content = plugin[p].content
                        /\ request[r].label = plugin[p].ver

(* At most one request per plugin is open (insertReviewInTx and the unique *)
(* index on pending_plugin_id).                                            *)
SinglePending ==
    \A r, q \in Reqs : ( /\ request[r].status = "pending"
                         /\ request[q].status = "pending"
                         /\ request[r].p = request[q].p ) => r = q

(* No open request outlives its plugin: once the row is deleted nobody can *)
(* see or settle the request (cancelPendingReviewFor).                     *)
PendingPluginLive ==
    \A r \in Reqs : request[r].status = "pending" => Live(request[r].p)

(* A takedown sticks: a request that can relist a delisted plugin was      *)
(* submitted after the takedown, as a first listing (DelistPlugin).        *)
TakedownSticks ==
    \A r \in Reqs : ( /\ request[r].status = "pending"
                      /\ plugin[request[r].p].listing = "delisted" )
        => request[r].kind = "first"

(* While a first listing waits for its decision the plugin is not listed   *)
(* by any other route (PublishPlugin's check under the lock).              *)
FirstListingWaits ==
    \A r \in Reqs : ( /\ request[r].status = "pending"
                      /\ request[r].kind = "first" )
        => plugin[request[r].p].listing # "published"

(* A label names one reviewed release: no two approved requests of a       *)
(* plugin share it (publishedVersionLabels, evaluated again at approval).  *)
LabelsMintedOnce ==
    \A r, q \in Reqs : ( /\ request[r].status = "approved"
                         /\ request[q].status = "approved"
                         /\ request[r].p = request[q].p
                         /\ request[r].label = request[q].label ) => r = q

(* A takedown takes the whole graph down: no embedded child of a delisted  *)
(* container stays published (demoteEmbeddedChildren).                     *)
DelistTakesGraphDown ==
    \A p \in Plugins :
        Live(p) /\ plugin[p].listing = "delisted" /\ plugin[p].child # 0
            => plugin[p].clist # "published"

(* An open request is announced by a card, or the call that inserted it is *)
(* still going to decide, withdraw or announce it, as long as no process   *)
(* dies in between, MayCrash = FALSE (autoApproveReview).                  *)
PendingIsNotified ==
    \A r \in Reqs : request[r].status = "pending" =>
        \/ r \in carded
        \/ \E c \in Calls : /\ call[c].op \in {"approve", "compensate", "notify"}
                            /\ call[c].r = r

(* What a reviewer decides on is frozen, and a decision is final: a step   *)
(* only moves a request from pending to a decision, and changes nothing    *)
(* else about it (the CAS on status in every decision transaction).        *)
DecisionFinal ==
    [][\A r \in Reqs : request[r].status # "none" /\ request'[r] # request[r]
          => /\ request[r].status = "pending"
             /\ request'[r].status \in Decided
             /\ request'[r] = [request[r] EXCEPT !.status = request'[r].status]]_vars

(* The label of a live row goes back only in a step that commits an        *)
(* operator's package reupload: every other writer compares it again under *)
(* the row lock (updateInTx, insertReviewInTx, ApproveReview).             *)
OnlyReuploadRegresses ==
    [][\A p \in Plugins : Live(p) /\ Live(p)' /\ plugin'[p].ver < plugin[p].ver
          => \E c \in Calls : /\ \/ call[c].op = "rebuild"
                                 \/ call[c].op = "admin" /\ ~call[c].forward
                              /\ call[c].p = p
                              /\ call'[c] = Idle]_vars

(* A submission under the auto-approve policy settles: its request is      *)
(* decided or withdrawn, or an approval card announces it                  *)
(* (autoApproveReview).                                                    *)
AutoSubmissionSettles ==
    \A r \in Reqs :
        (\E c \in Calls : call[c].op \in {"approve", "compensate"}
                            /\ call[c].r = r)
        ~> (request[r].status # "pending" \/ r \in carded)

-----------------------------------------------------------------------------
(* What the code's comments promise and a race between two calls breaks.   *)

(* The version label may go up or stay put, never back (Service.update,    *)
(* AdminUpdate, adminImportConsumedTask, RebuildGraph).                    *)
VersionForward ==
    [][\A p \in Plugins : Live(p) /\ Live(p)'
          => VersionNotRegressed(plugin[p].ver, plugin'[p].ver)]_vars

(* While a request stays open the declared audience of its plugin does not *)
(* change, so an approval never publishes against the author's last stated *)
(* intent (RefusePendingReview in Service.update and updateInTx).          *)
PendingAudienceStable ==
    [][\A r \in Reqs : ( /\ request[r].status = "pending"
                         /\ request'[r].status = "pending"
                         /\ Live(request[r].p) /\ Live(request[r].p)' )
          => plugin'[request[r].p].vis = plugin[request[r].p].vis]_vars

(* Open requests are sound: one a plugin, never for a deleted one, and a   *)
(* first listing waits for its decision (insertReviewInTx,                 *)
(* cancelPendingReviewFor, PublishPlugin).                                 *)
RequestsSound ==
  /\ SinglePending
  /\ PendingPluginLive
  /\ FirstListingWaits

(* A takedown holds: for the whole graph, and against requests from before *)
(* it (DelistPlugin, demoteEmbeddedChildren).                              *)
TakedownHolds ==
  /\ TakedownSticks
  /\ DelistTakesGraphDown
=============================================================================
