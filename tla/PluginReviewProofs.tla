------------------------- MODULE PluginReviewProofs -------------------------
(***************************************************************************)
(* Theorems about PluginReview, for any number of plugins, requests,       *)
(* concurrent calls, labels and contents.                                  *)
(***************************************************************************)
EXTENDS PluginReview, TLAPS

(* A leaf that names no prover is left to Zenon: most need no more than    *)
(* first-order reasoning about the facts they cite.                        *)
USE Zenon

(* The values the columns are given are values of the columns' types.      *)
LEMMA ColumnValues ==
    /\ "private" \in Visibility /\ "space" \in Visibility
    /\ "draft" \in Listing /\ "published" \in Listing /\ "delisted" \in Listing
    /\ 0 \in Gens
  BY SMT, PluginReviewAssumption DEF Visibility, Listing, Gens

(* Two versions of a row agree on every column but those of its children.  *)
SameColumns(new, row) ==
    /\ new.state = row.state
    /\ new.vis = row.vis
    /\ new.listing = row.listing
    /\ new.ver = row.ver
    /\ new.content = row.content

(* Synchronising the edges of a live row keeps it typed and touches none   *)
(* of its own columns (syncRelations).                                     *)
LEMMA SyncKeepsRow ==
    ASSUME NEW row \in Row, NEW child \in Gens
    PROVE  /\ syncRelations(row, child) \in Row
           /\ SameColumns(syncRelations(row, child), row)
  <1> DEFINE new == [row EXCEPT !.child = 0, !.cvis = "private", !.clist = "draft"]
  <1>1. new \in Row /\ SameColumns(new, row)
    BY ColumnValues DEF Row, SameColumns
  <1>2. SameColumns(row, row)
    BY DEF SameColumns
  <1> QED BY <1>1, <1>2 DEF syncRelations

(* So does listing its embedded children (promoteEmbeddedChildren).        *)
LEMMA PromoteKeepsRow ==
    ASSUME NEW row \in Row, NEW audience \in Visibility
    PROVE  /\ promoteEmbeddedChildren(row, audience) \in Row
           /\ SameColumns(promoteEmbeddedChildren(row, audience), row)
  <1> DEFINE new == [row EXCEPT !.cvis = audience, !.clist = "published"]
  <1>1. new \in Row /\ SameColumns(new, row)
    BY ColumnValues DEF Row, SameColumns
  <1>2. SameColumns(row, row)
    BY DEF SameColumns
  <1> QED BY <1>1, <1>2 DEF promoteEmbeddedChildren

(* And so does taking them down (demoteEmbeddedChildren).                  *)
LEMMA DemoteKeepsRow ==
    ASSUME NEW row \in Row
    PROVE  /\ demoteEmbeddedChildren(row) \in Row
           /\ SameColumns(demoteEmbeddedChildren(row), row)
  <1> DEFINE new == [row EXCEPT !.clist = "delisted"]
  <1>1. new \in Row /\ SameColumns(new, row)
    BY ColumnValues DEF Row, SameColumns
  <1>2. SameColumns(row, row)
    BY DEF SameColumns
  <1> QED BY <1>1, <1>2 DEF demoteEmbeddedChildren

(* In a typed state the tag of a row, a request or a call tells its fields *)
(* (the union types of the plugins and plugin_review_requests rows and of  *)
(* the calls in flight).                                                   *)
LEMMA TagsTellFields ==
    ASSUME TypeOK
    PROVE  /\ \A p \in Plugins : Live(p) => plugin[p] \in Row
           /\ \A r \in Reqs : request[r].status # "none" => request[r] \in Request
           /\ \A c \in Calls :
                /\ call[c].op = "submit" => call[c] \in SubmitCall
                /\ call[c].op = "update" => call[c] \in UpdateCall
                /\ call[c].op = "admin" => call[c] \in OperatorCall
                /\ call[c].op = "rebuild" => call[c] \in RebuildCall
                /\ call[c].op \in {"approve", "compensate", "notify"}
                     => call[c] \in RequestCall
  <1>1. \A p \in Plugins : Live(p) => plugin[p] \in Row
    BY DEF TypeOK, Live, NoRow
  <1>2. \A r \in Reqs : request[r].status # "none" => request[r] \in Request
    BY DEF TypeOK, NoRequest
  <1>3. ASSUME NEW c \in Calls
        PROVE  /\ call[c].op = "submit" => call[c] \in SubmitCall
               /\ call[c].op = "update" => call[c] \in UpdateCall
               /\ call[c].op = "admin" => call[c] \in OperatorCall
               /\ call[c].op = "rebuild" => call[c] \in RebuildCall
               /\ call[c].op \in {"approve", "compensate", "notify"}
                    => call[c] \in RequestCall
    BY DEF TypeOK, Call, SubmitCall, UpdateCall, OperatorCall, RebuildCall,
           RequestCall
  <1> QED BY <1>1, <1>2, <1>3

(* An approval transaction keeps the rows and the requests typed           *)
(* (Repo.ApproveReview).                                                   *)
LEMMA ApproveTxTyped ==
    ASSUME TypeOK, NEW r \in Reqs, ApproveTx(r)
    PROVE  /\ plugin' \in [Plugins -> Row \cup NoRow]
           /\ request' \in [Reqs -> Request \cup NoRequest]
           /\ platform' \subseteq Plugins
  <1> DEFINE q == request[r]
             p == q.p
             current == plugin[p]
             written == [current EXCEPT !.content = q.content, !.ver = q.label,
                           !.vis = "space", !.listing = "published"]
             applied == syncRelations(written, q.child)
             new == IF ~OrgListed(p)
                    THEN promoteEmbeddedChildren(applied, current.vis)
                    ELSE applied
  <1>1. q \in Request /\ p \in Plugins
    BY TagsTellFields DEF ApproveTx, Request
  <1>2. current \in Row
    BY <1>1, TagsTellFields DEF ApproveTx
  <1>3. written \in Row
    BY <1>1, <1>2, ColumnValues DEF Row, Request
  <1>4. applied \in Row
    <2>1. q.child \in Gens
      BY <1>1 DEF Request
    <2> QED BY <1>3, <2>1, SyncKeepsRow
  <1>5. new \in Row
    <2>1. current.vis \in Visibility
      BY <1>2 DEF Row
    <2> QED BY <1>4, <2>1, PromoteKeepsRow
  <1>6. plugin' = [plugin EXCEPT ![p] = new]
    BY DEF ApproveTx
  <1>7. [q EXCEPT !.status = "approved"] \in Request
    BY <1>1 DEF Request, Decided
  <1>8. request' = [request EXCEPT ![r] = [q EXCEPT !.status = "approved"]]
    BY DEF ApproveTx
  <1>9. plugin' \in [Plugins -> Row \cup NoRow]
    BY <1>1, <1>5, <1>6 DEF TypeOK
  <1>10. request' \in [Reqs -> Request \cup NoRequest]
    BY <1>7, <1>8 DEF TypeOK
  <1>11. platform' \subseteq Plugins
    BY DEF ApproveTx, TypeOK
  <1> QED BY <1>9, <1>10, <1>11

(* Cancelling the open requests of a plugin keeps the requests typed       *)
(* (cancelPendingReviewFor).                                               *)
LEMMA CancelTyped ==
    ASSUME TypeOK, NEW p \in Plugins
    PROVE  cancelPendingReviewFor(p) \in [Reqs -> Request \cup NoRequest]
  <1>1. ASSUME NEW r \in Reqs, r \in Pending(p)
        PROVE  [request[r] EXCEPT !.status = "canceled"] \in Request
    <2>1. request[r] \in Request
      BY <1>1, TagsTellFields DEF Pending
    <2> QED BY <2>1 DEF Request, Decided
  <1> QED BY <1>1 DEF cancelPendingReviewFor, TypeOK

(* Deciding one request keeps the requests typed (the status update of     *)
(* RejectReview and CancelReview).                                         *)
LEMMA DecideTyped ==
    ASSUME TypeOK, NEW r \in Reqs, request[r].status = "pending",
           NEW d \in Decided
    PROVE  [request EXCEPT ![r].status = d] \in [Reqs -> Request \cup NoRequest]
  <1>1. request[r] \in Request
    BY TagsTellFields
  <1>2. [request[r] EXCEPT !.status = d] \in Request
    BY <1>1 DEF Request
  <1> QED BY <1>2 DEF TypeOK

(* Every step keeps the state typed.                                       *)
LEMMA TypeStep == TypeOK /\ [Next]_vars => TypeOK'
  <1> SUFFICES ASSUME TypeOK, [Next]_vars
               PROVE  TypeOK'
    OBVIOUS
  <1>1. ASSUME NEW p \in Plugins, CreatePlugin(p)
        PROVE  TypeOK'
    <2>1. PICK vis \in Visibility, label \in Labels, content \in Contents :
            plugin' = [plugin EXCEPT ![p] =
               [state |-> "live", vis |-> vis, listing |-> "draft",
                ver |-> label, content |-> content, gen |-> 0, child |-> 0,
                cvis |-> "private", clist |-> "draft"]]
      BY <1>1 DEF CreatePlugin
    <2>2. plugin'[p] \in Row
      BY <2>1, ColumnValues DEF Row, TypeOK
    <2> QED BY <1>1, <2>1, <2>2 DEF CreatePlugin, TypeOK
  <1>2. ASSUME NEW p \in Plugins, PublishPlugin(p)
        PROVE  TypeOK'
    <2>1. plugin[p] \in Row
      BY <1>2, TagsTellFields DEF PublishPlugin
    <2>2. [plugin[p] EXCEPT !.listing = "published"] \in Row
      BY <2>1, ColumnValues DEF Row
    <2> QED BY <1>2, <2>2 DEF PublishPlugin, TypeOK
  <1>3. ASSUME NEW p \in Plugins, DeletePlugin(p)
        PROVE  TypeOK'
    BY <1>3, CancelTyped DEF DeletePlugin, TypeOK, NoRow
  <1>4. ASSUME NEW p \in Plugins, DelistPlugin(p)
        PROVE  TypeOK'
    <2> DEFINE row == [plugin[p] EXCEPT !.listing = "delisted"]
    <2>1. plugin[p] \in Row
      BY <1>4, TagsTellFields DEF DelistPlugin, OrgListed
    <2>2. row \in Row
      BY <2>1, ColumnValues DEF Row
    <2>3. demoteEmbeddedChildren(row) \in Row
      BY <2>2, DemoteKeepsRow
    <2>4. plugin' = [plugin EXCEPT ![p] = demoteEmbeddedChildren(row)]
      BY <1>4 DEF DelistPlugin
    <2> QED BY <1>4, <2>3, <2>4, CancelTyped DEF DelistPlugin, TypeOK
  <1>5. ASSUME NEW r \in Reqs, ApproveReview(r)
        PROVE  TypeOK'
    BY <1>5, ApproveTxTyped DEF ApproveReview, TypeOK
  <1>6. ASSUME NEW r \in Reqs, RejectReview(r)
        PROVE  TypeOK'
    BY <1>6, DecideTyped DEF RejectReview, TypeOK, Decided
  <1>7. ASSUME NEW r \in Reqs, CancelReview(r)
        PROVE  TypeOK'
    BY <1>7, DecideTyped DEF CancelReview, CancelTx, TypeOK, Decided
  <1>8. ASSUME UpdateReviewPolicy
        PROVE  TypeOK'
    BY <1>8 DEF UpdateReviewPolicy, TypeOK
  <1>9. ASSUME NEW c \in Calls, UpdateCommit(c)
        PROVE  TypeOK'
    <2> DEFINE u == call[c]
               p == u.p
               before == plugin[p]
               listing == IF before.listing = "published" /\ u.vis # before.vis
                          THEN "draft" ELSE before.listing
               row == [before EXCEPT !.vis = u.vis, !.content = u.content,
                         !.ver = u.label, !.listing = listing]
    <2>1. u \in UpdateCall
      BY <1>9, TagsTellFields DEF UpdateCommit
    <2>2. p \in Plugins /\ u.child \in Gens
      BY <2>1 DEF UpdateCall
    <2>3. before \in Row
      BY <1>9, <2>2, TagsTellFields DEF UpdateCommit
    <2>4. listing \in Listing
      BY <2>3, ColumnValues DEF Row
    <2>5. row \in Row
      BY <2>1, <2>3, <2>4 DEF Row, UpdateCall
    <2>6. syncRelations(row, u.child) \in Row
      BY <2>2, <2>5, SyncKeepsRow
    <2>7. plugin' = [plugin EXCEPT ![p] = syncRelations(row, u.child)]
      BY <1>9 DEF UpdateCommit
    <2>8. call' = [call EXCEPT ![c] = Idle] /\ Idle \in Call
      BY <1>9 DEF UpdateCommit, Idle, Call
    <2> QED BY SMT, <1>9, <2>2, <2>6, <2>7, <2>8 DEF UpdateCommit, TypeOK
  <1>10. ASSUME NEW c \in Calls, InsertReviewRequest(c)
         PROVE  TypeOK'
    <2> DEFINE s == call[c]
               p == s.p
    <2>1. s \in SubmitCall
      BY <1>10, TagsTellFields DEF InsertReviewRequest
    <2>2. PICK r \in Reqs :
            /\ request' = [request EXCEPT ![r] =
                 [status |-> "pending", p |-> p,
                  kind |-> IF plugin[p].listing # "published"
                           THEN "first" ELSE "upgrade",
                  label |-> s.label, content |-> s.content,
                  child |-> s.child]]
            /\ call' = [call EXCEPT ![c] =
                 [op |-> IF s.auto THEN "approve" ELSE "notify", r |-> r]]
      BY <1>10 DEF InsertReviewRequest
    <2>3. request'[r] \in Request
      BY <2>1, <2>2 DEF Request, SubmitCall, TypeOK
    <2>4. call'[c] \in RequestCall
      BY <2>1, <2>2 DEF RequestCall, SubmitCall, TypeOK
    <2> QED BY <1>10, <2>2, <2>3, <2>4 DEF InsertReviewRequest, TypeOK, Call
  <1>11. ASSUME NEW c \in Calls, dispatchReviewCard(c) \/ AutoCancelFails(c)
         PROVE  TypeOK'
    <2>1. call[c] \in RequestCall
      BY <1>11, TagsTellFields DEF dispatchReviewCard, AutoCancelFails
    <2>2. call[c].r \in Reqs
      BY <2>1 DEF RequestCall
    <2> QED BY SMT, <1>11, <2>2
            DEF dispatchReviewCard, AutoCancelFails, TypeOK, Idle, Call
  <1>12. ASSUME NEW c \in Calls, AutoApprove(c)
         PROVE  TypeOK'
    <2>1. call[c] \in RequestCall
      BY <1>12, TagsTellFields DEF AutoApprove
    <2>2. call[c].r \in Reqs /\ [call[c] EXCEPT !.op = "compensate"] \in RequestCall
      BY <2>1 DEF RequestCall
    <2>3. call' \in [Calls -> Call]
      BY SMT, <1>12, <2>2 DEF AutoApprove, TypeOK, Idle, Call
    <2> QED BY <1>12, <2>2, <2>3, ApproveTxTyped DEF AutoApprove, TypeOK
  <1>13. ASSUME NEW c \in Calls, AutoApproveFails(c)
         PROVE  TypeOK'
    <2>1. call[c] \in RequestCall
      BY <1>13, TagsTellFields DEF AutoApproveFails
    <2>2. [call[c] EXCEPT !.op = "compensate"] \in RequestCall
      BY <2>1 DEF RequestCall
    <2> QED BY <1>13, <2>2 DEF AutoApproveFails, TypeOK, Call
  <1>14. ASSUME NEW c \in Calls, AutoCancel(c)
         PROVE  TypeOK'
    <2>1. call[c] \in RequestCall
      BY <1>14, TagsTellFields DEF AutoCancel
    <2>2. call[c].r \in Reqs
      BY <2>1 DEF RequestCall
    <2>3. request' \in [Reqs -> Request \cup NoRequest]
      BY <1>14, <2>2, DecideTyped DEF AutoCancel, CancelTx, Decided
    <2> QED BY <1>14, <2>3 DEF AutoCancel, TypeOK, Idle, Call
  <1>15. ASSUME NEW c \in Calls, OperatorCommit(c)
         PROVE  TypeOK'
    <2> DEFINE u == call[c]
               p == u.p
               row == [plugin[p] EXCEPT !.vis = u.vis, !.content = u.content,
                         !.ver = u.label]
    <2>1. u \in OperatorCall
      BY <1>15, TagsTellFields DEF OperatorCommit
    <2>2. p \in Plugins /\ u.child \in Gens
      BY <2>1 DEF OperatorCall
    <2>3. plugin[p] \in Row
      BY <1>15, <2>2, TagsTellFields DEF OperatorCommit
    <2>4. row \in Row
      BY <2>1, <2>3 DEF Row, OperatorCall
    <2>5. syncRelations(row, u.child) \in Row
      BY <2>2, <2>4, SyncKeepsRow
    <2>6. plugin' = [plugin EXCEPT ![p] = syncRelations(row, u.child)]
      BY <1>15 DEF OperatorCommit
    <2> QED BY <1>15, <2>2, <2>5, <2>6 DEF OperatorCommit, TypeOK, Idle, Call
  <1>16. ASSUME NEW c \in Calls, RebuildGraph(c)
         PROVE  TypeOK'
    <2> DEFINE u == call[c]
               p == u.p
               before == plugin[p]
               row == [before EXCEPT !.content = u.content, !.ver = u.label,
                         !.gen = before.gen + 1, !.child = before.gen + 1,
                         !.cvis = before.vis, !.clist = before.listing]
    <2>1. u \in RebuildCall
      BY <1>16, TagsTellFields DEF RebuildGraph
    <2>2. p \in Plugins
      BY <2>1 DEF RebuildCall
    <2>3. before \in Row
      BY <1>16, <2>2, TagsTellFields DEF RebuildGraph
    <2>4. before.gen + 1 \in Gens
      <3>1. before.gen \in Gens /\ before.gen < MaxGen
        BY <1>16, <2>3 DEF RebuildGraph, Row
      <3> QED BY SMT, <3>1, PluginReviewAssumption DEF Gens
    <2>5. row \in Row
      BY <2>1, <2>3, <2>4 DEF Row, RebuildCall
    <2>6. plugin' = [plugin EXCEPT ![p] = row]
      BY <1>16 DEF RebuildGraph
    <2> QED BY <1>16, <2>2, <2>5, <2>6 DEF RebuildGraph, TypeOK, Idle, Call
  <1>17. ASSUME NEW c \in Calls, CallFails(c) \/ Crash(c)
         PROVE  TypeOK'
    BY SMT, <1>17 DEF CallFails, Crash, TypeOK, Idle, Call
  <1>18. ASSUME NEW c \in Calls, NEW p \in Plugins, UpdateRead(c, p)
         PROVE  TypeOK'
    <2>1. plugin[p] \in Row
      BY <1>18, TagsTellFields DEF UpdateRead
    <2>2. call' \in [Calls -> Call]
      BY SMT, <1>18, <2>1, ColumnValues
         DEF UpdateRead, TypeOK, Row, Call, UpdateCall
    <2> QED BY <1>18, <2>2 DEF UpdateRead, TypeOK
  <1>19. ASSUME NEW c \in Calls, NEW p \in Plugins, SubmitRead(c, p)
         PROVE  TypeOK'
    <2>1. plugin[p] \in Row
      BY <1>19, TagsTellFields DEF SubmitRead
    <2>2. call' \in [Calls -> Call]
      BY SMT, <1>19, <2>1, ColumnValues
         DEF SubmitRead, TypeOK, Row, Call, SubmitCall
    <2> QED BY <1>19, <2>2 DEF SubmitRead, TypeOK
  <1>20. ASSUME NEW c \in Calls, NEW p \in Plugins, NEW f \in BOOLEAN,
                OperatorRead(c, p, f)
         PROVE  TypeOK'
    <2>1. plugin[p] \in Row
      BY <1>20, TagsTellFields DEF OperatorRead
    <2>2. call' \in [Calls -> Call]
      BY SMT, <1>20, <2>1, ColumnValues
         DEF OperatorRead, TypeOK, Row, Call, OperatorCall
    <2> QED BY <1>20, <2>2 DEF OperatorRead, TypeOK
  <1>21. ASSUME NEW c \in Calls, NEW p \in Plugins, ReuploadRead(c, p)
         PROVE  TypeOK'
    <2>1. plugin[p] \in Row
      BY <1>21, TagsTellFields DEF ReuploadRead
    <2>2. call' \in [Calls -> Call]
      BY SMT, <1>21, <2>1 DEF ReuploadRead, TypeOK, Row, Call, RebuildCall
    <2> QED BY <1>21, <2>2 DEF ReuploadRead, TypeOK
  <1>22. CASE UNCHANGED vars
    BY <1>22 DEF vars, TypeOK
  <1> QED
    BY <1>1, <1>2, <1>3, <1>4, <1>5, <1>6, <1>7, <1>8, <1>9, <1>10, <1>11,
       <1>12, <1>13, <1>14, <1>15, <1>16, <1>17, <1>18, <1>19, <1>20, <1>21,
       <1>22 DEF Next, CallStep, AdminUpdateRead, AdminImportRead

(* The state stays typed: every writer of the plugins row, of the review   *)
(* requests and of a call's carried values writes values of their types.   *)
THEOREM TypeCorrect == Spec => []TypeOK
  <1>1. Init => TypeOK
    BY SMT DEF Init, TypeOK, NoRow, NoRequest, Idle, Call
  <1> QED BY <1>1, TypeStep, PTL DEF Spec

-----------------------------------------------------------------------------
(* What each writer of the plugins row does to the columns of that row.    *)

(* Repo.ApproveReview: the row becomes the frozen snapshot, listed to the  *)
(* Space, and only its request changes.                                    *)
LEMMA ApproveEffect ==
    ASSUME TypeOK, NEW r \in Reqs, ApproveTx(r)
    PROVE  /\ request[r] \in Request
           /\ request[r].p \in Plugins
           /\ Live(request[r].p)
           /\ plugin[request[r].p] \in Row
           /\ plugin'[request[r].p] \in Row
           /\ plugin'[request[r].p].listing = "published"
           /\ plugin'[request[r].p].ver = request[r].label
           /\ plugin'[request[r].p].content = request[r].content
           /\ \A o \in Plugins : o # request[r].p => plugin'[o] = plugin[o]
           /\ request'[r] = [request[r] EXCEPT !.status = "approved"]
           /\ \A q \in Reqs : q # r => request'[q] = request[q]
           /\ request[r].label \notin publishedVersionLabels(request[r].p)
           /\ VersionNotRegressed(plugin[request[r].p].ver, request[r].label)
           /\ platform' = platform \ {request[r].p}
  <1> DEFINE q == request[r]
             p == q.p
             current == plugin[p]
             written == [current EXCEPT !.content = q.content, !.ver = q.label,
                           !.vis = "space", !.listing = "published"]
             applied == syncRelations(written, q.child)
             new == IF ~OrgListed(p)
                    THEN promoteEmbeddedChildren(applied, current.vis)
                    ELSE applied
  <1>1. q \in Request /\ p \in Plugins /\ q.child \in Gens
    BY TagsTellFields DEF ApproveTx, Request
  <1>2. current \in Row /\ current.vis \in Visibility
    BY <1>1, TagsTellFields DEF ApproveTx, Row
  <1>3. /\ written \in Row
        /\ written.listing = "published"
        /\ written.ver = q.label
        /\ written.content = q.content
    BY <1>1, <1>2, ColumnValues DEF Row, Request
  <1>4. /\ applied \in Row
        /\ applied.listing = "published"
        /\ applied.ver = q.label
        /\ applied.content = q.content
    BY <1>1, <1>3, SyncKeepsRow DEF SameColumns
  <1>5. /\ new \in Row
        /\ new.listing = "published"
        /\ new.ver = q.label
        /\ new.content = q.content
    BY <1>2, <1>4, PromoteKeepsRow DEF SameColumns
  <1>6. plugin' = [plugin EXCEPT ![p] = new]
    BY DEF ApproveTx
  <1>7. plugin'[p] = new /\ \A o \in Plugins : o # p => plugin'[o] = plugin[o]
    BY <1>1, <1>6 DEF TypeOK
  <1>8. request' = [request EXCEPT ![r] = [q EXCEPT !.status = "approved"]]
    BY DEF ApproveTx
  <1>9. /\ request'[r] = [q EXCEPT !.status = "approved"]
        /\ \A o \in Reqs : o # r => request'[o] = request[o]
    BY <1>8 DEF TypeOK
  <1> QED
    <2>1. /\ Live(p)
          /\ q.label \notin publishedVersionLabels(p)
          /\ VersionNotRegressed(current.ver, q.label)
          /\ platform' = platform \ {p}
      BY DEF ApproveTx
    <2> QED BY <1>1, <1>2, <1>5, <1>7, <1>9, <2>1

(* Repo.Update for the owner: a row that is not listed to the Space is     *)
(* rewritten; it keeps its listing state or falls back to a draft, the     *)
(* latter whenever the visibility of a published row changes.              *)
LEMMA SaveEffect ==
    ASSUME TypeOK, NEW c \in Calls, UpdateCommit(c)
    PROVE  /\ call[c] \in UpdateCall
           /\ call[c].p \in Plugins
           /\ plugin[call[c].p] \in Row
           /\ ~OrgListed(call[c].p)
           /\ plugin'[call[c].p] \in Row
           /\ plugin'[call[c].p].vis = call[c].vis
           /\ plugin'[call[c].p].ver = call[c].label
           /\ VersionNotRegressed(plugin[call[c].p].ver, call[c].label)
           /\ \/ plugin'[call[c].p].listing = "draft"
              \/ /\ plugin'[call[c].p].listing = plugin[call[c].p].listing
                 /\ \/ plugin[call[c].p].listing # "published"
                    \/ call[c].vis = plugin[call[c].p].vis
           /\ \A o \in Plugins : o # call[c].p => plugin'[o] = plugin[o]
           /\ request' = request
           /\ platform' = platform \ {call[c].p}
  <1> DEFINE u == call[c]
             p == u.p
             before == plugin[p]
             listing == IF before.listing = "published" /\ u.vis # before.vis
                        THEN "draft" ELSE before.listing
             row == [before EXCEPT !.vis = u.vis, !.content = u.content,
                       !.ver = u.label, !.listing = listing]
  <1>1. u \in UpdateCall /\ p \in Plugins /\ u.child \in Gens
    BY TagsTellFields DEF UpdateCommit, UpdateCall
  <1>2. before \in Row
    BY <1>1, TagsTellFields DEF UpdateCommit
  <1>3. listing \in Listing
    BY <1>2, ColumnValues DEF Row
  <1>4. /\ row \in Row
        /\ row.vis = u.vis
        /\ row.ver = u.label
        /\ row.listing = listing
    BY <1>1, <1>2, <1>3 DEF Row, UpdateCall
  <1>5. plugin' = [plugin EXCEPT ![p] = syncRelations(row, u.child)]
    BY DEF UpdateCommit
  <1>6. /\ plugin'[p] = syncRelations(row, u.child)
        /\ \A o \in Plugins : o # p => plugin'[o] = plugin[o]
    BY <1>1, <1>5 DEF TypeOK
  <1>7. /\ plugin'[p] \in Row
        /\ plugin'[p].vis = u.vis
        /\ plugin'[p].ver = u.label
        /\ plugin'[p].listing = listing
    <2> HIDE DEF row, listing
    <2>1. /\ syncRelations(row, u.child) \in Row
          /\ SameColumns(syncRelations(row, u.child), row)
      BY <1>1, <1>4, SyncKeepsRow
    <2> QED BY <1>4, <1>6, <2>1 DEF SameColumns
  <1>8. /\ ~OrgListed(p)
        /\ VersionNotRegressed(before.ver, u.label)
        /\ request' = request
        /\ platform' = platform \ {p}
    BY DEF UpdateCommit
  <1> QED BY <1>1, <1>2, <1>6, <1>7, <1>8

(* Repo.Update for the operator, and RebuildGraph: the row stays live and  *)
(* keeps its listing state, and the operator is recorded as its writer.    *)
LEMMA OperatorEffect ==
    ASSUME TypeOK, NEW c \in Calls, OperatorCommit(c) \/ RebuildGraph(c)
    PROVE  /\ call[c].p \in Plugins
           /\ plugin[call[c].p] \in Row
           /\ plugin'[call[c].p] \in Row
           /\ plugin'[call[c].p].listing = plugin[call[c].p].listing
           /\ \A o \in Plugins : o # call[c].p => plugin'[o] = plugin[o]
           /\ request' = request
           /\ platform' = platform \cup {call[c].p}
  <1>1. CASE OperatorCommit(c)
    <2> DEFINE u == call[c]
               p == u.p
               row == [plugin[p] EXCEPT !.vis = u.vis, !.content = u.content,
                         !.ver = u.label]
    <2>1. u \in OperatorCall /\ p \in Plugins /\ u.child \in Gens
      BY <1>1, TagsTellFields DEF OperatorCommit, OperatorCall
    <2>2. plugin[p] \in Row
      BY <1>1, <2>1, TagsTellFields DEF OperatorCommit
    <2>3. row \in Row /\ row.listing = plugin[p].listing
      BY <2>1, <2>2 DEF Row, OperatorCall
    <2>4. plugin' = [plugin EXCEPT ![p] = syncRelations(row, u.child)]
      BY <1>1 DEF OperatorCommit
    <2>5. /\ plugin'[p] = syncRelations(row, u.child)
          /\ \A o \in Plugins : o # p => plugin'[o] = plugin[o]
      BY <2>1, <2>4 DEF TypeOK
    <2>6. plugin'[p] \in Row /\ plugin'[p].listing = plugin[p].listing
      <3> HIDE DEF row
      <3>1. /\ syncRelations(row, u.child) \in Row
            /\ SameColumns(syncRelations(row, u.child), row)
        BY <2>1, <2>3, SyncKeepsRow
      <3> QED BY <2>3, <2>5, <3>1 DEF SameColumns
    <2> QED BY <1>1, <2>1, <2>2, <2>5, <2>6 DEF OperatorCommit
  <1>2. CASE RebuildGraph(c)
    <2> DEFINE u == call[c]
               p == u.p
               before == plugin[p]
               row == [before EXCEPT !.content = u.content, !.ver = u.label,
                         !.gen = before.gen + 1, !.child = before.gen + 1,
                         !.cvis = before.vis, !.clist = before.listing]
    <2>1. u \in RebuildCall /\ p \in Plugins
      BY <1>2, TagsTellFields DEF RebuildGraph, RebuildCall
    <2>2. before \in Row
      BY <1>2, <2>1, TagsTellFields DEF RebuildGraph
    <2>3. before.gen + 1 \in Gens
      <3>1. before.gen \in Gens /\ before.gen < MaxGen
        BY <1>2, <2>2 DEF RebuildGraph, Row
      <3> QED BY SMT, <3>1, PluginReviewAssumption DEF Gens
    <2>4. row \in Row /\ row.listing = before.listing
      BY <2>1, <2>2, <2>3 DEF Row, RebuildCall
    <2>5. plugin' = [plugin EXCEPT ![p] = row]
      BY <1>2 DEF RebuildGraph
    <2>6. plugin'[p] = row /\ \A o \in Plugins : o # p => plugin'[o] = plugin[o]
      BY <2>1, <2>5 DEF TypeOK
    <2> QED BY <1>2, <2>1, <2>2, <2>4, <2>6 DEF RebuildGraph
  <1> QED BY <1>1, <1>2

(* Repo.DelistPlugin: only the takedown itself changes the row.            *)
LEMMA DelistEffect ==
    ASSUME TypeOK, NEW p \in Plugins, DelistPlugin(p)
    PROVE  /\ plugin[p] \in Row
           /\ plugin'[p] \in Row
           /\ plugin'[p].listing = "delisted"
           /\ plugin'[p].ver = plugin[p].ver
           /\ \A o \in Plugins : o # p => plugin'[o] = plugin[o]
  <1> DEFINE row == [plugin[p] EXCEPT !.listing = "delisted"]
  <1>1. plugin[p] \in Row
    BY TagsTellFields DEF DelistPlugin, OrgListed
  <1>2. row \in Row /\ row.listing = "delisted" /\ row.ver = plugin[p].ver
    BY <1>1, ColumnValues DEF Row
  <1>3. plugin' = [plugin EXCEPT ![p] = demoteEmbeddedChildren(row)]
    BY DEF DelistPlugin
  <1>4. /\ plugin'[p] = demoteEmbeddedChildren(row)
        /\ \A o \in Plugins : o # p => plugin'[o] = plugin[o]
    BY <1>3 DEF TypeOK
  <1> QED BY <1>1, <1>2, <1>4, DemoteKeepsRow DEF SameColumns

-----------------------------------------------------------------------------
(* The open requests                                                       *)

(* What holds of the open requests, together.                              *)
PendingInv == /\ SinglePending
              /\ PendingPluginLive
              /\ TakedownSticks
              /\ FirstListingWaits

(* A step that only rewrites rows, keeps them live, and leaves the listing *)
(* state alone or drops it to draft, disturbs no open request (saves,      *)
(* operator edits, rebuilds).                                              *)
LEMMA RowStepKeepsPending ==
    ASSUME TypeOK, PendingInv, request' = request,
           \A p \in Plugins : Live(p) =>
              /\ plugin'[p].state = "live"
              /\ \/ plugin'[p].listing = plugin[p].listing
                 \/ plugin'[p].listing = "draft"
    PROVE  PendingInv'
  <1>1. \A r \in Reqs : request[r].status = "pending" => request[r].p \in Plugins
    BY TagsTellFields DEF Request
  <1> QED BY <1>1 DEF PendingInv, SinglePending, PendingPluginLive,
                      TakedownSticks, FirstListingWaits, Live

(* A step that only turns open requests into decided ones disturbs none of *)
(* the others (reject, cancel).                                            *)
LEMMA DecideStepKeepsPending ==
    ASSUME TypeOK, PendingInv, plugin' = plugin,
           \A r \in Reqs : \/ request'[r] = request[r]
                           \/ request'[r].status \in Decided
    PROVE  PendingInv'
  BY DEF PendingInv, SinglePending, PendingPluginLive, TakedownSticks,
         FirstListingWaits, Live, Decided

(* Approving a request settles it and touches only its plugin, on which it *)
(* was the only open request (ApproveReview).                              *)
LEMMA ApproveKeepsPending ==
    ASSUME TypeOK, PendingInv, NEW r \in Reqs, ApproveTx(r)
    PROVE  PendingInv'
  <1> DEFINE p == request[r].p
  <1>1. request'[r].status = "approved"
    BY ApproveEffect DEF Request
  <1>2. \A q \in Reqs : q # r => request'[q] = request[q]
    BY ApproveEffect
  <1>3. \A q \in Reqs : q # r /\ request[q].status = "pending"
            => request[q].p \in Plugins /\ request[q].p # p
    BY TagsTellFields DEF PendingInv, SinglePending, ApproveTx, Request
  <1>4. \A o \in Plugins : o # p => plugin'[o] = plugin[o]
    BY ApproveEffect
  <1> QED BY SMT, <1>1, <1>2, <1>3, <1>4
          DEF PendingInv, SinglePending, PendingPluginLive, TakedownSticks,
              FirstListingWaits, Live

(* After a row is deleted or taken down no open request names it, and the  *)
(* other open requests and their rows are as before                        *)
(* (cancelPendingReviewFor).                                               *)
LEMMA CancelKeepsPending ==
    ASSUME TypeOK, PendingInv, NEW p \in Plugins,
           request' = cancelPendingReviewFor(p),
           \A o \in Plugins : o # p => plugin'[o] = plugin[o]
    PROVE  PendingInv'
  <1>1. \A r \in Reqs : request'[r].status = "pending" =>
            /\ request'[r] = request[r]
            /\ request[r].p \in Plugins
            /\ request[r].p # p
    <2> SUFFICES ASSUME NEW r \in Reqs, request'[r].status = "pending"
                 PROVE  /\ request'[r] = request[r]
                        /\ request[r].p \in Plugins
                        /\ request[r].p # p
      OBVIOUS
    <2>1. CASE r \in Pending(p)
      <3>1. request[r] \in Request
        BY <2>1, TagsTellFields DEF Pending
      <3>2. request'[r] = [request[r] EXCEPT !.status = "canceled"]
        BY <2>1 DEF cancelPendingReviewFor
      <3>3. request'[r].status = "canceled"
        BY <3>1, <3>2 DEF Request
      <3> QED BY <3>3
    <2>2. CASE r \notin Pending(p)
      <3>1. request'[r] = request[r]
        BY <2>2 DEF cancelPendingReviewFor
      <3>2. request[r] \in Request
        BY <3>1, TagsTellFields
      <3> QED BY <2>2, <3>1, <3>2 DEF Pending, Request
    <2> QED BY <2>1, <2>2
  <1> QED BY SMT, <1>1 DEF PendingInv, SinglePending, PendingPluginLive,
                      TakedownSticks, FirstListingWaits, Live

(* Every step keeps what holds of the open requests.                       *)
LEMMA PendingStep == TypeOK /\ PendingInv /\ [Next]_vars => PendingInv'
  <1> SUFFICES ASSUME TypeOK, PendingInv, [Next]_vars
               PROVE  PendingInv'
    OBVIOUS
  <1>1. ASSUME NEW p \in Plugins, CreatePlugin(p)
        PROVE  PendingInv'
    <2>1. \A o \in Plugins : Live(o) => plugin'[o] = plugin[o]
      BY <1>1 DEF CreatePlugin, TypeOK, Live
    <2> QED BY <1>1, <2>1, RowStepKeepsPending DEF CreatePlugin, Live
  <1>2. ASSUME NEW p \in Plugins, PublishPlugin(p)
        PROVE  PendingInv'
    <2>1. \A r \in Reqs : request[r].status = "pending"
              => request[r].p \in Plugins /\ request[r].p # p
      BY <1>2, TagsTellFields DEF PublishPlugin, HasPendingReview, Pending,
         Request
    <2>2. \A o \in Plugins : o # p => plugin'[o] = plugin[o]
      BY <1>2 DEF PublishPlugin, TypeOK
    <2> QED BY SMT, <1>2, <2>1, <2>2
            DEF PublishPlugin, PendingInv, SinglePending, PendingPluginLive,
                TakedownSticks, FirstListingWaits, Live
  <1>3. ASSUME NEW p \in Plugins, DeletePlugin(p)
        PROVE  PendingInv'
    <2>1. \A o \in Plugins : o # p => plugin'[o] = plugin[o]
      BY <1>3 DEF DeletePlugin, TypeOK
    <2> QED BY <1>3, <2>1, CancelKeepsPending DEF DeletePlugin
  <1>4. ASSUME NEW p \in Plugins, DelistPlugin(p)
        PROVE  PendingInv'
    BY <1>4, DelistEffect, CancelKeepsPending DEF DelistPlugin
  <1>5. ASSUME NEW r \in Reqs, ApproveTx(r)
        PROVE  PendingInv'
    BY <1>5, ApproveKeepsPending
  <1>6. ASSUME NEW r \in Reqs, NEW d \in Decided, plugin' = plugin,
               request[r].status = "pending",
               request' = [request EXCEPT ![r].status = d]
        PROVE  PendingInv'
    <2>1. request[r] \in Request
      BY <1>6, TagsTellFields
    <2>2. request'[r].status = d /\ \A q \in Reqs : q # r => request'[q] = request[q]
      BY <1>6, <2>1 DEF Request, TypeOK
    <2> QED BY <1>6, <2>2, DecideStepKeepsPending
  <1>7. ASSUME NEW c \in Calls, UpdateCommit(c)
        PROVE  PendingInv'
    <2>1. \A p \in Plugins : Live(p) =>
             /\ plugin'[p].state = "live"
             /\ \/ plugin'[p].listing = plugin[p].listing
                \/ plugin'[p].listing = "draft"
      BY <1>7, SaveEffect DEF Live, Row
    <2> QED BY <1>7, <2>1, SaveEffect, RowStepKeepsPending
  <1>8. ASSUME NEW c \in Calls, InsertReviewRequest(c)
        PROVE  PendingInv'
    <2> DEFINE s == call[c]
               p == s.p
    <2>1. s \in SubmitCall /\ p \in Plugins
      BY <1>8, TagsTellFields DEF InsertReviewRequest, SubmitCall
    <2>2. PICK r \in Reqs :
             request' = [request EXCEPT ![r] =
                 [status |-> "pending", p |-> p,
                  kind |-> IF plugin[p].listing # "published"
                           THEN "first" ELSE "upgrade",
                  label |-> s.label, content |-> s.content,
                  child |-> s.child]]
      BY <1>8 DEF InsertReviewRequest
    <2>3. /\ request'[r].p = p
          /\ request'[r].kind = IF plugin[p].listing # "published"
                                THEN "first" ELSE "upgrade"
          /\ \A q \in Reqs : q # r => request'[q] = request[q]
      BY <2>2 DEF TypeOK
    <2>4. \A q \in Reqs : request[q].status = "pending" => request[q].p # p
      BY <1>8 DEF InsertReviewRequest, HasPendingReview, Pending
    <2>5. Live(p) /\ plugin' = plugin
      BY <1>8 DEF InsertReviewRequest
    <2> QED BY SMT, <2>3, <2>4, <2>5
            DEF PendingInv, SinglePending, PendingPluginLive, TakedownSticks,
                FirstListingWaits, Live
  <1>9. ASSUME NEW c \in Calls, OperatorCommit(c) \/ RebuildGraph(c)
        PROVE  PendingInv'
    <2>1. \A p \in Plugins : Live(p) =>
             /\ plugin'[p].state = "live"
             /\ plugin'[p].listing = plugin[p].listing
      BY <1>9, OperatorEffect DEF Live, Row
    <2> QED BY <1>9, <2>1, OperatorEffect, RowStepKeepsPending
  <1>10. ASSUME plugin' = plugin, request' = request
         PROVE  PendingInv'
    BY <1>10 DEF PendingInv, SinglePending, PendingPluginLive, TakedownSticks,
                 FirstListingWaits, Live
  <1>11. \A c \in Calls : call[c].op \in {"approve", "compensate"}
            => call[c].r \in Reqs
    BY TagsTellFields DEF RequestCall
  <1>12. ASSUME NEW c \in Calls, CallStep(c) \/ Crash(c)
         PROVE  PendingInv'
    <2>1. CASE AutoApprove(c)
      BY <2>1, <1>5, <1>11 DEF AutoApprove
    <2>2. CASE AutoCancel(c)
      BY <2>2, <1>6, <1>11 DEF AutoCancel, CancelTx, Decided
    <2>3. CASE \/ dispatchReviewCard(c) \/ AutoApproveFails(c)
               \/ AutoCancelFails(c) \/ CallFails(c) \/ Crash(c)
      BY <2>3, <1>10 DEF dispatchReviewCard, AutoApproveFails,
         AutoCancelFails, CallFails, Crash
    <2> QED BY <1>12, <2>1, <2>2, <2>3, <1>7, <1>8, <1>9 DEF CallStep
  <1>13. ASSUME NEW r \in Reqs,
                ApproveReview(r) \/ RejectReview(r) \/ CancelReview(r)
         PROVE  PendingInv'
    <2>1. CASE ApproveReview(r)
      BY <2>1, <1>5 DEF ApproveReview
    <2>2. CASE RejectReview(r)
      BY <2>2, <1>6 DEF RejectReview, Decided
    <2>3. CASE CancelReview(r)
      BY <2>3, <1>6 DEF CancelReview, CancelTx, Decided
    <2> QED BY <1>13, <2>1, <2>2, <2>3
  <1>14. ASSUME NEW c \in Calls, NEW p \in Plugins,
                \/ UpdateRead(c, p) \/ SubmitRead(c, p) \/ ReuploadRead(c, p)
                \/ AdminUpdateRead(c, p) \/ AdminImportRead(c, p)
         PROVE  PendingInv'
    BY <1>14, <1>10 DEF UpdateRead, SubmitRead, ReuploadRead,
       AdminUpdateRead, AdminImportRead, OperatorRead
  <1>15. CASE UpdateReviewPolicy \/ UNCHANGED vars
    BY <1>15, <1>10 DEF UpdateReviewPolicy, vars
  <1> QED
    BY <1>1, <1>2, <1>3, <1>4, <1>12, <1>13, <1>14, <1>15 DEF Next

(* One open request per plugin, and its plugin is live                     *)
(* (insertReviewInTx, cancelPendingReviewFor); a takedown is undone only   *)
(* by a request submitted after it (DelistPlugin); and a plugin waiting    *)
(* for its first listing is not listed by another route (PublishPlugin).   *)
THEOREM OpenRequestsSound ==
    Spec => [](SinglePending /\ PendingPluginLive /\ TakedownSticks
                 /\ FirstListingWaits)
  <1>1. Init => PendingInv
    BY SMT DEF Init, PendingInv, SinglePending, PendingPluginLive,
           TakedownSticks, FirstListingWaits
  <1>2. PendingInv => SinglePending /\ PendingPluginLive /\ TakedownSticks
                        /\ FirstListingWaits
    BY DEF PendingInv
  <1> QED BY <1>1, <1>2, PendingStep, TypeCorrect, PTL DEF Spec

-----------------------------------------------------------------------------
(* The life of one request                                                 *)

(* What one step may do to the request r.                                  *)
RequestMove(r) ==
    \/ request'[r] = request[r]
    \/ request[r].status = "none" /\ request'[r].status = "pending"
    \/ /\ request[r].status = "pending"
       /\ request'[r].status \in {"rejected", "canceled"}
       /\ request'[r] = [request[r] EXCEPT !.status = request'[r].status]
    \/ /\ ApproveTx(r)
       /\ request'[r].status = "approved"
       /\ request'[r] = [request[r] EXCEPT !.status = "approved"]

(* A compare-and-set of one pending request (RejectReview, CancelReview).  *)
LEMMA DecideMoves ==
    ASSUME TypeOK, NEW r \in Reqs, NEW d \in {"rejected", "canceled"},
           request[r].status = "pending",
           request' = [request EXCEPT ![r].status = d]
    PROVE  \A q \in Reqs : RequestMove(q)
  <1>1. request[r] \in Request
    BY TagsTellFields
  <1>2. /\ request'[r] = [request[r] EXCEPT !.status = d]
        /\ \A q \in Reqs : q # r => request'[q] = request[q]
    BY DEF TypeOK
  <1>3. request'[r].status = d
    BY <1>1, <1>2 DEF Request
  <1> QED BY <1>2, <1>3 DEF RequestMove

(* The cascade of a takedown or a deletion (cancelPendingReviewFor).       *)
LEMMA CascadeMoves ==
    ASSUME TypeOK, NEW p \in Plugins, request' = cancelPendingReviewFor(p)
    PROVE  \A q \in Reqs : RequestMove(q)
  <1> SUFFICES ASSUME NEW q \in Reqs PROVE RequestMove(q)
    OBVIOUS
  <1>1. CASE q \in Pending(p)
    <2>1. request[q] \in Request /\ request[q].status = "pending"
      BY <1>1, TagsTellFields DEF Pending
    <2>2. request'[q] = [request[q] EXCEPT !.status = "canceled"]
      BY <1>1 DEF cancelPendingReviewFor
    <2>3. request'[q].status = "canceled"
      BY <2>1, <2>2 DEF Request
    <2> QED BY <2>1, <2>2, <2>3 DEF RequestMove
  <1>2. CASE q \notin Pending(p)
    BY <1>2 DEF cancelPendingReviewFor, RequestMove
  <1> QED BY <1>1, <1>2

(* An approval moves its request only (Repo.ApproveReview).                *)
LEMMA ApproveMoves ==
    ASSUME TypeOK, NEW r \in Reqs, ApproveTx(r)
    PROVE  \A q \in Reqs : RequestMove(q)
  <1>1. request'[r].status = "approved"
    BY ApproveEffect DEF Request
  <1> QED BY <1>1, ApproveEffect DEF RequestMove

(* Every step moves every request along its life and nowhere else.         *)
LEMMA RequestMoves == TypeOK /\ [Next]_vars => \A q \in Reqs : RequestMove(q)
  <1> SUFFICES ASSUME TypeOK, [Next]_vars
               PROVE  \A q \in Reqs : RequestMove(q)
    OBVIOUS
  <1>1. ASSUME request' = request
        PROVE  \A q \in Reqs : RequestMove(q)
    BY <1>1 DEF RequestMove
  <1>2. ASSUME NEW p \in Plugins,
               \/ CreatePlugin(p) \/ PublishPlugin(p)
               \/ DeletePlugin(p) \/ DelistPlugin(p)
        PROVE  \A q \in Reqs : RequestMove(q)
    BY <1>1, <1>2, CascadeMoves
       DEF CreatePlugin, PublishPlugin, DeletePlugin, DelistPlugin
  <1>3. ASSUME NEW r \in Reqs,
               ApproveReview(r) \/ RejectReview(r) \/ CancelReview(r)
        PROVE  \A q \in Reqs : RequestMove(q)
    BY <1>3, ApproveMoves, DecideMoves
       DEF ApproveReview, RejectReview, CancelReview, CancelTx
  <1>4. ASSUME NEW c \in Calls, InsertReviewRequest(c)
        PROVE  \A q \in Reqs : RequestMove(q)
    <2>1. PICK r \in Reqs :
             /\ request[r].status = "none"
             /\ \E new : new.status = "pending"
                         /\ request' = [request EXCEPT ![r] = new]
      BY <1>4 DEF InsertReviewRequest
    <2> QED BY <2>1 DEF RequestMove, TypeOK
  <1>5. ASSUME NEW c \in Calls, CallStep(c) \/ Crash(c)
        PROVE  \A q \in Reqs : RequestMove(q)
    <2>1. call[c].op \in {"approve", "compensate"} => call[c].r \in Reqs
      BY TagsTellFields DEF RequestCall
    <2>2. CASE AutoApprove(c) \/ AutoCancel(c)
      BY <2>1, <2>2, ApproveMoves, DecideMoves
         DEF AutoApprove, AutoCancel, CancelTx
    <2>3. CASE \/ UpdateCommit(c) \/ OperatorCommit(c) \/ RebuildGraph(c)
               \/ dispatchReviewCard(c) \/ AutoApproveFails(c)
               \/ AutoCancelFails(c) \/ CallFails(c) \/ Crash(c)
      BY <2>3, <1>1 DEF UpdateCommit, OperatorCommit, RebuildGraph,
         dispatchReviewCard, AutoApproveFails, AutoCancelFails, CallFails,
         Crash
    <2> QED BY <1>4, <1>5, <2>2, <2>3 DEF CallStep
  <1>6. ASSUME NEW c \in Calls, NEW p \in Plugins,
               \/ UpdateRead(c, p) \/ SubmitRead(c, p) \/ ReuploadRead(c, p)
               \/ AdminUpdateRead(c, p) \/ AdminImportRead(c, p)
        PROVE  \A q \in Reqs : RequestMove(q)
    BY <1>6, <1>1 DEF UpdateRead, SubmitRead, ReuploadRead,
       AdminUpdateRead, AdminImportRead, OperatorRead
  <1>7. CASE UpdateReviewPolicy \/ UNCHANGED vars
    BY <1>7, <1>1 DEF UpdateReviewPolicy, vars
  <1> QED BY <1>2, <1>3, <1>5, <1>6, <1>7 DEF Next

(* A decision is final and what was reviewed is frozen: every writer of    *)
(* the requests compares the status with pending before it sets it.        *)
THEOREM DecisionsFinal == Spec => DecisionFinal
  <1>1. TypeOK /\ [Next]_vars =>
          [\A r \in Reqs : request[r].status # "none" /\ request'[r] # request[r]
             => /\ request[r].status = "pending"
                /\ request'[r].status \in Decided
                /\ request'[r] = [request[r] EXCEPT
                                    !.status = request'[r].status]]_vars
    BY RequestMoves DEF RequestMove, ApproveTx, Decided
  <1> QED BY <1>1, TypeCorrect, PTL DEF Spec, DecisionFinal

(* A label names one reviewed release: an approval is refused when an      *)
(* earlier approval of the plugin minted its label (ApproveReview's        *)
(* publishedVersionLabels under the row lock).                             *)
THEOREM LabelsUnique == Spec => []LabelsMintedOnce
  <1>1. Init => LabelsMintedOnce
    BY SMT DEF Init, LabelsMintedOnce
  <1>2. TypeOK /\ LabelsMintedOnce /\ [Next]_vars => LabelsMintedOnce'
    <2> SUFFICES ASSUME TypeOK, LabelsMintedOnce, [Next]_vars,
                        NEW r \in Reqs, NEW q \in Reqs,
                        request'[r].status = "approved",
                        request'[q].status = "approved",
                        request'[r].p = request'[q].p,
                        request'[r].label = request'[q].label,
                        r # q
                 PROVE  FALSE
      BY DEF LabelsMintedOnce
    <2>1. RequestMove(r) /\ RequestMove(q)
      BY RequestMoves
    <2>2. \A o \in {r, q} : \/ ApproveTx(o)
                            \/ request'[o] = request[o]
      BY <2>1 DEF RequestMove
    <2>3. ASSUME NEW a \in {r, q}, NEW b \in {r, q}, a # b, ApproveTx(a)
          PROVE  FALSE
      <3>1. /\ request[a] \in Request
            /\ request'[a] = [request[a] EXCEPT !.status = "approved"]
            /\ request'[b] = request[b]
            /\ request[a].label \notin publishedVersionLabels(request[a].p)
        BY SMT, <2>3, ApproveEffect
      <3>2. request'[a].p = request[a].p /\ request'[a].label = request[a].label
        BY <3>1 DEF Request
      <3>3. /\ b \in Reqs
            /\ request[b].status = "approved"
            /\ request[b].p = request[a].p
            /\ request[b].label = request[a].label
        BY <2>3, <3>1, <3>2
      <3>4. request[b].label \in publishedVersionLabels(request[a].p)
        BY <3>3 DEF publishedVersionLabels
      <3> QED BY <3>1, <3>3, <3>4
    <2> QED BY <2>2, <2>3 DEF LabelsMintedOnce
  <1> QED BY <1>1, <1>2, TypeCorrect, PTL DEF Spec

-----------------------------------------------------------------------------
(* What the Space reads                                                    *)

(* A step keeps the property when every row it leaves listed to the Space  *)
(* was listed before, with the same content and label, or was written by   *)
(* the operator.                                                           *)
LEMMA ListedStep ==
    ASSUME TypeOK, OrgContentReviewed, \A q \in Reqs : RequestMove(q),
           \A p \in Plugins : OrgListed(p)' /\ p \notin platform' =>
               /\ OrgListed(p) /\ p \notin platform
               /\ plugin'[p] = plugin[p]
    PROVE  OrgContentReviewed'
  <1>1. \A r \in Reqs : request[r].status = "approved" => request'[r] = request[r]
    BY DEF RequestMove, ApproveTx
  <1> QED BY SMT, <1>1 DEF OrgContentReviewed

(* Every step keeps Space-listed content reviewed.                         *)
LEMMA ListedSteps ==
    TypeOK /\ OrgContentReviewed /\ [Next]_vars => OrgContentReviewed'
  <1> SUFFICES ASSUME TypeOK, OrgContentReviewed, [Next]_vars
               PROVE  OrgContentReviewed'
    OBVIOUS
  <1>0. \A q \in Reqs : RequestMove(q)
    BY RequestMoves
  <1>1. ASSUME plugin' = plugin, platform' = platform
        PROVE  OrgContentReviewed'
    BY <1>0, <1>1, ListedStep DEF OrgListed, Live
  <1>2. ASSUME NEW p \in Plugins, CreatePlugin(p)
        PROVE  OrgContentReviewed'
    <2>1. /\ plugin'[p].listing = "draft"
          /\ \A o \in Plugins : o # p => plugin'[o] = plugin[o]
          /\ platform' = platform
      BY SMT, <1>2 DEF CreatePlugin, TypeOK
    <2> QED BY <2>1, <1>0, ListedStep DEF OrgListed, Live
  <1>3. ASSUME NEW p \in Plugins, PublishPlugin(p)
        PROVE  OrgContentReviewed'
    <2>1. plugin[p] \in Row
      BY <1>3, TagsTellFields DEF PublishPlugin
    <2>2. /\ plugin'[p] = [plugin[p] EXCEPT !.listing = "published"]
          /\ \A o \in Plugins : o # p => plugin'[o] = plugin[o]
          /\ platform' = platform
      BY <1>3 DEF PublishPlugin, TypeOK
    <2>3. plugin'[p].vis = "private"
      BY SMT, <1>3, <2>1, <2>2 DEF PublishPlugin, Row
    <2> QED BY <2>2, <2>3, <1>0, ListedStep DEF OrgListed, Live
  <1>4. ASSUME NEW p \in Plugins, DeletePlugin(p)
        PROVE  OrgContentReviewed'
    <2>1. /\ plugin'[p].state = "deleted"
          /\ \A o \in Plugins : o # p => plugin'[o] = plugin[o]
          /\ platform' = platform
      BY <1>4 DEF DeletePlugin, TypeOK
    <2> QED BY <2>1, <1>0, ListedStep DEF OrgListed, Live
  <1>5. ASSUME NEW p \in Plugins, DelistPlugin(p)
        PROVE  OrgContentReviewed'
    <2>1. plugin'[p].listing = "delisted" /\ platform' = platform
      BY <1>5, DelistEffect DEF DelistPlugin
    <2> QED BY <2>1, <1>5, <1>0, DelistEffect, ListedStep DEF OrgListed, Live
  <1>6. ASSUME NEW r \in Reqs, ApproveTx(r)
        PROVE  OrgContentReviewed'
    <2> DEFINE p == request[r].p
    <2>1. /\ request'[r].status = "approved"
          /\ request'[r].p = p
          /\ request'[r].content = plugin'[p].content
          /\ request'[r].label = plugin'[p].ver
      BY ZenonT(30), <1>6, ApproveEffect DEF Request
    <2>2. \A q \in Reqs : request[q].status = "approved"
              => request'[q] = request[q]
      BY <1>0 DEF RequestMove, ApproveTx
    <2>3. \A o \in Plugins : o # p =>
              plugin'[o] = plugin[o] /\ (o \in platform <=> o \in platform')
      BY <1>6, ApproveEffect
    <2> QED BY SMT, <2>1, <2>2, <2>3 DEF OrgContentReviewed, OrgListed, Live
  <1>7. ASSUME NEW c \in Calls, UpdateCommit(c)
        PROVE  OrgContentReviewed'
    <2> DEFINE p == call[c].p
    <2>1. ~(plugin'[p].vis = "space" /\ plugin'[p].listing = "published")
      BY SMT, <1>7, SaveEffect DEF OrgListed, Live, Row
    <2>2. \A o \in Plugins : o # p =>
              plugin'[o] = plugin[o] /\ (o \in platform <=> o \in platform')
      BY <1>7, SaveEffect
    <2> QED BY <2>1, <2>2, <1>0, ListedStep DEF OrgListed, Live
  <1>8. ASSUME NEW c \in Calls, OperatorCommit(c) \/ RebuildGraph(c)
        PROVE  OrgContentReviewed'
    BY <1>8, <1>0, OperatorEffect, ListedStep DEF OrgListed, Live
  <1>9. ASSUME NEW c \in Calls, CallStep(c) \/ Crash(c)
        PROVE  OrgContentReviewed'
    <2>1. call[c].op = "approve" => call[c].r \in Reqs
      BY TagsTellFields DEF RequestCall
    <2>2. CASE AutoApprove(c)
      BY <2>1, <2>2, <1>6 DEF AutoApprove
    <2>3. CASE \/ InsertReviewRequest(c) \/ AutoCancel(c)
               \/ dispatchReviewCard(c) \/ AutoApproveFails(c)
               \/ AutoCancelFails(c) \/ CallFails(c) \/ Crash(c)
      BY <2>3, <1>1 DEF InsertReviewRequest, AutoCancel, dispatchReviewCard,
         AutoApproveFails, AutoCancelFails, CallFails, Crash
    <2> QED BY <1>7, <1>8, <1>9, <2>2, <2>3 DEF CallStep
  <1>10. ASSUME NEW r \in Reqs,
                ApproveReview(r) \/ RejectReview(r) \/ CancelReview(r)
         PROVE  OrgContentReviewed'
    BY <1>10, <1>1, <1>6 DEF ApproveReview, RejectReview, CancelReview
  <1>11. ASSUME NEW c \in Calls, NEW p \in Plugins,
                \/ UpdateRead(c, p) \/ SubmitRead(c, p) \/ ReuploadRead(c, p)
                \/ AdminUpdateRead(c, p) \/ AdminImportRead(c, p)
         PROVE  OrgContentReviewed'
    BY <1>11, <1>1 DEF UpdateRead, SubmitRead, ReuploadRead,
       AdminUpdateRead, AdminImportRead, OperatorRead
  <1>12. CASE UpdateReviewPolicy \/ UNCHANGED vars
    BY <1>12, <1>1 DEF UpdateReviewPolicy, vars
  <1> QED BY <1>2, <1>3, <1>4, <1>5, <1>9, <1>10, <1>11, <1>12 DEF Next

(* Whatever calls race, what the whole Space reads was approved by a       *)
(* reviewer or by the Space's policy, or written by the platform operator  *)
(* (the listing gate of Service.update, checked again by updateInTx).      *)
THEOREM SpaceReadsReviewedContent == Spec => []OrgContentReviewed
  <1>1. Init => OrgContentReviewed
    BY SMT DEF Init, OrgContentReviewed, OrgListed, Live
  <1> QED BY <1>1, ListedSteps, TypeCorrect, PTL DEF Spec

-----------------------------------------------------------------------------
(* The version label                                                       *)

(* What OnlyReuploadRegresses says of one step.                            *)
Regression(p) == Live(p) /\ Live(p)' /\ plugin'[p].ver < plugin[p].ver

ReuploadCommits(p) ==
    \E c \in Calls : /\ \/ call[c].op = "rebuild"
                        \/ call[c].op = "admin" /\ ~call[c].forward
                     /\ call[c].p = p
                     /\ call'[c] = Idle

(* The labels are numbers: comparing them twice cannot disagree.           *)
LEMMA ForwardIsNoRegression ==
    ASSUME NEW p \in Plugins, plugin[p] \in Row, plugin'[p] \in Row,
           VersionNotRegressed(plugin[p].ver, plugin'[p].ver)
    PROVE  ~Regression(p)
  <1>1. plugin[p].ver \in Nat /\ plugin'[p].ver \in Nat
    BY SMT, PluginReviewAssumption DEF Row, Labels
  <1> QED BY SMT, <1>1 DEF Regression, VersionNotRegressed

(* A row that is not written, is created or is deleted does not regress.   *)
LEMMA QuietRow ==
    ASSUME TypeOK, NEW p \in Plugins,
           \/ plugin'[p] = plugin[p]
           \/ plugin[p].state # "live"
           \/ plugin'[p].state # "live"
           \/ plugin'[p].ver = plugin[p].ver
    PROVE  ~Regression(p)
  <1>1. Live(p) => plugin[p].ver \in Nat
    BY SMT, TagsTellFields, PluginReviewAssumption DEF Row, Labels
  <1> QED BY SMT, <1>1 DEF Regression, Live

(* Every step that lowers the label of a row commits an operator's         *)
(* package reupload of it.                                                 *)
LEMMA RegressionSteps ==
    TypeOK /\ [Next]_vars =>
        \A p \in Plugins : Regression(p) => ReuploadCommits(p)
  <1> SUFFICES ASSUME TypeOK, [Next]_vars, NEW o \in Plugins, Regression(o)
               PROVE  ReuploadCommits(o)
    OBVIOUS
  <1>1. plugin' # plugin
    BY QuietRow
  <1>2. ASSUME NEW p \in Plugins,
               \/ CreatePlugin(p) \/ PublishPlugin(p)
               \/ DeletePlugin(p) \/ DelistPlugin(p)
        PROVE  FALSE
    <2>1. CASE CreatePlugin(p)
      <3>1. plugin[p].state # "live" /\ \A q \in Plugins : q # p => plugin'[q] = plugin[q]
        BY <2>1 DEF CreatePlugin, TypeOK
      <3> QED BY <3>1, QuietRow
    <2>2. CASE PublishPlugin(p)
      <3>1. plugin[p] \in Row
        BY <2>2, TagsTellFields DEF PublishPlugin
      <3>2. /\ plugin'[p] = [plugin[p] EXCEPT !.listing = "published"]
            /\ \A q \in Plugins : q # p => plugin'[q] = plugin[q]
        BY <2>2 DEF PublishPlugin, TypeOK
      <3>3. plugin'[p].ver = plugin[p].ver
        BY <3>1, <3>2 DEF Row
      <3> QED BY <3>2, <3>3, QuietRow
    <2>3. CASE DeletePlugin(p)
      <3>1. plugin'[p].state # "live" /\ \A q \in Plugins : q # p => plugin'[q] = plugin[q]
        BY <2>3 DEF DeletePlugin, TypeOK
      <3> QED BY <3>1, QuietRow
    <2>4. CASE DelistPlugin(p)
      BY <2>4, DelistEffect, QuietRow
    <2> QED BY <1>2, <2>1, <2>2, <2>3, <2>4
  <1>3. ASSUME NEW r \in Reqs, ApproveTx(r)
        PROVE  FALSE
    BY <1>3, ApproveEffect, ForwardIsNoRegression, QuietRow
  <1>4. ASSUME NEW c \in Calls, UpdateCommit(c)
        PROVE  FALSE
    BY <1>4, SaveEffect, ForwardIsNoRegression, QuietRow
  <1>5. ASSUME NEW c \in Calls, OperatorCommit(c)
        PROVE  ReuploadCommits(o)
    <2> DEFINE u == call[c]
               p == u.p
               row == [plugin[p] EXCEPT !.vis = u.vis, !.content = u.content,
                         !.ver = u.label]
    <2>1. u \in OperatorCall /\ p \in Plugins /\ u.child \in Gens
      BY <1>5, TagsTellFields DEF OperatorCommit, OperatorCall
    <2>2. plugin[p] \in Row /\ plugin'[p] \in Row /\ o = p
      BY <1>5, OperatorEffect, QuietRow
    <2>3. row \in Row /\ row.ver = u.label
      BY <2>1, <2>2 DEF Row, OperatorCall
    <2>4. plugin' = [plugin EXCEPT ![p] = syncRelations(row, u.child)]
      BY <1>5 DEF OperatorCommit
    <2>5. plugin'[p].ver = u.label
      <3>1. plugin'[p] = syncRelations(row, u.child)
        BY <2>1, <2>4 DEF TypeOK
      <3> HIDE DEF row
      <3>2. SameColumns(syncRelations(row, u.child), row)
        BY <2>1, <2>3, SyncKeepsRow
      <3> QED BY <2>3, <3>1, <3>2 DEF SameColumns
    <2>6. ~u.forward
      BY <1>5, <2>2, <2>5, ForwardIsNoRegression DEF OperatorCommit
    <2>7. u.op = "admin" /\ call'[c] = Idle
      BY <1>5 DEF OperatorCommit, TypeOK
    <2> QED BY <2>2, <2>6, <2>7 DEF ReuploadCommits
  <1>6. ASSUME NEW c \in Calls, RebuildGraph(c)
        PROVE  ReuploadCommits(o)
    <2>1. call[c].p = o
      BY <1>6, OperatorEffect, QuietRow
    <2>2. call[c].op = "rebuild" /\ call'[c] = Idle
      BY <1>6 DEF RebuildGraph, TypeOK
    <2> QED BY <2>1, <2>2 DEF ReuploadCommits
  <1>7. ASSUME NEW c \in Calls, CallStep(c) \/ Crash(c)
        PROVE  ReuploadCommits(o)
    <2>1. call[c].op = "approve" => call[c].r \in Reqs
      BY TagsTellFields DEF RequestCall
    <2>2. CASE AutoApprove(c)
      BY <2>1, <2>2, <1>3 DEF AutoApprove
    <2>3. CASE \/ InsertReviewRequest(c) \/ AutoCancel(c)
               \/ dispatchReviewCard(c) \/ AutoApproveFails(c)
               \/ AutoCancelFails(c) \/ CallFails(c) \/ Crash(c)
      BY <2>3, <1>1 DEF InsertReviewRequest, AutoCancel, dispatchReviewCard,
         AutoApproveFails, AutoCancelFails, CallFails, Crash
    <2> QED BY <1>4, <1>5, <1>6, <1>7, <2>2, <2>3 DEF CallStep
  <1>8. ASSUME NEW r \in Reqs,
               ApproveReview(r) \/ RejectReview(r) \/ CancelReview(r)
        PROVE  FALSE
    BY <1>8, <1>1, <1>3 DEF ApproveReview, RejectReview, CancelReview
  <1>9. ASSUME NEW c \in Calls, NEW p \in Plugins,
               \/ UpdateRead(c, p) \/ SubmitRead(c, p) \/ ReuploadRead(c, p)
               \/ AdminUpdateRead(c, p) \/ AdminImportRead(c, p)
        PROVE  FALSE
    BY <1>9, <1>1 DEF UpdateRead, SubmitRead, ReuploadRead,
       AdminUpdateRead, AdminImportRead, OperatorRead
  <1>10. ~(UpdateReviewPolicy \/ UNCHANGED vars)
    BY <1>1 DEF UpdateReviewPolicy, vars
  <1> QED BY <1>2, <1>7, <1>8, <1>9, <1>10 DEF Next

(* The label of a live row goes back only by an operator's package         *)
(* reupload: the other writers compare it again under the row lock.        *)
THEOREM LabelsForwardButForReuploads == Spec => OnlyReuploadRegresses
  <1>1. TypeOK /\ [Next]_vars =>
          [\A p \in Plugins : Live(p) /\ Live(p)' /\ plugin'[p].ver < plugin[p].ver
             => \E c \in Calls : /\ \/ call[c].op = "rebuild"
                                    \/ call[c].op = "admin" /\ ~call[c].forward
                                 /\ call[c].p = p
                                 /\ call'[c] = Idle]_vars
    BY RegressionSteps DEF Regression, ReuploadCommits
  <1> QED BY <1>1, TypeCorrect, PTL DEF Spec, OnlyReuploadRegresses

-----------------------------------------------------------------------------
(* Takedowns of a graph                                                    *)

(* What DelistTakesGraphDown says of one row.                              *)
Down(row) == row.listing = "delisted" /\ row.child # 0
               => row.clist # "published"

LEMMA GraphStep ==
    ASSUME DelistTakesGraphDown,
           \A p \in Plugins : \/ plugin'[p] = plugin[p]
                              \/ plugin'[p].state = "deleted"
                              \/ Down(plugin'[p])
    PROVE  DelistTakesGraphDown'
  BY DEF DelistTakesGraphDown, Down, Live

(* Dropping an edge takes its child out of the graph (syncRelations).      *)
LEMMA SyncStaysDown ==
    ASSUME NEW row \in Row, NEW child \in Gens, Down(row)
    PROVE  Down(syncRelations(row, child))
  <1>1. CASE child = row.child
    BY <1>1 DEF syncRelations
  <1>2. CASE child # row.child
    <2>1. syncRelations(row, child).child = 0
      BY <1>2 DEF syncRelations, Row
    <2> QED BY <2>1 DEF Down
  <1> QED BY <1>1, <1>2

(* The takedown demotes the children with the container.                   *)
LEMMA DemoteTakesDown ==
    ASSUME NEW row \in Row
    PROVE  Down(demoteEmbeddedChildren(row))
  <1>1. CASE row.child # 0 /\ row.clist = "published"
    <2>1. demoteEmbeddedChildren(row).clist = "delisted"
      BY <1>1 DEF demoteEmbeddedChildren, Row
    <2> QED BY <2>1 DEF Down
  <1>2. CASE ~(row.child # 0 /\ row.clist = "published")
    BY <1>2 DEF demoteEmbeddedChildren, Down
  <1> QED BY <1>1, <1>2

LEMMA GraphSteps ==
    TypeOK /\ DelistTakesGraphDown /\ [Next]_vars => DelistTakesGraphDown'
  <1> SUFFICES ASSUME TypeOK, DelistTakesGraphDown, [Next]_vars
               PROVE  DelistTakesGraphDown'
    OBVIOUS
  <1>1. ASSUME plugin' = plugin PROVE DelistTakesGraphDown'
    BY <1>1, GraphStep
  <1>2. ASSUME NEW p \in Plugins, CreatePlugin(p) \/ PublishPlugin(p)
        PROVE  DelistTakesGraphDown'
    <2>1. /\ plugin'[p].listing # "delisted"
          /\ \A o \in Plugins : o # p => plugin'[o] = plugin[o]
      <3>1. CASE CreatePlugin(p)
        BY SMT, <3>1 DEF CreatePlugin, TypeOK
      <3>2. CASE PublishPlugin(p)
        <4>1. plugin[p] \in Row
          BY <3>2, TagsTellFields DEF PublishPlugin
        <4> QED BY <3>2, <4>1 DEF PublishPlugin, TypeOK, Row
      <3> QED BY <1>2, <3>1, <3>2
    <2> QED BY <2>1, GraphStep DEF Down
  <1>3. ASSUME NEW p \in Plugins, DeletePlugin(p)
        PROVE  DelistTakesGraphDown'
    <2>1. /\ plugin'[p].state = "deleted"
          /\ \A o \in Plugins : o # p => plugin'[o] = plugin[o]
      BY <1>3 DEF DeletePlugin, TypeOK
    <2> QED BY <2>1, GraphStep
  <1>4. ASSUME NEW p \in Plugins, DelistPlugin(p)
        PROVE  DelistTakesGraphDown'
    <2> DEFINE row == [plugin[p] EXCEPT !.listing = "delisted"]
    <2>1. plugin[p] \in Row
      BY <1>4, TagsTellFields DEF DelistPlugin, OrgListed
    <2>2. row \in Row
      BY <2>1, ColumnValues DEF Row
    <2>3. /\ plugin'[p] = demoteEmbeddedChildren(row)
          /\ \A o \in Plugins : o # p => plugin'[o] = plugin[o]
      BY <1>4 DEF DelistPlugin, TypeOK
    <2> HIDE DEF row
    <2> QED BY <2>2, <2>3, DemoteTakesDown, GraphStep
  <1>5. ASSUME NEW r \in Reqs, ApproveTx(r)
        PROVE  DelistTakesGraphDown'
    <2>1. Down(plugin'[request[r].p])
      BY <1>5, ApproveEffect DEF Down
    <2> QED BY <1>5, <2>1, ApproveEffect, GraphStep
  <1>6. ASSUME NEW c \in Calls, UpdateCommit(c)
        PROVE  DelistTakesGraphDown'
    <2> DEFINE u == call[c]
               p == u.p
               before == plugin[p]
               listing == IF before.listing = "published" /\ u.vis # before.vis
                          THEN "draft" ELSE before.listing
               row == [before EXCEPT !.vis = u.vis, !.content = u.content,
                         !.ver = u.label, !.listing = listing]
    <2>1. /\ u \in UpdateCall /\ p \in Plugins /\ u.child \in Gens
          /\ before \in Row
      BY <1>6, SaveEffect DEF UpdateCall
    <2>2. listing \in Listing
      BY <2>1, ColumnValues DEF Row
    <2>3. /\ row \in Row /\ row.child = before.child /\ row.clist = before.clist
          /\ row.listing = "delisted" => before.listing = "delisted"
      BY <2>1, <2>2 DEF Row, UpdateCall
    <2>4. Down(before)
      BY <1>6, <2>1 DEF UpdateCommit, DelistTakesGraphDown, Down
    <2>5. Down(row)
      BY <2>3, <2>4 DEF Down
    <2>6. /\ plugin'[p] = syncRelations(row, u.child)
          /\ \A o \in Plugins : o # p => plugin'[o] = plugin[o]
      BY <1>6, <2>1 DEF UpdateCommit, TypeOK
    <2> HIDE DEF row
    <2>7. Down(plugin'[p])
      BY <2>1, <2>3, <2>5, <2>6, SyncStaysDown
    <2> QED BY <2>6, <2>7, GraphStep
  <1>7. ASSUME NEW c \in Calls, OperatorCommit(c)
        PROVE  DelistTakesGraphDown'
    <2> DEFINE u == call[c]
               p == u.p
               row == [plugin[p] EXCEPT !.vis = u.vis, !.content = u.content,
                         !.ver = u.label]
    <2>1. u \in OperatorCall /\ p \in Plugins /\ u.child \in Gens
      BY <1>7, TagsTellFields DEF OperatorCommit, OperatorCall
    <2>2. plugin[p] \in Row
      BY <1>7, <2>1, TagsTellFields DEF OperatorCommit
    <2>3. /\ row \in Row /\ row.child = plugin[p].child
          /\ row.clist = plugin[p].clist /\ row.listing = plugin[p].listing
      BY <2>1, <2>2 DEF Row, OperatorCall
    <2>4. Down(plugin[p])
      BY <1>7, <2>1 DEF OperatorCommit, DelistTakesGraphDown, Down
    <2>5. Down(row)
      BY <2>3, <2>4 DEF Down
    <2>6. /\ plugin'[p] = syncRelations(row, u.child)
          /\ \A o \in Plugins : o # p => plugin'[o] = plugin[o]
      BY <1>7, <2>1 DEF OperatorCommit, TypeOK
    <2> HIDE DEF row
    <2>7. Down(plugin'[p])
      BY <2>1, <2>3, <2>5, <2>6, SyncStaysDown
    <2> QED BY <2>6, <2>7, GraphStep
  <1>8. ASSUME NEW c \in Calls, RebuildGraph(c)
        PROVE  DelistTakesGraphDown'
    <2> DEFINE u == call[c]
               p == u.p
               before == plugin[p]
               row == [before EXCEPT !.content = u.content, !.ver = u.label,
                         !.gen = before.gen + 1, !.child = before.gen + 1,
                         !.cvis = before.vis, !.clist = before.listing]
    <2>1. p \in Plugins /\ before \in Row
      BY <1>8, OperatorEffect
    <2>2. row.clist = before.listing /\ row.listing = before.listing
      BY <2>1 DEF Row
    <2>3. /\ plugin'[p] = row
          /\ \A o \in Plugins : o # p => plugin'[o] = plugin[o]
      BY <1>8, <2>1 DEF RebuildGraph, TypeOK
    <2> HIDE DEF row
    <2>4. Down(plugin'[p])
      BY <2>2, <2>3 DEF Down
    <2> QED BY <2>3, <2>4, GraphStep
  <1>9. ASSUME NEW c \in Calls, CallStep(c) \/ Crash(c)
        PROVE  DelistTakesGraphDown'
    <2>1. call[c].op = "approve" => call[c].r \in Reqs
      BY TagsTellFields DEF RequestCall
    <2>2. CASE AutoApprove(c)
      BY <2>1, <2>2, <1>5 DEF AutoApprove
    <2>3. CASE \/ InsertReviewRequest(c) \/ AutoCancel(c)
               \/ dispatchReviewCard(c) \/ AutoApproveFails(c)
               \/ AutoCancelFails(c) \/ CallFails(c) \/ Crash(c)
      BY <2>3, <1>1 DEF InsertReviewRequest, AutoCancel, dispatchReviewCard,
         AutoApproveFails, AutoCancelFails, CallFails, Crash
    <2> QED BY <1>6, <1>7, <1>8, <1>9, <2>2, <2>3 DEF CallStep
  <1>10. ASSUME NEW r \in Reqs,
                ApproveReview(r) \/ RejectReview(r) \/ CancelReview(r)
         PROVE  DelistTakesGraphDown'
    BY <1>10, <1>1, <1>5 DEF ApproveReview, RejectReview, CancelReview
  <1>11. ASSUME NEW c \in Calls, NEW p \in Plugins,
                \/ UpdateRead(c, p) \/ SubmitRead(c, p) \/ ReuploadRead(c, p)
                \/ AdminUpdateRead(c, p) \/ AdminImportRead(c, p)
         PROVE  DelistTakesGraphDown'
    BY <1>11, <1>1 DEF UpdateRead, SubmitRead, ReuploadRead,
       AdminUpdateRead, AdminImportRead, OperatorRead
  <1>12. CASE UpdateReviewPolicy \/ UNCHANGED vars
    BY <1>12, <1>1 DEF UpdateReviewPolicy, vars
  <1> QED BY <1>2, <1>3, <1>4, <1>9, <1>10, <1>11, <1>12 DEF Next

(* A takedown takes the embedded children down with the container, and no  *)
(* save, reupload or approval that races with it brings one of them back   *)
(* under a container that is down (demoteEmbeddedChildren, RebuildGraph).  *)
THEOREM TakedownCoversGraph == Spec => []DelistTakesGraphDown
  <1>1. Init => DelistTakesGraphDown
    BY SMT DEF Init, DelistTakesGraphDown, Live
  <1> QED BY <1>1, GraphSteps, TypeCorrect, PTL DEF Spec

-----------------------------------------------------------------------------
(* Announcing an open request                                              *)

(* The call c is still going to decide, withdraw or announce r.            *)
Minds(c, r) == call[c].op \in {"approve", "compensate", "notify"} /\ call[c].r = r

(* A step keeps every open request minded or announced when it minds what  *)
(* it opens, and announces, decides or passes on what its call minded.     *)
LEMMA MindedStep ==
    ASSUME PendingIsNotified, carded \subseteq carded',
           \A r \in Reqs : request'[r].status = "pending" =>
               \/ request[r].status = "pending"
               \/ \E c \in Calls : Minds(c, r)',
           \A c \in Calls, r \in Reqs : Minds(c, r) =>
               \/ Minds(c, r)' \/ r \in carded'
               \/ request'[r].status # "pending"
    PROVE  PendingIsNotified'
  <1> SUFFICES ASSUME NEW r \in Reqs, request'[r].status = "pending"
               PROVE  r \in carded' \/ \E c \in Calls : Minds(c, r)'
    BY DEF PendingIsNotified, Minds
  <1>1. CASE request[r].status = "pending"
    <2>1. r \in carded \/ \E c \in Calls : Minds(c, r)
      BY <1>1 DEF PendingIsNotified, Minds
    <2> QED BY <2>1
  <1> QED BY <1>1

LEMMA NotifiedSteps ==
    ASSUME TypeOK, PendingIsNotified, ~MayCrash, [Next]_vars
    PROVE  PendingIsNotified'
  <1>1. ASSUME \/ request' = request
               \/ \E p \in Plugins : request' = cancelPendingReviewFor(p),
               call' = call, carded' = carded
        PROVE  PendingIsNotified'
    <2>1. \A r \in Reqs : request'[r].status = "pending"
                            => request[r].status = "pending"
      BY <1>1 DEF cancelPendingReviewFor, Pending
    <2>2. \A d \in Calls, r \in Reqs : Minds(d, r) => Minds(d, r)'
      BY <1>1 DEF Minds
    <2> QED BY <1>1, <2>1, <2>2, MindedStep
  <1>2. ASSUME NEW r \in Reqs, ApproveTx(r) \/ CancelTx(r) \/ RejectReview(r)
        PROVE  /\ request'[r].status # "pending"
               /\ \A q \in Reqs : q # r => request'[q] = request[q]
    <2>1. CASE ApproveTx(r)
      BY <2>1, ApproveEffect DEF Request
    <2>2. CASE CancelTx(r) \/ RejectReview(r)
      <3>1. request[r] \in Request
        BY <2>2, TagsTellFields DEF CancelTx, RejectReview
      <3> QED BY <2>2, <3>1 DEF CancelTx, RejectReview, TypeOK, Request
    <2> QED BY <1>2, <2>1, <2>2
  <1>3. ASSUME NEW r \in Reqs, ApproveReview(r) \/ RejectReview(r) \/ CancelReview(r)
        PROVE  PendingIsNotified'
    <2>1. call' = call /\ carded' = carded
      BY <1>3 DEF ApproveReview, RejectReview, CancelReview
    <2>2. \A q \in Reqs : request'[q].status = "pending"
                            => request[q].status = "pending"
      BY <1>2, <1>3 DEF ApproveReview, CancelReview
    <2>3. \A d \in Calls, q \in Reqs : Minds(d, q) => Minds(d, q)'
      BY <2>1 DEF Minds
    <2> QED BY <2>1, <2>2, <2>3, MindedStep
  <1>4. ASSUME NEW c \in Calls, call'[c] = Idle \/ call' = call,
               call[c].op \notin {"approve", "compensate", "notify"},
               \A d \in Calls : d # c => call'[d] = call[d],
               request' = request, carded' = carded
        PROVE  PendingIsNotified'
    <2>1. \A d \in Calls, r \in Reqs : Minds(d, r) => Minds(d, r)'
      BY <1>4 DEF Minds
    <2> QED BY <1>4, <2>1, MindedStep
  <1>5. ASSUME NEW c \in Calls, InsertReviewRequest(c)
        PROVE  PendingIsNotified'
    <2>1. PICK r \in Reqs :
             /\ request[r].status = "none"
             /\ \E new : request' = [request EXCEPT ![r] = new]
             /\ call' = [call EXCEPT ![c] =
                  [op |-> IF call[c].auto THEN "approve" ELSE "notify", r |-> r]]
      BY ZenonT(30), <1>5 DEF InsertReviewRequest
    <2>2. \A q \in Reqs : q # r => request'[q] = request[q]
      BY <2>1 DEF TypeOK
    <2>3. Minds(c, r)' /\ \A d \in Calls : d # c => call'[d] = call[d]
      BY <2>1 DEF TypeOK, Minds
    <2>4. \A d \in Calls, q \in Reqs : Minds(d, q) => Minds(d, q)'
      BY <1>5, <2>3 DEF Minds, InsertReviewRequest
    <2>5. carded' = carded
      BY <1>5 DEF InsertReviewRequest
    <2>6. \A q \in Reqs : request'[q].status = "pending" =>
             request[q].status = "pending" \/ \E d \in Calls : Minds(d, q)'
      BY <2>2, <2>3
    <2> QED BY <2>4, <2>5, <2>6, MindedStep
  <1>6. ASSUME NEW c \in Calls,
               \/ AutoApprove(c) \/ AutoApproveFails(c) \/ AutoCancel(c)
               \/ AutoCancelFails(c) \/ dispatchReviewCard(c)
        PROVE  PendingIsNotified'
    <2>1. call[c] \in RequestCall /\ call[c].r \in Reqs
      BY <1>6, TagsTellFields DEF AutoApprove, AutoApproveFails, AutoCancel,
         AutoCancelFails, dispatchReviewCard, RequestCall
    <2>2. PICK r \in Reqs : r = call[c].r
      BY <2>1
    <2>3. carded \subseteq carded' /\ \A d \in Calls : d # c => call'[d] = call[d]
      BY <1>6 DEF AutoApprove, AutoApproveFails, AutoCancel,
         AutoCancelFails, dispatchReviewCard, TypeOK
    <2>4. \/ Minds(c, r)' \/ r \in carded' \/ request'[r].status # "pending"
      <3>1. CASE AutoApprove(c) \/ AutoCancel(c)
        BY <1>2, <2>2, <3>1 DEF AutoApprove, AutoCancel
      <3>2. CASE AutoCancelFails(c) \/ dispatchReviewCard(c)
        BY <2>2, <3>2 DEF AutoCancelFails, dispatchReviewCard
      <3>3. CASE AutoApproveFails(c)
        BY <2>1, <2>2, <3>3 DEF AutoApproveFails, Minds, TypeOK, RequestCall
      <3> QED BY <1>6, <3>1, <3>2, <3>3
    <2>5. \A d \in Calls, q \in Reqs : Minds(d, q) =>
             \/ Minds(d, q)' \/ q \in carded' \/ request'[q].status # "pending"
      BY <2>2, <2>3, <2>4 DEF Minds
    <2>6. \A q \in Reqs : request'[q].status = "pending"
                            => request[q].status = "pending"
      BY <1>2, <1>6, <2>2 DEF AutoApprove, AutoApproveFails, AutoCancel,
         AutoCancelFails, dispatchReviewCard
    <2> QED BY <2>3, <2>5, <2>6, MindedStep
  <1>7. ASSUME NEW c \in Calls,
               \/ UpdateCommit(c) \/ OperatorCommit(c) \/ RebuildGraph(c)
               \/ CallFails(c)
        PROVE  PendingIsNotified'
    BY <1>4, <1>7 DEF UpdateCommit, OperatorCommit, RebuildGraph, CallFails, TypeOK
  <1>8. ASSUME NEW c \in Calls, NEW p \in Plugins,
               \/ UpdateRead(c, p) \/ SubmitRead(c, p) \/ ReuploadRead(c, p)
               \/ AdminUpdateRead(c, p) \/ AdminImportRead(c, p)
        PROVE  PendingIsNotified'
    <2>1. /\ call[c] = Idle /\ request' = request /\ carded' = carded
          /\ \A d \in Calls : d # c => call'[d] = call[d]
      BY <1>8 DEF UpdateRead, SubmitRead, ReuploadRead, AdminUpdateRead,
         AdminImportRead, OperatorRead, TypeOK
    <2>2. \A d \in Calls, r \in Reqs : Minds(d, r) => Minds(d, r)'
      BY SMT, <2>1 DEF Minds, Idle
    <2> QED BY <2>1, <2>2, MindedStep
  <1>9. ASSUME NEW p \in Plugins,
               \/ CreatePlugin(p) \/ PublishPlugin(p)
               \/ DeletePlugin(p) \/ DelistPlugin(p)
        PROVE  PendingIsNotified'
    BY <1>1, <1>9 DEF CreatePlugin, PublishPlugin, DeletePlugin, DelistPlugin
  <1>10. CASE UpdateReviewPolicy \/ UNCHANGED vars
    BY <1>1, <1>10 DEF UpdateReviewPolicy, vars
  <1>11. ASSUME NEW c \in Calls, Crash(c) PROVE FALSE
    BY <1>11 DEF Crash
  <1> QED BY <1>3, <1>5, <1>6, <1>7, <1>8, <1>9, <1>10, <1>11 DEF Next, CallStep

(* As long as no process dies, an open request has its approval card, or   *)
(* the call that inserted it is still there to decide, withdraw or         *)
(* announce it (autoApproveReview, dispatchReviewCard).                    *)
THEOREM OpenRequestsAnnounced == ~MayCrash => (Spec => []PendingIsNotified)
  <1> SUFFICES ASSUME ~MayCrash PROVE Spec => []PendingIsNotified
    OBVIOUS
  <1>1. Init => PendingIsNotified
    BY SMT DEF Init, PendingIsNotified
  <1>2. TypeOK /\ PendingIsNotified /\ [Next]_vars => PendingIsNotified'
    BY NotifiedSteps
  <1> QED BY <1>1, <1>2, TypeCorrect, PTL DEF Spec

-----------------------------------------------------------------------------
(* The conjuncts of OpenRequestsSound, one by one.                         *)

(* No open request outlives its plugin (cancelPendingReviewFor).           *)
THEOREM OpenRequestsLive == Spec => []PendingPluginLive
  BY OpenRequestsSound, PTL

(* A takedown is undone only by a request submitted after it               *)
(* (DelistPlugin cancels the open one).                                    *)
THEOREM TakedownsStick == Spec => []TakedownSticks
  BY OpenRequestsSound, PTL

(* A plugin that waits for its first listing is listed by no other route   *)
(* (PublishPlugin looks for the request under the row lock).               *)
THEOREM FirstListingsWait == Spec => []FirstListingWaits
  BY OpenRequestsSound, PTL

(* Open requests are sound: one per plugin, of a live plugin, and nothing  *)
(* but its decision lists a plugin for the first time (InsertReviewRequest,*)
(* cancelPendingReviewFor, PublishPlugin).                                 *)
THEOREM RequestsAreSound == Spec => []RequestsSound
  <1>1. SinglePending /\ PendingPluginLive /\ FirstListingWaits => RequestsSound
    BY DEF RequestsSound
  <1> QED BY <1>1, OpenRequestsSound, PTL

(* A takedown covers the graph and outlasts the requests from before it    *)
(* (DelistPlugin, demoteEmbeddedChildren).                                 *)
THEOREM TakedownsHold == Spec => []TakedownHolds
  <1>1. TakedownSticks /\ DelistTakesGraphDown => TakedownHolds
    BY DEF TakedownHolds
  <1> QED BY <1>1, OpenRequestsSound, TakedownCoversGraph, PTL
=============================================================================
