--------------------------- MODULE ScenePlacement ---------------------------
(***************************************************************************)
(* The administration of the catalogue's shelves: scenes, categories, and  *)
(* the placements of plugins in scenes, beside the writes of the plugins   *)
(* themselves.  Each operation is a transaction that locks rows one after  *)
(* the other (SELECT ... FOR UPDATE), checks each row as it gets it, and   *)
(* writes at the end; transactions interleave between their locks.         *)
(***************************************************************************)
EXTENDS Naturals, Sequences, FiniteSets

CONSTANTS Txs,            \* transactions under way
          Scenes,         \* scene codes, Default among them
          Plugins,        \* naturals: their order is the order of the ids
          Categories,
          Type,           \* the plugin type of each plugin
          Default, MaxOps, \* bound on operations
          None

VARIABLES scenes,    \* registered scenes
          shelved,   \* scenes with a visible category placement
          category,  \* [live, types] of each category
          plugin,    \* [live, cat] of each plugin
          place,     \* placements: place[s][p] is None or [cat, visible]
          lock,      \* row locks: the holder of each row, or None
          tx, ops

vars == <<scenes, shelved, category, plugin, place, lock, tx, ops>>

Types == {Type[p] : p \in Plugins}
Rows == ({"scene"} \X Scenes) \cup ({"plugin"} \X Plugins) \cup ({"category"} \X Categories)
Idle == [op |-> "idle", rest |-> <<>>, scene |-> None, items |-> {}, placed |-> TRUE, visible |-> TRUE,
         cat |-> None, types |-> {}]
Ops == {"idle", "deleteScene", "place", "updatePlacement", "batch", "create", "save", "approve", "delete",
        "updateCategory", "deleteCategory"}

TypeOK ==
  /\ scenes \subseteq Scenes /\ shelved \subseteq Scenes
  /\ category \in [Categories -> [live : BOOLEAN, types : SUBSET Types]]
  /\ plugin \in [Plugins -> [live : BOOLEAN, cat : Categories \cup {None}]]
  /\ \A s \in Scenes, p \in Plugins :
       place[s][p] = None \/ place[s][p] \in [cat : Categories \cup {None}, visible : BOOLEAN]
  /\ lock \in [Rows -> Txs \cup {None}]
  /\ \A t \in Txs : tx[t].op \in Ops /\ tx[t].rest \in Seq(Rows)
  /\ ops \in 0..MaxOps

(* A plugin from before the automatic placement may have none.             *)
Init ==
  /\ \E S \in SUBSET (Scenes \ {Default}) : scenes = S \cup {Default} /\ shelved \in SUBSET S
  /\ category = [c \in Categories |-> [live |-> TRUE, types |-> Types]]
  /\ \E P \in SUBSET Plugins, c \in Categories \cup {None} :
       plugin = [p \in Plugins |-> IF p \in P THEN [live |-> TRUE, cat |-> c] ELSE [live |-> FALSE, cat |-> None]]
  /\ \E P \in SUBSET {p \in Plugins : plugin[p].live} :
       place = [s \in Scenes |-> [p \in Plugins |->
                  IF s = Default /\ p \in P THEN [cat |-> plugin[p].cat, visible |-> TRUE] ELSE None]]
  /\ lock = [r \in Rows |-> None] /\ tx = [t \in Txs |-> Idle] /\ ops = 0

-----------------------------------------------------------------------------
(* Transactions.                                                           *)

(* Commit or rollback gives all locks back.                                *)
Ends(t) ==
  /\ tx' = [tx EXCEPT ![t] = Idle]
  /\ lock' = [r \in Rows |-> IF lock[r] = t THEN None ELSE lock[r]]
  /\ UNCHANGED ops

(* lockPluginCategory: the category is live and serves the type.           *)
Serves(c, p) == category[c].live /\ Type[p] \in category[c].types

(* What the query that locks the row looks for.                            *)
Found(x, r) ==
  CASE r[1] = "scene" -> r[2] \in scenes
    [] r[1] = "plugin" -> plugin[r[2]].live
    [] r[1] = "category" ->
         IF x.op \in {"create", "save"} THEN \A p \in x.items : Serves(r[2], p) ELSE category[r[2]].live

(* A transaction begins when it gets its first row; before that it holds   *)
(* nothing, and a first row that is not found ends it at once.             *)
Begins(t, x) ==
  /\ tx[t].op = "idle" /\ ops < MaxOps /\ ops' = ops + 1
  /\ IF x.rest = <<>> THEN tx' = [tx EXCEPT ![t] = x] /\ UNCHANGED lock
     ELSE /\ lock[Head(x.rest)] = None /\ Found(x, Head(x.rest))
          /\ lock' = [lock EXCEPT ![Head(x.rest)] = t]
          /\ tx' = [tx EXCEPT ![t] = [x EXCEPT !.rest = Tail(@)]]
  /\ UNCHANGED <<scenes, shelved, category, plugin, place>>

Acquire(t) ==
  LET r == Head(tx[t].rest) IN
  /\ tx[t].rest # <<>> /\ lock[r] = None
  /\ IF Found(tx[t], r)
       THEN /\ lock' = [lock EXCEPT ![r] = t]
            /\ tx' = [tx EXCEPT ![t].rest = Tail(@)] /\ UNCHANGED ops
       ELSE Ends(t)
  /\ UNCHANGED <<scenes, shelved, category, plugin, place>>

Commits(t, op) == tx[t].op = op /\ tx[t].rest = <<>> /\ Ends(t)

-----------------------------------------------------------------------------
(* Scenes.                                                                 *)

CreateScene(s) ==
  /\ s \notin scenes /\ ops < MaxOps /\ ops' = ops + 1 /\ scenes' = scenes \cup {s}
  /\ UNCHANGED <<shelved, category, plugin, place, lock, tx>>

AdminDeleteScene(t, s) == s # Default /\ Begins(t, [Idle EXCEPT !.op = "deleteScene", !.rest = <<<<"scene", s>>>>, !.scene = s])

(* A scene that shows something is kept; the placements of deleted plugins *)
(* go with it.                                                             *)
DeleteScene(t) ==
  LET s == tx[t].scene
      inUse == s \in shelved \/ \E p \in Plugins : plugin[p].live /\ place[s][p] # None IN
  /\ Commits(t, "deleteScene")
  /\ IF inUse THEN UNCHANGED <<scenes, place>>
     ELSE scenes' = scenes \ {s} /\ place' = [place EXCEPT ![s] = [p \in Plugins |-> None]]
  /\ UNCHANGED <<shelved, category, plugin>>

-----------------------------------------------------------------------------
(* Placements.                                                             *)

AdminCreatePlacement(t, s, p, v) ==
  /\ s = Default => v
  /\ Begins(t, [Idle EXCEPT !.op = "place", !.rest = <<<<"scene", s>>, <<"plugin", p>>>>, !.scene = s,
                            !.items = {p}, !.visible = v])

(* sort.Slice by plugin id.                                                *)
Sorted(s) == IF Len(s) = 2 /\ s[2] < s[1] THEN <<s[2], s[1]>> ELSE s

AdminBatchSetPlacements(t, s, req, placed, v) ==
  LET items == Sorted(req) IN
  /\ s = Default => placed /\ v
  /\ Begins(t, [Idle EXCEPT !.op = "batch", !.scene = s, !.placed = placed, !.visible = v,
                            !.rest = <<<<"scene", s>>>> \o [i \in 1..Len(items) |-> <<"plugin", items[i]>>],
                            !.items = {items[i] : i \in 1..Len(items)}])

Placed(p, v) == [cat |-> plugin[p].cat, visible |-> v]

CreatePlacement(t) ==
  /\ Commits(t, "place")
  /\ place' = [place EXCEPT ![tx[t].scene] =
       [p \in Plugins |-> IF p \in tx[t].items /\ @[p] = None THEN Placed(p, tx[t].visible) ELSE @[p]]]
  /\ UNCHANGED <<scenes, shelved, category, plugin>>

(* Every plugin of the batch, or none.                                     *)
BatchSetPlacements(t) ==
  /\ Commits(t, "batch")
  /\ place' = [place EXCEPT ![tx[t].scene] =
       [p \in Plugins |-> IF p \notin tx[t].items THEN @[p]
                          ELSE IF tx[t].placed THEN Placed(p, tx[t].visible) ELSE None]]
  /\ UNCHANGED <<scenes, shelved, category, plugin>>

AdminUpdatePlacement(t, s, p, v) ==
  /\ place[s][p] # None
  /\ Begins(t, [Idle EXCEPT !.op = "updatePlacement", !.rest = <<<<"plugin", p>>>>, !.scene = s, !.items = {p}, !.visible = v])

(* The placement is read again under the plugin's lock; the one in the     *)
(* default scene is never hidden.                                          *)
UpdatePlacement(t) ==
  /\ Commits(t, "updatePlacement")
  /\ place' = [place EXCEPT ![tx[t].scene] =
       [p \in Plugins |->
          IF p \in tx[t].items /\ @[p] # None /\ (tx[t].scene = Default => tx[t].visible)
            THEN [@[p] EXCEPT !.visible = tx[t].visible] ELSE @[p]]]
  /\ UNCHANGED <<scenes, shelved, category, plugin>>

(* One statement, without the plugin's lock.                               *)
DeletePlacement(s, p) ==
  /\ s # Default /\ place[s][p] # None /\ ops < MaxOps /\ ops' = ops + 1
  /\ place' = [place EXCEPT ![s][p] = None]
  /\ UNCHANGED <<scenes, shelved, category, plugin, lock, tx>>

-----------------------------------------------------------------------------
(* Plugins.                                                                *)

CategoryLock(c) == IF c = None THEN <<>> ELSE <<<<"category", c>>>>

(* A new id is nobody else's.                                              *)
StartCreate(t, p, c) ==
  /\ plugin[p] = [live |-> FALSE, cat |-> None] /\ \A u \in Txs : p \notin tx[u].items
  /\ \A s \in Scenes : place[s][p] = None
  /\ Begins(t, [Idle EXCEPT !.op = "create", !.rest = CategoryLock(c), !.items = {p}, !.cat = c])

(* insertPlacements: one visible placement in the default scene.           *)
Create(t) ==
  /\ Commits(t, "create")
  /\ \E p \in tx[t].items :
       /\ plugin' = [plugin EXCEPT ![p] = [live |-> TRUE, cat |-> tx[t].cat]]
       /\ place' = [place EXCEPT ![Default][p] = [cat |-> tx[t].cat, visible |-> TRUE]]
  /\ UNCHANGED <<scenes, shelved, category>>

(* Mutant: the category is checked before the transaction.                 *)
CategoryCheckedFirst(t, p, c) ==
  /\ c # None => Serves(c, p)
  /\ Begins(t, [Idle EXCEPT !.op = "save", !.rest = <<<<"plugin", p>>>>, !.items = {p}, !.cat = c])

StartUpdate(t, p, c) ==
  Begins(t, [Idle EXCEPT !.op = "save", !.rest = <<<<"plugin", p>>>> \o CategoryLock(c), !.items = {p}, !.cat = c])

(* A missing default placement is added, and every placement of the plugin *)
(* follows its category.                                                   *)
syncDefaultPlacement(p, c) ==
  [s \in Scenes |-> [q \in Plugins |->
     IF q # p THEN place[s][q]
     ELSE IF place[s][q] # None THEN [place[s][q] EXCEPT !.cat = c]
     ELSE IF s = Default THEN [cat |-> c, visible |-> TRUE] ELSE None]]

Update(t) ==
  /\ Commits(t, "save")
  /\ \E p \in tx[t].items :
       /\ plugin' = [plugin EXCEPT ![p].cat = tx[t].cat]
       /\ place' = syncDefaultPlacement(p, tx[t].cat)
  /\ UNCHANGED <<scenes, shelved, category>>

StartApprove(t, p) == Begins(t, [Idle EXCEPT !.op = "approve", !.rest = <<<<"plugin", p>>>>, !.items = {p}])

(* Every way to be listed makes the default placement exist and visible.   *)
ensureVisibleDefaultPlacement(t) ==
  /\ Commits(t, "approve")
  /\ \E p \in tx[t].items :
       place' = [place EXCEPT ![Default][p] = IF @ = None THEN Placed(p, TRUE) ELSE [@ EXCEPT !.visible = TRUE]]
  /\ UNCHANGED <<scenes, shelved, category, plugin>>

StartDelete(t, p) == Begins(t, [Idle EXCEPT !.op = "delete", !.rest = <<<<"plugin", p>>>>, !.items = {p}])

(* The placements of a deleted plugin stay.                                *)
Delete(t) ==
  /\ Commits(t, "delete")
  /\ plugin' = [p \in Plugins |-> IF p \in tx[t].items THEN [plugin[p] EXCEPT !.live = FALSE] ELSE plugin[p]]
  /\ UNCHANGED <<scenes, shelved, category, place>>

-----------------------------------------------------------------------------
(* Categories.                                                             *)

AdminUpdateCategory(t, c, T) ==
  T # {} /\ Begins(t, [Idle EXCEPT !.op = "updateCategory", !.rest = CategoryLock(c), !.cat = c, !.types = T])

droppedPluginTypes(c, T) == category[c].types \ T
Users(c, T) == {p \in Plugins : plugin[p].live /\ plugin[p].cat = c /\ Type[p] \in T}

(* A type in use is not dropped.                                           *)
UpdateCategory(t) ==
  LET c == tx[t].cat IN
  /\ Commits(t, "updateCategory")
  /\ category' = IF Users(c, droppedPluginTypes(c, tx[t].types)) = {}
                   THEN [category EXCEPT ![c].types = tx[t].types] ELSE category
  /\ UNCHANGED <<scenes, shelved, plugin, place>>

AdminDeleteCategory(t, c) == Begins(t, [Idle EXCEPT !.op = "deleteCategory", !.rest = CategoryLock(c), !.cat = c])

DeleteCategory(t) ==
  LET c == tx[t].cat IN
  /\ Commits(t, "deleteCategory")
  /\ category' = IF Users(c, Types) = {} THEN [category EXCEPT ![c].live = FALSE] ELSE category
  /\ UNCHANGED <<scenes, shelved, plugin, place>>

Batches == {b \in Plugins \X Plugins : b[1] # b[2]}

Next ==
  \/ \E s \in Scenes : CreateScene(s) \/ \E p \in Plugins : DeletePlacement(s, p)
  \/ \E t \in Txs :
       \/ Acquire(t) \/ DeleteScene(t) \/ CreatePlacement(t) \/ BatchSetPlacements(t) \/ UpdatePlacement(t)
       \/ Create(t) \/ Update(t) \/ ensureVisibleDefaultPlacement(t) \/ Delete(t)
       \/ UpdateCategory(t) \/ DeleteCategory(t)
       \/ \E s \in Scenes :
            \/ AdminDeleteScene(t, s)
            \/ \E p \in Plugins, v \in BOOLEAN : AdminCreatePlacement(t, s, p, v) \/ AdminUpdatePlacement(t, s, p, v)
            \/ \E req \in Batches, placed, v \in BOOLEAN : (placed \/ v) /\ AdminBatchSetPlacements(t, s, req, placed, v)
       \/ \E p \in Plugins :
            \/ \E c \in Categories \cup {None} : StartCreate(t, p, c) \/ StartUpdate(t, p, c)
            \/ StartApprove(t, p) \/ StartDelete(t, p)
       \/ \E c \in Categories : AdminDeleteCategory(t, c) \/ \E T \in SUBSET Types : AdminUpdateCategory(t, c, T)

Spec == Init /\ [][Next]_vars

-----------------------------------------------------------------------------
(* No placement outlives its scene: a placement that is being made and a   *)
(* deletion of the scene wait for each other on the scene's row.           *)
PlacedInScene == \A s \in Scenes, p \in Plugins : place[s][p] # None => s \in scenes

(* The copy of the category on each placement of a live plugin, which the  *)
(* scene pages filter by, is the plugin's own category, however saves and  *)
(* placements meet.                                                        *)
CategoryAgrees ==
  \A s \in Scenes, p \in Plugins : plugin[p].live /\ place[s][p] # None => place[s][p].cat = plugin[p].cat

(* A live plugin is never stranded in a category that is gone or no longer *)
(* serves its type: deletion and narrowing count under the same row lock   *)
(* that a save takes.                                                      *)
CategoryServes == \A p \in Plugins : plugin[p].live /\ plugin[p].cat # None => Serves(plugin[p].cat, p)

(* No ring of transactions, of any length, waits for each other's rows:    *)
(* what the holder of a row waits for comes after that row in one order,   *)
(* scenes, then plugins by id, then categories.                            *)
Before(r, q) ==
  \/ r[1] = "scene" /\ q[1] # "scene"
  \/ r[1] = "plugin" /\ q[1] = "category"
  \/ r[1] = "plugin" /\ q[1] = "plugin" /\ r[2] < q[2]
Waits(t, u) == tx[t].rest # <<>> /\ lock[Head(tx[t].rest)] = u
NoWaitCycle ==
  \A t, u \in Txs :
    Waits(t, u) /\ tx[u].rest # <<>> => Before(Head(tx[t].rest), Head(tx[u].rest))

OnShelf(p) == place[Default][p] # None /\ place[Default][p].visible
KeepsGrid == \A p \in Plugins : plugin[p].live /\ OnShelf(p) => OnShelf(p)'

(* Scenes, categories and placements agree, and the row locks that make    *)
(* them agree do not block each other (AdminCreatePlacement,               *)
(* syncDefaultPlacement, AdminBatchSetPlacements).                         *)
ShelvesSound ==
  /\ PlacedInScene
  /\ CategoryAgrees
  /\ CategoryServes
  /\ NoWaitCycle

(* What is on the default shelf stays there: no operation of the           *)
(* administration or of an author takes a live plugin off it               *)
(* (UpdatePlacement).                                                      *)
HistoryKept == [][KeepsGrid]_vars
=============================================================================
