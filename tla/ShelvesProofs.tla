---------------------------- MODULE ShelvesProofs ----------------------------
(***************************************************************************)
(* Proofs about the shelves, for any scenes, plugins, categories and       *)
(* transactions.                                                           *)
(***************************************************************************)
EXTENDS Shelves, Naturals, Sequences, TLAPS

(* A leaf that names no prover is left to Zenon: most need no more than    *)
(* first-order reasoning about the facts they cite.                        *)
USE Zenon

(* What the proofs assume of the constants: ids are ordered, and Nothing   *)
(* is neither a transaction nor a category.                                *)
ShelfSetting ==
  /\ Nothing \notin Callers /\ Nothing \notin Categories
  /\ Placeable \subseteq Nat /\ Default \in Scenes /\ MaxOps \in Nat

(* The operations that write under the lock of a scene, of a plugin, of a  *)
(* category.                                                               *)
SceneOps == {"deleteScene", "place", "batch"}
PluginOps == {"place", "batch", "updatePlacement", "save", "approve", "delete"}
CategoryOps == {"create", "save", "updateCategory", "deleteCategory"}

Transactions ==
  [op : Shelf!Ops, rest : Seq(Shelf!Rows), scene : Scenes \cup {Nothing}, items : SUBSET Placeable,
   placed : BOOLEAN, visible : BOOLEAN, cat : Categories \cup {Nothing}, types : SUBSET Shelf!Types]

Planned(x) ==
  /\ x \in Transactions /\ (x.op = "idle" => x.rest = <<>>)
  /\ x.op \in SceneOps \cup {"updatePlacement"} => x.scene \in Scenes
  /\ x.op = "deleteScene" => x.scene # Default
  /\ x.op \in {"updateCategory", "deleteCategory"} => x.cat # Nothing
  /\ \A i, j \in 1..Len(x.rest) : i < j => Shelf!Before(x.rest[i], x.rest[j])

(* A row that the transaction has locked or is going to lock.              *)
Claims(t, x, r, l) == l[r] = t \/ \E i \in 1..Len(x.rest) : x.rest[i] = r

(* A transaction under locks l: it locks what it writes, and what it has   *)
(* comes before what it still waits for.                                   *)
TxSound(t, x, l) ==
  /\ Planned(x)
  /\ \A r \in Shelf!Rows : l[r] = t =>
       x.op # "idle" /\ \A i \in 1..Len(x.rest) : Shelf!Before(r, x.rest[i])
  /\ x.op \in SceneOps => Claims(t, x, <<"scene", x.scene>>, l)
  /\ x.op \in PluginOps => \A p \in x.items : Claims(t, x, <<"plugin", p>>, l)
  /\ x.op \in CategoryOps /\ x.cat # Nothing => Claims(t, x, <<"category", x.cat>>, l)

LocksSound ==
  /\ lock \in [Shelf!Rows -> Callers \cup {Nothing}] /\ tx \in [Callers -> Transactions]
  /\ \A t \in Callers : TxSound(t, tx[t], lock)

Placements == [cat : Categories \cup {Nothing}, visible : BOOLEAN]

ShelvesTyped ==
  /\ scenes \subseteq Scenes /\ shelved \subseteq Scenes /\ Default \in scenes
  /\ category \in [Categories -> [live : BOOLEAN, types : SUBSET Shelf!Types]]
  /\ plugin \in [Placeable -> [live : BOOLEAN, cat : Categories \cup {Nothing}]]
  /\ place \in [Scenes -> [Placeable -> Placements \cup {Nothing}]]
  /\ ops \in 0..MaxOps

(* What was true of a row when it was locked is true while it is.          *)
HeldSound ==
  /\ \A s \in Scenes : lock[<<"scene", s>>] # Nothing => s \in scenes
  /\ \A p \in Placeable : lock[<<"plugin", p>>] # Nothing => plugin[p].live
  /\ \A t \in Callers, c \in Categories :
       lock[<<"category", c>>] = t /\ tx[t].op \in {"create", "save"} =>
         \A p \in tx[t].items : Shelf!Serves(c, p)

(* A plugin that is being created is nowhere yet, and created once.        *)
Creating ==
  \A t \in Callers : tx[t].op = "create" =>
    \A p \in tx[t].items :
      /\ ~plugin[p].live /\ \A s \in Scenes : place[s][p] = Nothing
      /\ \A u \in Callers \ {t} : tx[u].op = "create" => p \notin tx[u].items

ShelfInv ==
  /\ ShelvesTyped /\ LocksSound /\ HeldSound /\ Creating
  /\ Shelf!PlacedInScene /\ Shelf!CategoryAgrees /\ Shelf!CategoryServes

-----------------------------------------------------------------------------
(* Locks.                                                                  *)

LEMMA RowsAre ==
  /\ \A s \in Scenes : <<"scene", s>> \in Shelf!Rows
  /\ \A p \in Placeable : <<"plugin", p>> \in Shelf!Rows
  /\ \A c \in Categories : <<"category", c>> \in Shelf!Rows
  BY DEF Shelf!Rows

LEMMA FirstOf ==
  ASSUME NEW S, NEW q \in Seq(S), q # <<>>
  PROVE  /\ Head(q) \in S /\ Head(q) = q[1] /\ Tail(q) \in Seq(S) /\ Len(q) \in Nat \ {0}
         /\ Len(Tail(q)) = Len(q) - 1
         /\ \A i \in 1..Len(Tail(q)) : Tail(q)[i] = q[i + 1]
  BY SMT

LEMMA IdlePlanned ==
  /\ Shelf!Idle \in Transactions /\ Shelf!Idle.op = "idle" /\ Shelf!Idle.rest = <<>>
  /\ Planned(Shelf!Idle)
  <1>1. Shelf!Idle.op = "idle" /\ Shelf!Idle.rest = <<>>
    BY DEF Shelf!Idle
  <1>2. Shelf!Idle \in Transactions
    BY SMT DEF Shelf!Idle, Transactions, Shelf!Ops
  <1>3. \A i \in 1..Len(Shelf!Idle.rest) : FALSE
    BY SMT, <1>1
  <1> QED BY <1>1, <1>2, <1>3 DEF Planned, SceneOps

(* The lock of the next row.                                               *)
LEMMA LockTaken ==
  ASSUME ShelfSetting, NEW t \in Callers, NEW x, NEW l \in [Shelf!Rows -> Callers \cup {Nothing}],
         TxSound(t, x, l), x.op # "idle", x.rest # <<>>, NEW y, NEW m,
         y = [x EXCEPT !.rest = Tail(@)], m = [l EXCEPT ![Head(x.rest)] = t]
  PROVE  TxSound(t, y, m)
  <1> DEFINE h == Head(x.rest)
  <1>1. x \in Transactions /\ x.rest \in Seq(Shelf!Rows)
    BY DEF TxSound, Planned, Transactions
  <1>2. /\ h \in Shelf!Rows /\ h = x.rest[1] /\ Tail(x.rest) \in Seq(Shelf!Rows)
        /\ Len(x.rest) \in Nat \ {0} /\ Len(Tail(x.rest)) = Len(x.rest) - 1
        /\ \A i \in 1..Len(Tail(x.rest)) : Tail(x.rest)[i] = x.rest[i + 1]
    BY <1>1, FirstOf
  <1>3. /\ y \in Transactions /\ y.rest = Tail(x.rest) /\ y.op = x.op /\ y.scene = x.scene
        /\ y.items = x.items /\ y.cat = x.cat
    BY <1>1, <1>2 DEF Transactions
  <1>4. m[h] = t /\ \A r \in Shelf!Rows : r # h => m[r] = l[r]
    BY <1>2
  <1> HIDE DEF h
  <1>5. \A i \in 1..Len(y.rest) : i + 1 \in 1..Len(x.rest) /\ y.rest[i] = x.rest[i + 1]
    BY SMT, <1>2, <1>3
  <1>o. \A i, j \in 1..Len(x.rest) : i < j => Shelf!Before(x.rest[i], x.rest[j])
    BY DEF TxSound, Planned
  <1>6. Planned(y)
    <2>1. ASSUME NEW i \in 1..Len(y.rest), NEW j \in 1..Len(y.rest), i < j
          PROVE  Shelf!Before(y.rest[i], y.rest[j])
      <3>1. Shelf!Before(x.rest[i + 1], x.rest[j + 1])
        <4>1. i + 1 \in 1..Len(x.rest) /\ j + 1 \in 1..Len(x.rest) /\ i + 1 < j + 1
          BY SMT, <1>5, <2>1
        <4> QED BY <1>o, <4>1
      <3> QED BY <1>5, <3>1
    <2> QED BY <1>3, <2>1 DEF TxSound, Planned
  <1>7. ASSUME NEW r \in Shelf!Rows, m[r] = t, NEW i \in 1..Len(y.rest) PROVE Shelf!Before(r, y.rest[i])
    <2>1. CASE r = h
      <3>1. Shelf!Before(x.rest[1], x.rest[i + 1])
        <4>1. 1 \in 1..Len(x.rest) /\ i + 1 \in 1..Len(x.rest) /\ 1 < i + 1
          BY SMT, <1>2, <1>5
        <4> QED BY <1>o, <4>1
      <3> QED BY <1>2, <1>5, <2>1, <3>1
    <2>2. CASE r # h
      BY <1>4, <1>5, <1>7, <2>2 DEF TxSound
    <2> QED BY <2>1, <2>2
  <1>8. ASSUME NEW r \in Shelf!Rows, Claims(t, x, r, l) PROVE Claims(t, y, r, m)
    <2>1. CASE r = h
      BY <1>4, <2>1 DEF Claims
    <2>2. CASE r # h /\ l[r] = t
      BY <1>4, <2>2 DEF Claims
    <2>3. ASSUME r # h, NEW i \in 1..Len(x.rest), x.rest[i] = r PROVE Claims(t, y, r, m)
      <3>1. i # 1 /\ i - 1 \in 1..Len(y.rest) /\ (i - 1) + 1 = i
        BY SMT, <1>2, <1>3, <2>3
      <3> QED BY <1>5, <2>3, <3>1 DEF Claims
    <2> QED BY <1>8, <2>1, <2>2, <2>3 DEF Claims
  <1>9. x.op \in SceneOps => x.scene \in Scenes
    BY DEF TxSound, Planned
  <1> QED BY <1>1, <1>3, <1>6, <1>7, <1>8, <1>9, RowsAre DEF TxSound, Transactions

(* The locks of the others do not move.                                    *)
LEMMA LocksKept ==
  ASSUME NEW t \in Callers, NEW x, NEW l, NEW m, TxSound(t, x, l),
         \A r \in Shelf!Rows : m[r] = t <=> l[r] = t
  PROVE  TxSound(t, x, m)
  <1>1. ASSUME NEW r \in Shelf!Rows, Claims(t, x, r, l) PROVE Claims(t, x, r, m)
    BY <1>1 DEF Claims
  <1>2. x \in Transactions /\ Planned(x) /\ (x.op \in SceneOps => x.scene \in Scenes)
    BY DEF TxSound, Planned
  <1> QED BY <1>1, <1>2, RowsAre DEF TxSound, Transactions

(* A transaction that has all its locks.                                   *)
LEMMA HasAll ==
  ASSUME NEW t \in Callers, LocksSound, tx[t].rest = <<>>
  PROVE  /\ tx[t].op \in SceneOps => lock[<<"scene", tx[t].scene>>] = t
         /\ tx[t].op \in PluginOps => \A p \in tx[t].items : lock[<<"plugin", p>>] = t
         /\ tx[t].op \in CategoryOps /\ tx[t].cat # Nothing => lock[<<"category", tx[t].cat>>] = t
  <1>1. \A r : Claims(t, tx[t], r, lock) => lock[r] = t
    BY SMT DEF Claims
  <1> QED BY <1>1 DEF LocksSound, TxSound

(* Commit and rollback.                                                    *)
LEMMA LocksReleased ==
  ASSUME ShelfSetting, LocksSound, NEW t \in Callers, Shelf!Ends(t)
  PROVE  /\ LocksSound' /\ tx'[t].op = "idle" /\ ops' = ops
         /\ \A u \in Callers : u # t => tx'[u] = tx[u]
         /\ \A r \in Shelf!Rows : lock'[r] # Nothing => lock'[r] = lock[r] /\ lock[r] # t
  <1>1. /\ tx' = [tx EXCEPT ![t] = Shelf!Idle] /\ ops' = ops
        /\ lock' = [r \in Shelf!Rows |-> IF lock[r] = t THEN Nothing ELSE lock[r]]
    BY DEF Shelf!Ends
  <1>2. /\ Shelf!Idle \in Transactions /\ Shelf!Idle.op = "idle" /\ Shelf!Idle.rest = <<>>
        /\ Planned(Shelf!Idle)
    BY IdlePlanned
  <1>3. /\ lock' \in [Shelf!Rows -> Callers \cup {Nothing}] /\ tx' \in [Callers -> Transactions]
        /\ tx'[t] = Shelf!Idle /\ \A u \in Callers : u # t => tx'[u] = tx[u]
    BY <1>1, <1>2 DEF LocksSound
  <1>4. \A r \in Shelf!Rows : lock'[r] # t /\ (lock'[r] # Nothing => lock'[r] = lock[r] /\ lock[r] # t)
    BY <1>1 DEF LocksSound, ShelfSetting
  <1>5. ASSUME NEW u \in Callers PROVE TxSound(u, tx'[u], lock')
    <2>1. CASE u = t
      BY <1>2, <1>3, <1>4, <2>1 DEF TxSound, SceneOps, PluginOps, CategoryOps
    <2>2. CASE u # t
      <3>1. \A r \in Shelf!Rows : lock'[r] = u <=> lock[r] = u
        BY SMT, <1>1, <2>2 DEF LocksSound, ShelfSetting
      <3>2. TxSound(u, tx[u], lock)
        BY DEF LocksSound
      <3> QED BY <1>3, <2>2, <3>1, <3>2, LocksKept
    <2> QED BY <2>1, <2>2
  <1>6. LocksSound'
    BY <1>3, <1>5 DEF LocksSound
  <1> QED BY <1>1, <1>2, <1>3, <1>4, <1>6

(* Who is waited for has the row, and waits for a later one.               *)
LEMMA NoDeadlock ==
  ASSUME LocksSound
  PROVE  Shelf!NoWaitCycle
  <1> SUFFICES ASSUME NEW t \in Callers, NEW u \in Callers,
                      Shelf!Waits(t, u), tx[u].rest # <<>>
               PROVE  Shelf!Before(Head(tx[t].rest), Head(tx[u].rest))
    BY DEF Shelf!NoWaitCycle
  <1> DEFINE r == Head(tx[t].rest)
             q == Head(tx[u].rest)
  <1>1. tx[t].rest # <<>> /\ lock[r] = u
    BY DEF Shelf!Waits
  <1>2. tx[t].rest \in Seq(Shelf!Rows) /\ tx[u].rest \in Seq(Shelf!Rows)
    BY DEF LocksSound, Transactions
  <1>3. r \in Shelf!Rows /\ q = tx[u].rest[1] /\ 1 \in 1..Len(tx[u].rest)
    BY SMT, <1>1, <1>2, FirstOf
  <1> HIDE DEF r, q
  <1>4. Shelf!Before(r, q)
    BY <1>1, <1>3 DEF LocksSound, TxSound
  <1> QED BY <1>4 DEF r, q

-----------------------------------------------------------------------------
(* Transactions get their rows.                                            *)

(* What a new transaction is: it locks what it writes, in order, and the   *)
(* plugin that it creates is not there yet.                                *)
Fresh(t, x) ==
  /\ TxSound(t, x, lock) /\ x.op # "idle"
  /\ x.op = "create" => \A p \in x.items :
       /\ ~plugin[p].live /\ \A s \in Scenes : place[s][p] = Nothing
       /\ \A u \in Callers : p \notin tx[u].items

(* What the statement that locks a row finds is what is true of the row.   *)
LEMMA RowFound ==
  ASSUME NEW x, NEW r \in Shelf!Rows, Shelf!Found(x, r)
  PROVE  /\ \A s \in Scenes : r = <<"scene", s>> => s \in scenes
         /\ \A p \in Placeable : r = <<"plugin", p>> => plugin[p].live
         /\ \A c \in Categories : r = <<"category", c>> /\ x.op \in {"create", "save"} =>
              \A p \in x.items : Shelf!Serves(c, p)
  <1>1. ASSUME NEW s \in Scenes, r = <<"scene", s>> PROVE s \in scenes
    BY <1>1 DEF Shelf!Found
  <1>2. ASSUME NEW p \in Placeable, r = <<"plugin", p>> PROVE plugin[p].live
    BY <1>2 DEF Shelf!Found
  <1>3. ASSUME NEW c \in Categories, r = <<"category", c>>, x.op \in {"create", "save"}
        PROVE  \A p \in x.items : Shelf!Serves(c, p)
    BY <1>3 DEF Shelf!Found
  <1> QED BY <1>1, <1>2, <1>3

(* A row goes to transaction t, which is y from now on.                    *)
LEMMA RowLocked ==
  ASSUME ShelfSetting, LocksSound, HeldSound, NEW t \in Callers, NEW x, TxSound(t, x, lock),
         x.op # "idle", x.rest # <<>>, NEW r, r = Head(x.rest), lock[r] = Nothing,
         Shelf!Found(x, r), \A q \in Shelf!Rows : lock[q] = t => x = tx[t],
         lock' = [lock EXCEPT ![r] = t], tx' = [tx EXCEPT ![t] = [x EXCEPT !.rest = Tail(@)]],
         UNCHANGED <<scenes, plugin, category>>
  PROVE  LocksSound' /\ HeldSound'
  <1> DEFINE y == [x EXCEPT !.rest = Tail(@)]
  <1>1. x \in Transactions /\ x.rest \in Seq(Shelf!Rows)
    BY DEF TxSound, Planned, Transactions
  <1>2. r \in Shelf!Rows /\ Tail(x.rest) \in Seq(Shelf!Rows)
    BY <1>1, FirstOf
  <1>3. y \in Transactions /\ y.op = x.op /\ y.items = x.items
    BY <1>1, <1>2 DEF Transactions
  <1>4. TxSound(t, y, lock')
    BY LockTaken DEF LocksSound
  <1>5. tx' = [tx EXCEPT ![t] = y]
    OBVIOUS
  <1> HIDE DEF y
  <1>6. /\ lock' \in [Shelf!Rows -> Callers \cup {Nothing}] /\ lock'[r] = t
        /\ \A q \in Shelf!Rows : q # r => lock'[q] = lock[q]
        /\ tx' \in [Callers -> Transactions] /\ tx'[t] = y
        /\ \A u \in Callers : u # t => tx'[u] = tx[u]
    BY <1>2, <1>3, <1>5 DEF LocksSound
  <1>7. ASSUME NEW u \in Callers PROVE TxSound(u, tx'[u], lock')
    <2>1. CASE u = t
      BY <1>4, <1>6, <2>1
    <2>2. CASE u # t
      <3>1. \A q \in Shelf!Rows : lock'[q] = u <=> lock[q] = u
        BY <1>6, <2>2 DEF ShelfSetting
      <3>2. TxSound(u, tx[u], lock)
        BY DEF LocksSound
      <3> QED BY <1>6, <2>2, <3>1, <3>2, LocksKept
    <2> QED BY <2>1, <2>2
  <1>8. /\ \A s \in Scenes : lock'[<<"scene", s>>] # Nothing => s \in scenes
        /\ \A p \in Placeable : lock'[<<"plugin", p>>] # Nothing => plugin[p].live
    BY SMT, <1>2, <1>6, RowFound, RowsAre DEF HeldSound
  <1>9. ASSUME NEW u \in Callers, NEW c \in Categories, lock'[<<"category", c>>] = u,
               tx'[u].op \in {"create", "save"}, NEW p \in tx'[u].items
        PROVE  Shelf!Serves(c, p)
    <2>1. CASE r = <<"category", c>>
      BY SMT, <1>2, <1>3, <1>6, <1>9, <2>1, RowFound
    <2>2. CASE r # <<"category", c>> /\ u = t
      BY SMT, <1>3, <1>6, <1>9, <2>2, RowsAre DEF HeldSound
    <2>3. CASE r # <<"category", c>> /\ u # t
      BY <1>6, <1>9, <2>3, RowsAre DEF HeldSound
    <2> QED BY <2>1, <2>2, <2>3
  <1>10. LocksSound'
    BY <1>6, <1>7 DEF LocksSound
  <1>11. HeldSound'
    BY <1>8, <1>9 DEF HeldSound, Shelf!Serves
  <1> QED BY <1>10, <1>11

(* Nothing but locks and transactions moved.                               *)
LEMMA WorldKept ==
  ASSUME ShelfInv, UNCHANGED <<scenes, shelved, category, plugin, place>>, ops' \in 0..MaxOps
  PROVE  /\ ShelvesTyped' /\ Shelf!PlacedInScene' /\ Shelf!CategoryAgrees'
         /\ Shelf!CategoryServes'
  BY DEF ShelfInv, ShelvesTyped, Shelf!PlacedInScene, Shelf!CategoryAgrees,
         Shelf!CategoryServes, Shelf!Serves

LEMMA BeginsSound ==
  ASSUME ShelfSetting, ShelfInv, NEW t \in Callers, NEW x, Fresh(t, x), Shelf!Begins(t, x)
  PROVE  ShelfInv'
  <1>1. /\ tx[t].op = "idle" /\ ops' \in 0..MaxOps
        /\ UNCHANGED <<scenes, shelved, category, plugin, place>>
    BY SMT DEF Shelf!Begins, ShelfInv, ShelvesTyped, ShelfSetting
  <1>2. \A q \in Shelf!Rows : lock[q] # t
    BY <1>1 DEF ShelfInv, LocksSound, TxSound
  <1>3. x \in Transactions /\ x.rest \in Seq(Shelf!Rows) /\ TxSound(t, x, lock) /\ x.op # "idle"
    BY DEF Fresh, TxSound, Planned, Transactions
  <1>4. CASE x.rest = <<>>
    <2>1. tx' = [tx EXCEPT ![t] = x] /\ lock' = lock
      BY <1>4 DEF Shelf!Begins
    <2>2. /\ tx' \in [Callers -> Transactions] /\ tx'[t] = x
          /\ \A u \in Callers : u # t => tx'[u] = tx[u]
      BY <1>3, <2>1 DEF ShelfInv, LocksSound
    <2>3. LocksSound'
      BY <1>3, <2>1, <2>2 DEF ShelfInv, LocksSound
    <2>4. HeldSound'
      BY SMT, <1>1, <1>2, <2>1, <2>2, RowsAre
         DEF ShelfInv, HeldSound, Shelf!Serves
    <2>5. Creating'
      BY SMT, <1>1, <2>2 DEF ShelfInv, Creating, Fresh
    <2> QED BY <1>1, <2>3, <2>4, <2>5, WorldKept DEF ShelfInv
  <1>5. CASE x.rest # <<>>
    <2> DEFINE y == [x EXCEPT !.rest = Tail(@)]
               r == Head(x.rest)
    <2>1. /\ tx' = [tx EXCEPT ![t] = y] /\ lock' = [lock EXCEPT ![r] = t]
          /\ lock[r] = Nothing /\ Shelf!Found(x, r)
      BY <1>5 DEF Shelf!Begins
    <2>2. LocksSound' /\ HeldSound'
      BY <1>1, <1>2, <1>3, <1>5, <2>1, RowLocked DEF ShelfInv
    <2>3. y.op = x.op /\ y.items = x.items
      BY <1>3 DEF Transactions
    <2> HIDE DEF y
    <2>4. tx'[t] = y /\ \A u \in Callers : u # t => tx'[u] = tx[u]
      BY <2>1 DEF ShelfInv, LocksSound
    <2>5. Creating'
      BY SMT, <1>1, <2>3, <2>4 DEF ShelfInv, Creating, Fresh
    <2> QED BY <1>1, <2>2, <2>5, WorldKept DEF ShelfInv
  <1> QED BY <1>4, <1>5

LEMMA AcquireSound ==
  ASSUME ShelfSetting, ShelfInv, NEW t \in Callers, Shelf!Acquire(t)
  PROVE  ShelfInv'
  <1> DEFINE r == Head(tx[t].rest)
  <1>1. /\ tx[t].rest # <<>> /\ lock[r] = Nothing
        /\ UNCHANGED <<scenes, shelved, category, plugin, place>>
    BY DEF Shelf!Acquire
  <1>2. TxSound(t, tx[t], lock) /\ tx[t] \in Transactions
    BY DEF ShelfInv, LocksSound
  <1>3. CASE Shelf!Found(tx[t], r)
    <2> DEFINE y == [tx[t] EXCEPT !.rest = Tail(@)]
    <2>1. tx' = [tx EXCEPT ![t] = y] /\ lock' = [lock EXCEPT ![r] = t] /\ ops' = ops
      BY <1>3 DEF Shelf!Acquire
    <2>2. tx[t].op # "idle"
      BY <1>1, <1>2 DEF TxSound, Planned
    <2>3. LocksSound' /\ HeldSound'
      BY <1>1, <1>2, <1>3, <2>1, <2>2, RowLocked DEF ShelfInv
    <2>4. y.op = tx[t].op /\ y.items = tx[t].items
      BY <1>2 DEF Transactions
    <2> HIDE DEF y
    <2>5. tx'[t] = y /\ \A u \in Callers : u # t => tx'[u] = tx[u]
      BY <2>1 DEF ShelfInv, LocksSound
    <2>6. Creating'
      BY SMT, <1>1, <2>4, <2>5 DEF ShelfInv, Creating
    <2>7. ops' \in 0..MaxOps
      BY <2>1 DEF ShelfInv, ShelvesTyped
    <2> QED BY <1>1, <2>3, <2>6, <2>7, WorldKept DEF ShelfInv
  <1>4. CASE Shelf!Ends(t)
    <2>1. /\ LocksSound' /\ tx'[t].op = "idle" /\ ops' = ops
          /\ \A u \in Callers : u # t => tx'[u] = tx[u]
          /\ \A q \in Shelf!Rows : lock'[q] # Nothing => lock'[q] = lock[q] /\ lock[q] # t
      BY <1>4, LocksReleased DEF ShelfInv
    <2>2. HeldSound'
      BY SMT, <1>1, <2>1, RowsAre
         DEF ShelfInv, HeldSound, Shelf!Serves, ShelfSetting
    <2>3. Creating'
      BY <1>1, <2>1 DEF ShelfInv, Creating
    <2>4. ops' \in 0..MaxOps
      BY <2>1 DEF ShelfInv, ShelvesTyped
    <2> QED BY <1>1, <2>1, <2>2, <2>3, <2>4, WorldKept DEF ShelfInv
  <1> QED BY <1>3, <1>4 DEF Shelf!Acquire

-----------------------------------------------------------------------------
(* The transactions begin.                                                 *)

LEMMA IdleIs ==
  /\ Shelf!Idle \in Transactions /\ Shelf!Idle.scene = Nothing /\ Shelf!Idle.items = {}
  /\ Shelf!Idle.cat = Nothing
  BY SMT DEF Shelf!Idle, Transactions, Shelf!Ops

(* A transaction without locks that plans what it writes is fresh.         *)
LEMMA PlanIsFresh ==
  ASSUME ShelfInv, NEW t \in Callers, NEW x, tx[t].op = "idle", Planned(x),
         x.op # "idle", x.op # "create",
         x.op \in SceneOps => \E i \in 1..Len(x.rest) : x.rest[i] = <<"scene", x.scene>>,
         x.op \in PluginOps => \A p \in x.items : \E i \in 1..Len(x.rest) : x.rest[i] = <<"plugin", p>>,
         x.op \in CategoryOps /\ x.cat # Nothing =>
           \E i \in 1..Len(x.rest) : x.rest[i] = <<"category", x.cat>>
  PROVE  Fresh(t, x)
  <1>1. \A q \in Shelf!Rows : lock[q] # t
    BY DEF ShelfInv, LocksSound, TxSound
  <1> QED BY <1>1 DEF Fresh, TxSound, Claims

LEMMA OneRow ==
  ASSUME NEW r \in Shelf!Rows
  PROVE  <<r>> \in Seq(Shelf!Rows) /\ Len(<<r>>) = 1 /\ <<r>>[1] = r
  BY SMT

LEMMA TwoRows ==
  ASSUME NEW r \in Shelf!Rows, NEW q \in Shelf!Rows
  PROVE  /\ <<r, q>> \in Seq(Shelf!Rows) /\ Len(<<r, q>>) = 2
         /\ <<r, q>>[1] = r /\ <<r, q>>[2] = q
  BY SMT

LEMMA StartDeleteScene ==
  ASSUME ShelfSetting, ShelfInv, NEW t \in Callers, NEW s \in Scenes, Shelf!AdminDeleteScene(t, s)
  PROVE  ShelfInv'
  <1> DEFINE r == <<"scene", s>>
             w == <<r>>
             x == [Shelf!Idle EXCEPT !.op = "deleteScene", !.rest = w, !.scene = s]
  <1>1. Shelf!Begins(t, x) /\ s # Default /\ tx[t].op = "idle"
    BY DEF Shelf!AdminDeleteScene, Shelf!Begins
  <1>2. w \in Seq(Shelf!Rows) /\ Len(w) = 1 /\ w[1] = r
    BY RowsAre, OneRow
  <1> HIDE DEF r, w
  <1>3. x \in Transactions /\ x.op = "deleteScene" /\ x.rest = w /\ x.scene = s
    BY <1>2, IdleIs DEF Transactions, Shelf!Ops
  <1> HIDE DEF x
  <1>l. Len(x.rest) = 1 /\ x.rest[1] = r
    BY <1>2, <1>3
  <1>4. Planned(x)
    BY SMT, <1>1, <1>3, <1>l DEF Planned
  <1>5. Fresh(t, x)
    <2>1. 1 \in 1..Len(x.rest) /\ x.rest[1] = <<"scene", x.scene>>
      BY SMT, <1>3, <1>l DEF r
    <2> QED BY <1>1, <1>3, <1>4, <2>1, PlanIsFresh DEF SceneOps, PluginOps, CategoryOps
  <1> QED BY <1>1, <1>5, BeginsSound

LEMMA StartPlacement ==
  ASSUME ShelfSetting, ShelfInv, NEW t \in Callers, NEW s \in Scenes, NEW p \in Placeable,
         NEW v \in BOOLEAN, Shelf!AdminCreatePlacement(t, s, p, v)
  PROVE  ShelfInv'
  <1> DEFINE r == <<"scene", s>>
             q == <<"plugin", p>>
             x == [Shelf!Idle EXCEPT !.op = "place", !.rest = <<r, q>>, !.scene = s,
                                     !.items = {p}, !.visible = v]
  <1>1. Shelf!Begins(t, x) /\ tx[t].op = "idle"
    BY DEF Shelf!AdminCreatePlacement, Shelf!Begins
  <1>2. r \in Shelf!Rows /\ q \in Shelf!Rows /\ Shelf!Before(r, q)
    BY RowsAre DEF Shelf!Before
  <1> HIDE DEF r, q
  <1>3. /\ x \in Transactions /\ x.op = "place" /\ x.rest = <<r, q>> /\ x.scene = s
        /\ x.items = {p}
    BY <1>2, TwoRows, IdleIs DEF Transactions, Shelf!Ops
  <1> HIDE DEF x
  <1>l. Len(x.rest) = 2 /\ x.rest[1] = r /\ x.rest[2] = q
    BY SMT, <1>2, <1>3
  <1>4. Planned(x)
    BY SMT, <1>2, <1>3, <1>l DEF Planned
  <1>5. Fresh(t, x)
    <2>1. /\ 1 \in 1..Len(x.rest) /\ x.rest[1] = <<"scene", x.scene>>
          /\ 2 \in 1..Len(x.rest) /\ \A i \in x.items : x.rest[2] = <<"plugin", i>>
      BY SMT, <1>3, <1>l DEF r, q
    <2> QED BY <1>1, <1>3, <1>4, <2>1, PlanIsFresh DEF SceneOps, PluginOps, CategoryOps
  <1> QED BY <1>1, <1>5, BeginsSound

(* The operations that lock one plugin.                                    *)
LEMMA StartOnPlugin ==
  ASSUME ShelfSetting, ShelfInv, NEW t \in Callers, NEW p \in Placeable, NEW x, Shelf!Begins(t, x),
         x \in Transactions, x.op \in {"updatePlacement", "approve", "delete"},
         x.rest = <<<<"plugin", p>>>>, x.items = {p},
         x.op = "updatePlacement" => x.scene \in Scenes
  PROVE  ShelfInv'
  <1> DEFINE r == <<"plugin", p>>
             w == <<r>>
  <1>1. tx[t].op = "idle" /\ x.rest = w
    BY DEF Shelf!Begins
  <1>2. Len(w) = 1 /\ w[1] = r
    BY RowsAre, OneRow
  <1> HIDE DEF r, w
  <1>l. Len(x.rest) = 1 /\ x.rest[1] = r
    BY <1>1, <1>2
  <1>3. Planned(x)
    BY SMT, <1>l DEF Planned, SceneOps
  <1>4. Fresh(t, x)
    <2>1. 1 \in 1..Len(x.rest) /\ \A i \in x.items : x.rest[1] = <<"plugin", i>>
      BY SMT, <1>l DEF r
    <2> QED BY <1>1, <1>3, <2>1, PlanIsFresh DEF SceneOps, PluginOps, CategoryOps
  <1> QED BY <1>4, BeginsSound

LEMMA StartsOnPlugin ==
  ASSUME ShelfSetting, ShelfInv, NEW t \in Callers, NEW p \in Placeable,
         \/ \E s \in Scenes, v \in BOOLEAN : Shelf!AdminUpdatePlacement(t, s, p, v)
         \/ Shelf!StartApprove(t, p) \/ Shelf!StartDelete(t, p)
  PROVE  ShelfInv'
  <1> DEFINE r == <<"plugin", p>>
  <1>0. <<r>> \in Seq(Shelf!Rows)
    BY RowsAre, OneRow
  <1> HIDE DEF r
  <1>1. ASSUME NEW s \in Scenes, NEW v \in BOOLEAN, Shelf!AdminUpdatePlacement(t, s, p, v) PROVE ShelfInv'
    <2> DEFINE x == [Shelf!Idle EXCEPT !.op = "updatePlacement", !.rest = <<r>>, !.scene = s,
                                       !.items = {p}, !.visible = v]
    <2>1. Shelf!Begins(t, x)
      BY <1>1 DEF Shelf!AdminUpdatePlacement, r
    <2>2. /\ x \in Transactions /\ x.op = "updatePlacement" /\ x.rest = <<r>> /\ x.scene = s
          /\ x.items = {p}
      BY <1>0, IdleIs DEF Transactions, Shelf!Ops
    <2> HIDE DEF x
    <2> QED BY <2>1, <2>2, StartOnPlugin DEF r
  <1>2. ASSUME Shelf!StartApprove(t, p) PROVE ShelfInv'
    <2> DEFINE x == [Shelf!Idle EXCEPT !.op = "approve", !.rest = <<r>>, !.items = {p}]
    <2>1. Shelf!Begins(t, x)
      BY <1>2 DEF Shelf!StartApprove, r
    <2>2. x \in Transactions /\ x.op = "approve" /\ x.rest = <<r>> /\ x.items = {p}
      BY <1>0, IdleIs DEF Transactions, Shelf!Ops
    <2> HIDE DEF x
    <2> QED BY <2>1, <2>2, StartOnPlugin DEF r
  <1>3. ASSUME Shelf!StartDelete(t, p) PROVE ShelfInv'
    <2> DEFINE x == [Shelf!Idle EXCEPT !.op = "delete", !.rest = <<r>>, !.items = {p}]
    <2>1. Shelf!Begins(t, x)
      BY <1>3 DEF Shelf!StartDelete, r
    <2>2. x \in Transactions /\ x.op = "delete" /\ x.rest = <<r>> /\ x.items = {p}
      BY <1>0, IdleIs DEF Transactions, Shelf!Ops
    <2> HIDE DEF x
    <2> QED BY <2>1, <2>2, StartOnPlugin DEF r
  <1> QED BY <1>1, <1>2, <1>3

(* A batch locks its plugins in the order of their ids.                    *)
LEMMA SortedIs ==
  ASSUME ShelfSetting, NEW pair \in Shelf!Batches
  PROVE  \E a, b \in Placeable : a < b /\ Shelf!Sorted(pair) = <<a, b>>
  <1>1. /\ pair[1] \in Placeable /\ pair[2] \in Placeable /\ pair[1] # pair[2]
        /\ pair = <<pair[1], pair[2]>> /\ Len(pair) = 2
    BY SMT DEF Shelf!Batches
  <1>2. pair[1] \in Nat /\ pair[2] \in Nat
    BY <1>1 DEF ShelfSetting
  <1>3. CASE pair[2] < pair[1]
    BY <1>1, <1>3 DEF Shelf!Sorted
  <1>4. CASE ~(pair[2] < pair[1])
    <2>1. pair[1] < pair[2] /\ Shelf!Sorted(pair) = pair
      BY SMT, <1>1, <1>2, <1>4 DEF Shelf!Sorted
    <2> QED BY <1>1, <2>1
  <1> QED BY <1>3, <1>4

LEMMA Joined ==
  ASSUME NEW S, NEW p \in Seq(S), NEW q \in Seq(S)
  PROVE  /\ p \o q \in Seq(S) /\ Len(p \o q) = Len(p) + Len(q)
         /\ \A i \in 1..Len(p) : (p \o q)[i] = p[i]
         /\ \A i \in 1..Len(q) : (p \o q)[Len(p) + i] = q[i]
  BY SMT

LEMMA PairIsSeq ==
  ASSUME NEW S, NEW g \in [1..2 -> S]
  PROVE  g \in Seq(S) /\ Len(g) = 2
  <1>1. g[1] \in S /\ g[2] \in S /\ g = [i \in 1..2 |-> g[i]]
    BY SMT
  <1>2. DOMAIN g = 1..2 /\ 2 \in Nat
    OBVIOUS
  <1>3. g \in Seq(S)
    BY SMT, <1>1, <1>2
  <1>4. Len(g) = 2
    BY SMT, <1>2, <1>3
  <1> QED BY <1>3, <1>4

LEMMA ThreeJoined ==
  ASSUME NEW S, NEW f \in Seq(S), NEW g \in Seq(S)
  PROVE  Len(f) = 1 /\ Len(g) = 2 =>
         /\ f \o g \in Seq(S) /\ Len(f \o g) = 3
         /\ (f \o g)[1] = f[1] /\ (f \o g)[2] = g[1] /\ (f \o g)[3] = g[2]
  <1> DEFINE w == f \o g
  <1>1. w \in Seq(S) /\ Len(w) = Len(f) + Len(g)
    BY Joined
  <1>2. \A i \in 1..Len(f) : w[i] = f[i]
    BY Joined
  <1>3. \A i \in 1..Len(g) : w[Len(f) + i] = g[i]
    BY SMT, Joined
  <1> HIDE DEF w
  <1> SUFFICES ASSUME Len(f) = 1, Len(g) = 2
               PROVE  w \in Seq(S) /\ Len(w) = 3 /\ w[1] = f[1] /\ w[2] = g[1] /\ w[3] = g[2]
    BY DEF w
  <1>4. w[1] = f[1]
    <2>1. 1 \in 1..Len(f)
      BY SMT
    <2> QED BY <1>2, <2>1
  <1>5. \A i \in 1..2 : w[1 + i] = g[i]
    BY <1>3
  <1>6. w[2] = g[1] /\ w[3] = g[2]
    BY SMT, <1>5
  <1>7. w \in Seq(S) /\ Len(w) = 3
    BY SMT, <1>1
  <1> QED BY <1>4, <1>6, <1>7

LEMMA StartBatch ==
  ASSUME ShelfSetting, ShelfInv, NEW t \in Callers, NEW s \in Scenes, NEW pair \in Shelf!Batches,
         NEW placed \in BOOLEAN, NEW v \in BOOLEAN,
         Shelf!AdminBatchSetPlacements(t, s, pair, placed, v)
  PROVE  ShelfInv'
  <1> DEFINE items == Shelf!Sorted(pair)
             r == <<"scene", s>>
             f == <<r>>
             g == [i \in 1..Len(items) |-> <<"plugin", items[i]>>]
             w == f \o g
             set == {items[i] : i \in 1..Len(items)}
             x == [Shelf!Idle EXCEPT !.op = "batch", !.scene = s, !.placed = placed, !.visible = v,
                                     !.rest = w, !.items = set]
  <1>1. Shelf!Begins(t, x) /\ tx[t].op = "idle"
    BY DEF Shelf!AdminBatchSetPlacements, Shelf!Begins
  <1>2. PICK a \in Placeable, b \in Placeable : a < b /\ items = <<a, b>>
    BY SortedIs
  <1>3. r \in Shelf!Rows /\ r[1] = "scene"
    BY RowsAre
  <1>4. /\ w \in Seq(Shelf!Rows) /\ Len(w) = 3 /\ set = {a, b}
        /\ w[1] = <<"scene", s>> /\ w[2] = <<"plugin", a>> /\ w[3] = <<"plugin", b>>
    <2>1. Len(items) = 2 /\ items[1] = a /\ items[2] = b
      BY SMT, <1>2
    <2> HIDE DEF items
    <2>2. set = {a, b}
      BY SMT, <2>1
    <2>3. f \in Seq(Shelf!Rows) /\ Len(f) = 1 /\ f[1] = r
      BY <1>3, OneRow
    <2>4. g \in [1..2 -> Shelf!Rows] /\ g[1] = <<"plugin", a>> /\ g[2] = <<"plugin", b>>
      BY SMT, <2>1, RowsAre
    <2> HIDE DEF f, g
    <2>5. g \in Seq(Shelf!Rows) /\ Len(g) = 2
      BY <2>4, PairIsSeq
    <2>6. /\ w \in Seq(Shelf!Rows) /\ Len(w) = 3
          /\ w[1] = f[1] /\ w[2] = g[1] /\ w[3] = g[2]
      BY SMT, <2>3, <2>5, ThreeJoined
    <2> HIDE DEF w, x, set
    <2> QED BY <2>2, <2>3, <2>4, <2>6
  <1> HIDE DEF w, set, items, r
  <1>5. /\ x \in Transactions /\ x.op = "batch" /\ x.rest = w /\ x.scene = s
        /\ x.items = {a, b}
    BY <1>4, IdleIs DEF Transactions, Shelf!Ops
  <1> HIDE DEF x
  <1>6. \A i, j \in 1..3 : i < j => Shelf!Before(w[i], w[j])
    <2>1. Shelf!Before(w[1], w[2]) /\ Shelf!Before(w[1], w[3]) /\ Shelf!Before(w[2], w[3])
      BY SMT, <1>2, <1>3, <1>4 DEF Shelf!Before
    <2> QED BY SMT, <2>1
  <1>7. Planned(x)
    BY <1>4, <1>5, <1>6 DEF Planned
  <1>8. Fresh(t, x)
    <2>0. Len(w) = 3
      BY <1>4
    <2>1. /\ 1 \in 1..Len(x.rest) /\ 2 \in 1..Len(x.rest) /\ 3 \in 1..Len(x.rest)
      BY SMT, <1>5, <2>0
    <2>2. /\ x.rest[1] = <<"scene", x.scene>> /\ x.rest[2] = <<"plugin", a>>
          /\ x.rest[3] = <<"plugin", b>>
      BY <1>4, <1>5
    <2> QED BY <2>2, <1>1, <1>5, <1>7, <2>1, PlanIsFresh DEF SceneOps, PluginOps, CategoryOps
  <1> QED BY <1>1, <1>8, BeginsSound

(* The rows of a save: its plugin, then the category it chooses.           *)
LEMMA SaveRows ==
  ASSUME ShelfSetting, NEW p \in Placeable, NEW c \in Categories \cup {Nothing}
  PROVE  LET w == <<<<"plugin", p>>>> \o Shelf!CategoryLock(c) IN
         /\ w \in Seq(Shelf!Rows) /\ w[1] = <<"plugin", p>>
         /\ IF c = Nothing THEN Len(w) = 1 ELSE Len(w) = 2 /\ w[2] = <<"category", c>>
  <1> DEFINE r == <<"plugin", p>>
             q == <<"category", c>>
  <1>1. r \in Shelf!Rows
    BY RowsAre
  <1>2. c # Nothing => q \in Shelf!Rows
    BY RowsAre
  <1> HIDE DEF r, q
  <1>3. CASE c = Nothing
    BY SMT, <1>1, <1>3, OneRow DEF r, Shelf!CategoryLock
  <1>4. CASE c # Nothing
    <2>1. Shelf!CategoryLock(c) = <<q>>
      BY <1>4 DEF Shelf!CategoryLock, q
    <2> DEFINE f == <<r>>
               g == <<q>>
               w == f \o g
    <2>2. /\ f \in Seq(Shelf!Rows) /\ Len(f) = 1 /\ f[1] = r
          /\ g \in Seq(Shelf!Rows) /\ Len(g) = 1 /\ g[1] = q
      BY <1>1, <1>2, <1>4, OneRow
    <2> HIDE DEF f, g
    <2>3. /\ w \in Seq(Shelf!Rows) /\ Len(w) = Len(f) + Len(g)
          /\ \A i \in 1..Len(f) : w[i] = f[i]
          /\ \A i \in 1..Len(g) : w[Len(f) + i] = g[i]
      BY SMT, <2>2, Joined
    <2> HIDE DEF w
    <2>4. Len(w) = 2 /\ w[1] = f[1] /\ w[1 + 1] = g[1]
      BY SMT, <2>2, <2>3
    <2>5. w \in Seq(Shelf!Rows) /\ Len(w) = 2 /\ w[1] = r /\ w[2] = q
      BY <2>2, <2>3, <2>4
    <2>6. w = <<<<"plugin", p>>>> \o Shelf!CategoryLock(c)
      BY <2>1 DEF w, f, g, r
    <2> QED BY <1>4, <2>5, <2>6 DEF r, q
  <1> QED BY <1>3, <1>4

LEMMA StartSave ==
  ASSUME ShelfSetting, ShelfInv, NEW t \in Callers, NEW p \in Placeable,
         NEW c \in Categories \cup {Nothing}, Shelf!StartUpdate(t, p, c)
  PROVE  ShelfInv'
  <1> DEFINE w == <<<<"plugin", p>>>> \o Shelf!CategoryLock(c)
             x == [Shelf!Idle EXCEPT !.op = "save", !.rest = w, !.items = {p}, !.cat = c]
  <1>1. Shelf!Begins(t, x) /\ tx[t].op = "idle"
    BY DEF Shelf!StartUpdate, Shelf!Begins
  <1>2. /\ w \in Seq(Shelf!Rows) /\ w[1] = <<"plugin", p>>
        /\ IF c = Nothing THEN Len(w) = 1 ELSE Len(w) = 2 /\ w[2] = <<"category", c>>
    BY SaveRows
  <1> HIDE DEF w
  <1>3. x \in Transactions /\ x.op = "save" /\ x.rest = w /\ x.items = {p} /\ x.cat = c
    BY <1>2, IdleIs DEF Transactions, Shelf!Ops
  <1> HIDE DEF x
  <1>4. \A i, j \in 1..Len(w) : i < j => Shelf!Before(w[i], w[j])
    BY SMT, <1>2 DEF Shelf!Before
  <1>5. Planned(x)
    BY <1>3, <1>4 DEF Planned, SceneOps
  <1>6. Fresh(t, x)
    <2>1. 1 \in 1..Len(x.rest) /\ \A i \in x.items : x.rest[1] = <<"plugin", i>>
      BY SMT, <1>2, <1>3
    <2>2. x.cat # Nothing => 2 \in 1..Len(x.rest) /\ x.rest[2] = <<"category", x.cat>>
      BY SMT, <1>2, <1>3
    <2> QED BY <1>1, <1>3, <1>5, <2>1, <2>2, PlanIsFresh DEF SceneOps, PluginOps, CategoryOps
  <1> QED BY <1>1, <1>6, BeginsSound

(* The rows of an operation on a category alone.                           *)
LEMMA CategoryRows ==
  ASSUME ShelfSetting, NEW c \in Categories \cup {Nothing}
  PROVE  LET w == Shelf!CategoryLock(c) IN
         /\ w \in Seq(Shelf!Rows)
         /\ IF c = Nothing THEN w = <<>> ELSE Len(w) = 1 /\ w[1] = <<"category", c>>
  <1>1. CASE c = Nothing
    BY SMT, <1>1 DEF Shelf!CategoryLock
  <1>2. CASE c # Nothing
    <2> DEFINE r == <<"category", c>>
               w == <<r>>
    <2>1. w \in Seq(Shelf!Rows) /\ Len(w) = 1 /\ w[1] = r
      BY <1>2, RowsAre, OneRow
    <2>2. Shelf!CategoryLock(c) = w
      BY <1>2 DEF Shelf!CategoryLock
    <2> HIDE DEF w
    <2> QED BY <1>2, <2>1, <2>2
  <1> QED BY <1>1, <1>2

LEMMA StartsCreate ==
  ASSUME ShelfSetting, ShelfInv, NEW t \in Callers, NEW p \in Placeable,
         NEW c \in Categories \cup {Nothing}, Shelf!StartCreate(t, p, c)
  PROVE  ShelfInv'
  <1> DEFINE w == Shelf!CategoryLock(c)
             x == [Shelf!Idle EXCEPT !.op = "create", !.rest = w, !.items = {p}, !.cat = c]
  <1>1. Shelf!Begins(t, x) /\ tx[t].op = "idle"
    BY DEF Shelf!StartCreate, Shelf!Begins
  <1>2. /\ ~plugin[p].live /\ \A u \in Callers : p \notin tx[u].items
        /\ \A s \in Scenes : place[s][p] = Nothing
    BY SMT DEF Shelf!StartCreate
  <1>3. /\ w \in Seq(Shelf!Rows)
        /\ IF c = Nothing THEN w = <<>> ELSE Len(w) = 1 /\ w[1] = <<"category", c>>
    BY CategoryRows
  <1> HIDE DEF w
  <1>4. x \in Transactions /\ x.op = "create" /\ x.rest = w /\ x.items = {p} /\ x.cat = c
    BY <1>3, IdleIs DEF Transactions, Shelf!Ops
  <1> HIDE DEF x
  <1>5. Len(w) \in {0, 1}
    BY SMT, <1>3
  <1>6. Planned(x)
    BY SMT, <1>4, <1>5 DEF Planned, SceneOps
  <1>7. TxSound(t, x, lock)
    <2>1. \A q \in Shelf!Rows : lock[q] # t
      BY <1>1 DEF ShelfInv, LocksSound, TxSound
    <2>2. x.cat # Nothing => 1 \in 1..Len(x.rest) /\ x.rest[1] = <<"category", x.cat>>
      BY SMT, <1>3, <1>4
    <2> QED BY <1>4, <1>6, <2>1, <2>2 DEF TxSound, Claims, SceneOps, PluginOps, CategoryOps
  <1>8. Fresh(t, x)
    BY <1>2, <1>4, <1>7 DEF Fresh
  <1> QED BY <1>1, <1>8, BeginsSound

LEMMA StartsOnCategory ==
  ASSUME ShelfSetting, ShelfInv, NEW t \in Callers, NEW c \in Categories,
         \/ Shelf!AdminDeleteCategory(t, c)
         \/ \E T \in SUBSET Shelf!Types : Shelf!AdminUpdateCategory(t, c, T)
  PROVE  ShelfInv'
  <1> DEFINE w == Shelf!CategoryLock(c)
  <1>1. w \in Seq(Shelf!Rows) /\ Len(w) = 1 /\ w[1] = <<"category", c>> /\ c # Nothing
    BY CategoryRows DEF ShelfSetting
  <1> HIDE DEF w
  <1>2. ASSUME NEW x \in Transactions, x.op \in {"updateCategory", "deleteCategory"},
               x.rest = w, x.cat = c, Shelf!Begins(t, x)
        PROVE  ShelfInv'
    <2>1. tx[t].op = "idle"
      BY <1>2 DEF Shelf!Begins
    <2>2. Planned(x)
      <3>1. Len(x.rest) = 1
        BY <1>1, <1>2
      <3>2. \A i, j \in 1..Len(x.rest) : ~(i < j)
        BY SMT, <3>1
      <3>3. x.op \notin SceneOps \cup {"updatePlacement", "deleteScene", "idle"}
        BY <1>2 DEF SceneOps
      <3> QED BY <1>1, <1>2, <3>2, <3>3 DEF Planned
    <2>3. 1 \in 1..Len(x.rest) /\ x.rest[1] = <<"category", x.cat>>
      BY SMT, <1>1, <1>2
    <2>4. Fresh(t, x)
      BY <1>2, <2>1, <2>2, <2>3, PlanIsFresh DEF SceneOps, PluginOps, CategoryOps
    <2> QED BY <1>2, <2>4, BeginsSound
  <1>3. ASSUME Shelf!AdminDeleteCategory(t, c) PROVE ShelfInv'
    <2> DEFINE x == [Shelf!Idle EXCEPT !.op = "deleteCategory", !.rest = w, !.cat = c]
    <2>1. Shelf!Begins(t, x)
      BY <1>3 DEF Shelf!AdminDeleteCategory, w
    <2>2. x \in Transactions /\ x.op = "deleteCategory" /\ x.rest = w /\ x.cat = c
      BY <1>1, IdleIs DEF Transactions, Shelf!Ops
    <2> HIDE DEF x
    <2> QED BY <1>2, <2>1, <2>2
  <1>4. ASSUME NEW T \in SUBSET Shelf!Types, Shelf!AdminUpdateCategory(t, c, T) PROVE ShelfInv'
    <2> DEFINE x == [Shelf!Idle EXCEPT !.op = "updateCategory", !.rest = w, !.cat = c, !.types = T]
    <2>1. Shelf!Begins(t, x)
      BY <1>4 DEF Shelf!AdminUpdateCategory, w
    <2>2. x \in Transactions /\ x.op = "updateCategory" /\ x.rest = w /\ x.cat = c
      BY <1>1, IdleIs DEF Transactions, Shelf!Ops
    <2> HIDE DEF x
    <2> QED BY <1>2, <2>1, <2>2
  <1> QED BY <1>3, <1>4

-----------------------------------------------------------------------------
(* The transactions commit.                                                *)

(* A commit writes under all its locks, and gives them back.               *)
LEMMA Committed ==
  ASSUME ShelfSetting, ShelfInv, NEW t \in Callers, NEW op, Shelf!Commits(t, op)
  PROVE  /\ tx[t].op = op /\ tx[t] \in Transactions /\ Planned(tx[t])
         /\ op \in SceneOps => lock[<<"scene", tx[t].scene>>] = t /\ tx[t].scene \in scenes
         /\ op \in PluginOps =>
              \A p \in tx[t].items : lock[<<"plugin", p>>] = t /\ plugin[p].live
         /\ op \in CategoryOps /\ tx[t].cat # Nothing => lock[<<"category", tx[t].cat>>] = t
         /\ LocksSound' /\ tx'[t].op = "idle" /\ ops' \in 0..MaxOps
         /\ \A u \in Callers : u # t => tx'[u] = tx[u]
         /\ \A r \in Shelf!Rows : lock'[r] # Nothing => lock'[r] = lock[r] /\ lock[r] # t
  <1>1. tx[t].op = op /\ tx[t].rest = <<>> /\ Shelf!Ends(t)
    BY DEF Shelf!Commits
  <1>2. tx[t] \in Transactions /\ Planned(tx[t])
    BY DEF ShelfInv, LocksSound, TxSound
  <1>3. /\ LocksSound' /\ tx'[t].op = "idle" /\ ops' = ops
        /\ \A u \in Callers : u # t => tx'[u] = tx[u]
        /\ \A r \in Shelf!Rows : lock'[r] # Nothing => lock'[r] = lock[r] /\ lock[r] # t
    BY <1>1, LocksReleased DEF ShelfInv
  <1>4. /\ op \in SceneOps => lock[<<"scene", tx[t].scene>>] = t
        /\ op \in PluginOps => \A p \in tx[t].items : lock[<<"plugin", p>>] = t
        /\ op \in CategoryOps /\ tx[t].cat # Nothing => lock[<<"category", tx[t].cat>>] = t
    BY <1>1, HasAll DEF ShelfInv
  <1>5. op \in SceneOps => tx[t].scene \in scenes
    BY <1>1, <1>2, <1>4 DEF Planned, ShelfInv, HeldSound, ShelfSetting
  <1>6. op \in PluginOps => \A p \in tx[t].items : plugin[p].live
    BY <1>2, <1>4 DEF Transactions, ShelfInv, HeldSound, ShelfSetting
  <1>7. ops' \in 0..MaxOps
    BY <1>3 DEF ShelfInv, ShelvesTyped
  <1> QED BY <1>1, <1>2, <1>3, <1>4, <1>5, <1>6, <1>7

(* The rows of the others do not change under their locks.                 *)
LEMMA HeldKept ==
  ASSUME ShelfSetting, HeldSound, NEW t \in Callers, tx'[t].op = "idle",
         \A u \in Callers : u # t => tx'[u] = tx[u],
         \A r \in Shelf!Rows : lock'[r] # Nothing => lock'[r] = lock[r] /\ lock[r] # t,
         \A s \in Scenes : lock[<<"scene", s>>] # t /\ s \in scenes => s \in scenes',
         \A p \in Placeable : lock[<<"plugin", p>>] # t /\ plugin[p].live => plugin'[p].live,
         \A c \in Categories : lock[<<"category", c>>] # t => category'[c] = category[c]
  PROVE  HeldSound'
  <1>1. ASSUME NEW s \in Scenes, lock'[<<"scene", s>>] # Nothing PROVE s \in scenes'
    BY <1>1, RowsAre DEF HeldSound
  <1>2. ASSUME NEW p \in Placeable, lock'[<<"plugin", p>>] # Nothing PROVE plugin'[p].live
    BY <1>2, RowsAre DEF HeldSound
  <1>3. ASSUME NEW u \in Callers, NEW c \in Categories, lock'[<<"category", c>>] = u,
               tx'[u].op \in {"create", "save"}, NEW p \in tx'[u].items
        PROVE  category'[c].live /\ ShelfType[p] \in category'[c].types
    <2>1. u # t /\ tx'[u] = tx[u] /\ u # Nothing
      BY <1>3 DEF ShelfSetting
    <2>2. lock[<<"category", c>>] = u
      BY <1>3, <2>1, RowsAre
    <2>3. Shelf!Serves(c, p) /\ category'[c] = category[c]
      BY <1>3, <2>1, <2>2 DEF HeldSound
    <2> QED BY <2>3 DEF Shelf!Serves
  <1> QED BY <1>1, <1>2, <1>3 DEF HeldSound, Shelf!Serves

(* The plugins that the others create do not appear.                       *)
LEMMA CreatingKept ==
  ASSUME LocksSound, Creating, NEW t \in Callers, tx'[t].op = "idle",
         \A u \in Callers : u # t => tx'[u] = tx[u],
         \A p \in Placeable :
           /\ ~plugin[p].live /\ \A s \in Scenes : place[s][p] = Nothing
           /\ tx[t].op = "create" => p \notin tx[t].items
           => ~plugin'[p].live /\ \A s \in Scenes : place'[s][p] = Nothing
  PROVE  Creating'
  <1> SUFFICES ASSUME NEW u \in Callers, tx'[u].op = "create", NEW p \in tx'[u].items
               PROVE  /\ ~plugin'[p].live /\ \A s \in Scenes : place'[s][p] = Nothing
                      /\ \A w \in Callers \ {u} : tx'[w].op = "create" => p \notin tx'[w].items
    BY DEF Creating
  <1>1. u # t /\ tx'[u] = tx[u] /\ p \in Placeable
    BY DEF LocksSound, Transactions
  <1>2. /\ ~plugin[p].live /\ \A s \in Scenes : place[s][p] = Nothing
        /\ \A w \in Callers \ {u} : tx[w].op = "create" => p \notin tx[w].items
    BY <1>1 DEF Creating
  <1> QED BY <1>1, <1>2

LEMMA DeleteSceneSound ==
  ASSUME ShelfSetting, ShelfInv, NEW t \in Callers, Shelf!DeleteScene(t)
  PROVE  ShelfInv'
  <1> DEFINE s == tx[t].scene
  <1>0. Shelf!Commits(t, "deleteScene") /\ UNCHANGED <<shelved, category, plugin>>
    BY DEF Shelf!DeleteScene
  <1>1. /\ s \in Scenes /\ s # Default /\ lock[<<"scene", s>>] = t
        /\ LocksSound' /\ tx'[t].op = "idle" /\ ops' \in 0..MaxOps
        /\ \A u \in Callers : u # t => tx'[u] = tx[u]
        /\ \A r \in Shelf!Rows : lock'[r] # Nothing => lock'[r] = lock[r] /\ lock[r] # t
    BY <1>0, Committed DEF Planned, SceneOps
  <1>2. /\ \/ scenes' = scenes
           \/ scenes' = scenes \ {s} /\ \A p \in Placeable : place'[s][p] = Nothing
        /\ place' \in [Scenes -> [Placeable -> Placements \cup {Nothing}]]
        /\ \A q \in Scenes, p \in Placeable : place'[q][p] \in {place[q][p], Nothing}
    <2>1. place \in [Scenes -> [Placeable -> Placements \cup {Nothing}]]
      BY DEF ShelfInv, ShelvesTyped
    <2>2. CASE scenes' = scenes /\ place' = place
      BY <2>1, <2>2
    <2>3. CASE /\ scenes' = scenes \ {s}
               /\ place' = [place EXCEPT ![s] = [p \in Placeable |-> Nothing]]
      BY <1>1, <2>1, <2>3
    <2> QED BY <2>2, <2>3 DEF Shelf!DeleteScene
  <1> HIDE DEF s
  <1>3. ShelvesTyped'
    BY <1>0, <1>1, <1>2 DEF ShelfInv, ShelvesTyped
  <1>4. HeldSound'
    BY <1>0, <1>1, <1>2, HeldKept DEF ShelfInv
  <1>5. Creating'
    BY SMT, <1>0, <1>1, <1>2, CreatingKept DEF ShelfInv
  <1>6. Shelf!PlacedInScene' /\ Shelf!CategoryAgrees'
    BY SMT, <1>0, <1>2 DEF ShelfInv, Shelf!PlacedInScene, Shelf!CategoryAgrees
  <1>7. Shelf!CategoryServes'
    BY <1>0 DEF ShelfInv, Shelf!CategoryServes, Shelf!Serves
  <1> QED BY <1>1, <1>3, <1>4, <1>5, <1>6, <1>7 DEF ShelfInv

(* A write of placements: each goes, keeps its category, or is that of a   *)
(* live plugin in a scene that is there.                                   *)
LEMMA PlacementsSound ==
  ASSUME ShelfSetting, ShelfInv, NEW t \in Callers, NEW op, Shelf!Commits(t, op), op # "create",
         UNCHANGED <<scenes, shelved, category, plugin>>,
         place' \in [Scenes -> [Placeable -> Placements \cup {Nothing}]],
         \A s \in Scenes, p \in Placeable :
           \/ place'[s][p] = Nothing
           \/ place[s][p] # Nothing /\ place'[s][p].cat = place[s][p].cat
           \/ plugin[p].live /\ s \in scenes /\ place'[s][p].cat = plugin[p].cat
  PROVE  ShelfInv'
  <1>1. /\ LocksSound' /\ tx'[t].op = "idle" /\ ops' \in 0..MaxOps /\ tx[t].op # "create"
        /\ \A u \in Callers : u # t => tx'[u] = tx[u]
        /\ \A r \in Shelf!Rows : lock'[r] # Nothing => lock'[r] = lock[r] /\ lock[r] # t
    BY Committed
  <1>2. ShelvesTyped'
    BY <1>1 DEF ShelfInv, ShelvesTyped
  <1>3. HeldSound'
    BY <1>1, HeldKept DEF ShelfInv
  <1>4. Creating'
    BY <1>1, CreatingKept DEF ShelfInv
  <1>5. Shelf!PlacedInScene' /\ Shelf!CategoryAgrees'
    BY DEF ShelfInv, Shelf!PlacedInScene, Shelf!CategoryAgrees
  <1>6. Shelf!CategoryServes'
    BY DEF ShelfInv, Shelf!CategoryServes, Shelf!Serves
  <1> QED BY <1>1, <1>2, <1>3, <1>4, <1>5, <1>6 DEF ShelfInv

LEMMA PlacedIs ==
  ASSUME ShelfInv, NEW p \in Placeable, NEW v \in BOOLEAN
  PROVE  Shelf!Placed(p, v) \in Placements /\ Shelf!Placed(p, v).cat = plugin[p].cat
  BY DEF ShelfInv, ShelvesTyped, Shelf!Placed, Placements

(* One scene is written, for the plugins whose locks are held.             *)
LEMMA SceneWritten ==
  ASSUME ShelfSetting, ShelfInv, NEW t \in Callers, NEW s \in Scenes, NEW row,
         row \in [Placeable -> Placements \cup {Nothing}], place' = [place EXCEPT ![s] = row]
  PROVE  /\ place' \in [Scenes -> [Placeable -> Placements \cup {Nothing}]]
         /\ \A q \in Scenes, p \in Placeable :
              place'[q][p] = IF q = s THEN row[p] ELSE place[q][p]
  BY DEF ShelfInv, ShelvesTyped

LEMMA CreatePlacementSound ==
  ASSUME ShelfSetting, ShelfInv, NEW t \in Callers, Shelf!CreatePlacement(t)
  PROVE  ShelfInv'
  <1> DEFINE s == tx[t].scene
             v == tx[t].visible
             row == [p \in Placeable |-> IF p \in tx[t].items /\ place[s][p] = Nothing
                                           THEN Shelf!Placed(p, v) ELSE place[s][p]]
  <1>1. /\ Shelf!Commits(t, "place") /\ UNCHANGED <<scenes, shelved, category, plugin>>
        /\ place' = [place EXCEPT ![s] = row]
    BY DEF Shelf!CreatePlacement
  <1>2. s \in Scenes /\ s \in scenes /\ v \in BOOLEAN /\ \A p \in tx[t].items : plugin[p].live
    BY <1>1, Committed DEF SceneOps, PluginOps, Transactions, ShelfInv, ShelvesTyped
  <1> HIDE DEF s, v
  <1>3. row \in [Placeable -> Placements \cup {Nothing}]
    BY <1>2, PlacedIs DEF ShelfInv, ShelvesTyped
  <1>4. \A p \in Placeable : row[p] = place[s][p] \/ (plugin[p].live /\ row[p].cat = plugin[p].cat)
    BY <1>2, PlacedIs
  <1> HIDE DEF row
  <1>5. /\ place' \in [Scenes -> [Placeable -> Placements \cup {Nothing}]]
        /\ \A q \in Scenes, p \in Placeable : place'[q][p] = IF q = s THEN row[p] ELSE place[q][p]
    BY <1>1, <1>2, <1>3, SceneWritten
  <1> QED BY <1>1, <1>2, <1>4, <1>5, PlacementsSound

LEMMA BatchSound ==
  ASSUME ShelfSetting, ShelfInv, NEW t \in Callers, Shelf!BatchSetPlacements(t)
  PROVE  ShelfInv'
  <1> DEFINE s == tx[t].scene
             v == tx[t].visible
             row == [p \in Placeable |-> IF p \notin tx[t].items THEN place[s][p]
                       ELSE IF tx[t].placed THEN Shelf!Placed(p, v) ELSE Nothing]
  <1>1. /\ Shelf!Commits(t, "batch") /\ UNCHANGED <<scenes, shelved, category, plugin>>
        /\ place' = [place EXCEPT ![s] = row]
    BY DEF Shelf!BatchSetPlacements
  <1>2. s \in Scenes /\ s \in scenes /\ v \in BOOLEAN /\ \A p \in tx[t].items : plugin[p].live
    BY <1>1, Committed DEF SceneOps, PluginOps, Transactions, ShelfInv, ShelvesTyped
  <1> HIDE DEF s, v
  <1>3. row \in [Placeable -> Placements \cup {Nothing}]
    BY <1>2, PlacedIs DEF ShelfInv, ShelvesTyped
  <1>4. \A p \in Placeable : \/ row[p] \in {place[s][p], Nothing}
                             \/ plugin[p].live /\ row[p].cat = plugin[p].cat
    BY <1>2, PlacedIs
  <1> HIDE DEF row
  <1>5. /\ place' \in [Scenes -> [Placeable -> Placements \cup {Nothing}]]
        /\ \A q \in Scenes, p \in Placeable : place'[q][p] = IF q = s THEN row[p] ELSE place[q][p]
    BY <1>1, <1>2, <1>3, SceneWritten
  <1> QED BY <1>1, <1>2, <1>4, <1>5, PlacementsSound

LEMMA UpdatePlacementSound ==
  ASSUME ShelfSetting, ShelfInv, NEW t \in Callers, Shelf!UpdatePlacement(t)
  PROVE  ShelfInv'
  <1> DEFINE s == tx[t].scene
             v == tx[t].visible
             row == [p \in Placeable |->
                       IF p \in tx[t].items /\ place[s][p] # Nothing /\ (s = Default => v)
                         THEN [place[s][p] EXCEPT !.visible = v] ELSE place[s][p]]
  <1>1. /\ Shelf!Commits(t, "updatePlacement") /\ UNCHANGED <<scenes, shelved, category, plugin>>
        /\ place' = [place EXCEPT ![s] = row]
    BY DEF Shelf!UpdatePlacement
  <1>2. s \in Scenes /\ v \in BOOLEAN
    BY <1>1, Committed DEF Planned, Transactions
  <1> HIDE DEF s, v
  <1>3. \A p \in Placeable : place[s][p] # Nothing =>
          /\ place[s][p] \in Placements
          /\ [place[s][p] EXCEPT !.visible = v] \in Placements
          /\ [place[s][p] EXCEPT !.visible = v].cat = place[s][p].cat
    BY SMT, <1>2 DEF ShelfInv, ShelvesTyped, Placements
  <1>4. row \in [Placeable -> Placements \cup {Nothing}]
    BY <1>2, <1>3 DEF ShelfInv, ShelvesTyped
  <1>5. \A p \in Placeable : \/ row[p] = place[s][p]
                             \/ place[s][p] # Nothing /\ row[p].cat = place[s][p].cat
    BY <1>3
  <1> HIDE DEF row
  <1>6. /\ place' \in [Scenes -> [Placeable -> Placements \cup {Nothing}]]
        /\ \A q \in Scenes, p \in Placeable : place'[q][p] = IF q = s THEN row[p] ELSE place[q][p]
    BY <1>1, <1>2, <1>4, SceneWritten
  <1> QED BY SMT, <1>1, <1>2, <1>5, <1>6, PlacementsSound

LEMMA ApproveSound ==
  ASSUME ShelfSetting, ShelfInv, NEW t \in Callers, Shelf!ensureVisibleDefaultPlacement(t)
  PROVE  ShelfInv'
  <1>1. PICK p \in tx[t].items :
          place' = [place EXCEPT ![Default][p] = IF place[Default][p] = Nothing THEN Shelf!Placed(p, TRUE)
                                                 ELSE [place[Default][p] EXCEPT !.visible = TRUE]]
    BY DEF Shelf!ensureVisibleDefaultPlacement
  <1>2. Shelf!Commits(t, "approve") /\ UNCHANGED <<scenes, shelved, category, plugin>>
    BY DEF Shelf!ensureVisibleDefaultPlacement
  <1>3. p \in Placeable /\ plugin[p].live /\ Default \in Scenes /\ Default \in scenes
    BY <1>2, Committed DEF PluginOps, Transactions, ShelfInv, ShelvesTyped
  <1> DEFINE n == IF place[Default][p] = Nothing THEN Shelf!Placed(p, TRUE)
                  ELSE [place[Default][p] EXCEPT !.visible = TRUE]
  <1>4. n \in Placements
    <2>1. CASE place[Default][p] = Nothing
      BY <1>3, <2>1, PlacedIs
    <2>2. CASE place[Default][p] # Nothing
      <3>1. place[Default][p] \in Placements
        BY <1>3, <2>2 DEF ShelfInv, ShelvesTyped
      <3> QED BY <2>2, <3>1 DEF Placements
    <2> QED BY <2>1, <2>2
  <1>5. \/ plugin[p].live /\ n.cat = plugin[p].cat
        \/ place[Default][p] # Nothing /\ n.cat = place[Default][p].cat
    BY <1>3, PlacedIs DEF ShelfInv, ShelvesTyped, Placements
  <1>6. place' = [place EXCEPT ![Default][p] = n]
    BY <1>1
  <1> HIDE DEF n
  <1>7. /\ place' \in [Scenes -> [Placeable -> Placements \cup {Nothing}]]
        /\ \A s \in Scenes, q \in Placeable :
             place'[s][q] = IF s = Default /\ q = p THEN n ELSE place[s][q]
    BY <1>3, <1>4, <1>6 DEF ShelfInv, ShelvesTyped
  <1> QED BY <1>2, <1>3, <1>5, <1>7, PlacementsSound

(* A new plugin, and its placement in the default scene.                   *)
LEMMA CreateSound ==
  ASSUME ShelfSetting, ShelfInv, NEW t \in Callers, Shelf!Create(t)
  PROVE  ShelfInv'
  <1> DEFINE c == tx[t].cat
  <1>1. PICK p \in tx[t].items :
          /\ plugin' = [plugin EXCEPT ![p] = [live |-> TRUE, cat |-> c]]
          /\ place' = [place EXCEPT ![Default][p] = [cat |-> c, visible |-> TRUE]]
    BY DEF Shelf!Create
  <1>2. Shelf!Commits(t, "create") /\ UNCHANGED <<scenes, shelved, category>>
    BY DEF Shelf!Create
  <1>3. /\ tx[t].op = "create" /\ p \in Placeable /\ c \in Categories \cup {Nothing}
        /\ c # Nothing => lock[<<"category", c>>] = t
        /\ LocksSound' /\ tx'[t].op = "idle" /\ ops' \in 0..MaxOps
        /\ \A u \in Callers : u # t => tx'[u] = tx[u]
        /\ \A r \in Shelf!Rows : lock'[r] # Nothing => lock'[r] = lock[r] /\ lock[r] # t
    BY <1>2, Committed DEF CategoryOps, Transactions
  <1>4. c # Nothing => Shelf!Serves(c, p)
    BY <1>3 DEF ShelfInv, HeldSound
  <1>5. Default \in Scenes /\ Default \in scenes /\ \A s \in Scenes : place[s][p] = Nothing
    BY <1>3 DEF ShelfInv, ShelvesTyped, Creating
  <1> HIDE DEF c
  <1>6. /\ plugin' \in [Placeable -> [live : BOOLEAN, cat : Categories \cup {Nothing}]]
        /\ plugin'[p].live /\ plugin'[p].cat = c
        /\ \A q \in Placeable : q # p => plugin'[q] = plugin[q]
    BY <1>1, <1>3 DEF ShelfInv, ShelvesTyped
  <1>7. /\ place' \in [Scenes -> [Placeable -> Placements \cup {Nothing}]]
        /\ place'[Default][p].cat = c
        /\ \A s \in Scenes, q \in Placeable : s # Default \/ q # p => place'[s][q] = place[s][q]
    <2> DEFINE n == [cat |-> c, visible |-> TRUE]
    <2>1. n \in Placements /\ n.cat = c
      BY <1>3 DEF Placements
    <2>2. place' = [place EXCEPT ![Default][p] = n]
      BY <1>1
    <2> HIDE DEF n
    <2> QED BY <1>3, <1>5, <2>1, <2>2 DEF ShelfInv, ShelvesTyped
  <1>8. ShelvesTyped'
    BY <1>2, <1>3, <1>6, <1>7 DEF ShelfInv, ShelvesTyped
  <1>9. HeldSound'
    <2>1. \A q \in Placeable : plugin[q].live => plugin'[q].live
      BY <1>6
    <2>2. scenes' = scenes /\ category' = category
      BY <1>2
    <2>3. HeldSound
      BY DEF ShelfInv
    <2> QED BY <1>3, <2>1, <2>2, <2>3, HeldKept
  <1>10. Creating'
    <2>1. ASSUME NEW q \in Placeable, ~plugin[q].live, \A s \in Scenes : place[s][q] = Nothing,
                 q \notin tx[t].items
          PROVE  ~plugin'[q].live /\ \A s \in Scenes : place'[s][q] = Nothing
      BY <1>6, <1>7, <2>1
    <2> QED BY <1>3, <2>1, CreatingKept DEF ShelfInv
  <1>11. Shelf!PlacedInScene' /\ Shelf!CategoryAgrees'
    <2> SUFFICES ASSUME NEW s \in Scenes, NEW q \in Placeable, place'[s][q] # Nothing
                 PROVE  s \in scenes' /\ (plugin'[q].live => place'[s][q].cat = plugin'[q].cat)
      BY DEF Shelf!PlacedInScene, Shelf!CategoryAgrees
    <2>1. CASE q = p
      BY <1>2, <1>5, <1>6, <1>7, <2>1
    <2>2. CASE q # p
      BY <1>2, <1>6, <1>7, <2>2 DEF ShelfInv, Shelf!PlacedInScene, Shelf!CategoryAgrees
    <2> QED BY <2>1, <2>2
  <1>12. Shelf!CategoryServes'
    BY <1>2, <1>4, <1>6 DEF ShelfInv, Shelf!CategoryServes, Shelf!Serves
  <1> QED BY <1>3, <1>8, <1>9, <1>10, <1>11, <1>12 DEF ShelfInv

(* A save: every placement of the plugin follows its category.             *)
LEMMA SaveSound ==
  ASSUME ShelfSetting, ShelfInv, NEW t \in Callers, Shelf!Update(t)
  PROVE  ShelfInv'
  <1> DEFINE c == tx[t].cat
  <1>1. PICK p \in tx[t].items :
          /\ plugin' = [plugin EXCEPT ![p].cat = c] /\ place' = Shelf!syncDefaultPlacement(p, c)
    BY DEF Shelf!Update
  <1>2. Shelf!Commits(t, "save") /\ UNCHANGED <<scenes, shelved, category>>
    BY DEF Shelf!Update
  <1>3. /\ tx[t].op = "save" /\ p \in Placeable /\ c \in Categories \cup {Nothing}
        /\ c # Nothing => lock[<<"category", c>>] = t
        /\ LocksSound' /\ tx'[t].op = "idle" /\ ops' \in 0..MaxOps
        /\ \A u \in Callers : u # t => tx'[u] = tx[u]
        /\ \A r \in Shelf!Rows : lock'[r] # Nothing => lock'[r] = lock[r] /\ lock[r] # t
    BY <1>2, Committed DEF CategoryOps, PluginOps, Transactions
  <1>3a. plugin[p].live
    BY <1>2, Committed DEF PluginOps
  <1>4. c # Nothing => Shelf!Serves(c, p)
    BY <1>3, <1>3a DEF ShelfInv, HeldSound
  <1>5. Default \in Scenes /\ Default \in scenes
    BY DEF ShelfInv, ShelvesTyped
  <1> HIDE DEF c
  <1>6. /\ plugin' \in [Placeable -> [live : BOOLEAN, cat : Categories \cup {Nothing}]]
        /\ plugin'[p].live /\ plugin'[p].cat = c
        /\ \A q \in Placeable : q # p => plugin'[q] = plugin[q]
    BY <1>1, <1>3, <1>3a DEF ShelfInv, ShelvesTyped
  <1>7. /\ place' \in [Scenes -> [Placeable -> Placements \cup {Nothing}]]
        /\ \A s \in Scenes : place'[s][p] # Nothing =>
             place'[s][p].cat = c /\ (place[s][p] # Nothing \/ s = Default)
        /\ \A s \in Scenes, q \in Placeable : q # p => place'[s][q] = place[s][q]
    <2>1. \A s \in Scenes : place[s][p] # Nothing =>
             /\ [place[s][p] EXCEPT !.cat = c] \in Placements
             /\ [place[s][p] EXCEPT !.cat = c].cat = c
      BY SMT, <1>3 DEF ShelfInv, ShelvesTyped, Placements
    <2>2. [cat |-> c, visible |-> TRUE] \in Placements
      BY <1>3 DEF Placements
    <2>3. \A s \in Scenes, q \in Placeable : place'[s][q] =
             IF q # p THEN place[s][q]
             ELSE IF place[s][q] # Nothing THEN [place[s][q] EXCEPT !.cat = c]
             ELSE IF s = Default THEN [cat |-> c, visible |-> TRUE] ELSE Nothing
      BY <1>1 DEF Shelf!syncDefaultPlacement
    <2>4. \A s \in Scenes, q \in Placeable : place'[s][q] \in Placements \cup {Nothing}
      <3> SUFFICES ASSUME NEW s \in Scenes, NEW q \in Placeable
                   PROVE  place'[s][q] \in Placements \cup {Nothing}
        OBVIOUS
      <3>1. place[s][q] \in Placements \cup {Nothing}
        BY DEF ShelfInv, ShelvesTyped
      <3>2. CASE q # p
        BY <2>3, <3>1, <3>2
      <3>3. CASE q = p /\ place[s][q] # Nothing
        BY <2>1, <2>3, <3>3
      <3>4. CASE q = p /\ place[s][q] = Nothing
        BY <2>2, <2>3, <3>4
      <3> QED BY <3>2, <3>3, <3>4
    <2>5. place' \in [Scenes -> [Placeable -> Placements \cup {Nothing}]]
      <3>1. place' = [s \in Scenes |-> [q \in Placeable |-> place'[s][q]]]
        BY <1>1 DEF Shelf!syncDefaultPlacement
      <3> QED BY SMT, <2>4, <3>1
    <2>6. ASSUME NEW s \in Scenes, place'[s][p] # Nothing
          PROVE  place'[s][p].cat = c /\ (place[s][p] # Nothing \/ s = Default)
      <3>1. CASE place[s][p] # Nothing
        BY <1>3, <2>1, <2>3, <3>1
      <3>2. CASE place[s][p] = Nothing
        <4>1. place'[s][p] = IF s = Default THEN [cat |-> c, visible |-> TRUE] ELSE Nothing
          BY <1>3, <2>3, <3>2
        <4>2. s = Default /\ place'[s][p] = [cat |-> c, visible |-> TRUE]
          BY <2>6, <4>1
        <4> QED BY SMT, <4>2
      <3> QED BY <3>1, <3>2
    <2> QED BY <2>3, <2>5, <2>6
  <1>8. ShelvesTyped'
    BY <1>2, <1>3, <1>6, <1>7 DEF ShelfInv, ShelvesTyped
  <1>9. HeldSound'
    <2>1. \A q \in Placeable : plugin[q].live => plugin'[q].live
      BY <1>6
    <2>2. scenes' = scenes /\ category' = category
      BY <1>2
    <2>3. HeldSound
      BY DEF ShelfInv
    <2> QED BY <1>3, <2>1, <2>2, <2>3, HeldKept
  <1>10. Creating'
    <2>1. ASSUME NEW q \in Placeable, ~plugin[q].live, \A s \in Scenes : place[s][q] = Nothing
          PROVE  ~plugin'[q].live /\ \A s \in Scenes : place'[s][q] = Nothing
      BY <1>3a, <1>6, <1>7, <2>1
    <2> QED BY <1>3, <2>1, CreatingKept DEF ShelfInv
  <1>11. Shelf!PlacedInScene' /\ Shelf!CategoryAgrees'
    <2> SUFFICES ASSUME NEW s \in Scenes, NEW q \in Placeable, place'[s][q] # Nothing
                 PROVE  s \in scenes' /\ (plugin'[q].live => place'[s][q].cat = plugin'[q].cat)
      BY DEF Shelf!PlacedInScene, Shelf!CategoryAgrees
    <2>1. CASE q = p
      BY <1>2, <1>3, <1>5, <1>6, <1>7, <2>1 DEF ShelfInv, Shelf!PlacedInScene
    <2>2. CASE q # p
      BY SMT, <1>2, <1>6, <1>7, <2>2
         DEF ShelfInv, Shelf!PlacedInScene, Shelf!CategoryAgrees
    <2> QED BY <2>1, <2>2
  <1>12. Shelf!CategoryServes'
    BY <1>2, <1>4, <1>6 DEF ShelfInv, Shelf!CategoryServes, Shelf!Serves
  <1> QED BY <1>3, <1>8, <1>9, <1>10, <1>11, <1>12 DEF ShelfInv

(* The placements of a deleted plugin stay.                                *)
LEMMA DeletePluginSound ==
  ASSUME ShelfSetting, ShelfInv, NEW t \in Callers, Shelf!Delete(t)
  PROVE  ShelfInv'
  <1>1. /\ Shelf!Commits(t, "delete") /\ UNCHANGED <<scenes, shelved, category, place>>
        /\ plugin' = [p \in Placeable |-> IF p \in tx[t].items THEN [plugin[p] EXCEPT !.live = FALSE]
                                          ELSE plugin[p]]
    BY DEF Shelf!Delete
  <1>2. /\ tx[t].op = "delete" /\ \A p \in tx[t].items : lock[<<"plugin", p>>] = t
        /\ LocksSound' /\ tx'[t].op = "idle" /\ ops' \in 0..MaxOps
        /\ \A u \in Callers : u # t => tx'[u] = tx[u]
        /\ \A r \in Shelf!Rows : lock'[r] # Nothing => lock'[r] = lock[r] /\ lock[r] # t
    BY <1>1, Committed DEF PluginOps
  <1>3. \A p \in Placeable : plugin[p] \in [live : BOOLEAN, cat : Categories \cup {Nothing}]
    BY DEF ShelfInv, ShelvesTyped
  <1>4. /\ plugin' \in [Placeable -> [live : BOOLEAN, cat : Categories \cup {Nothing}]]
        /\ \A p \in Placeable : /\ plugin'[p].cat = plugin[p].cat
                                /\ plugin'[p].live => plugin[p].live
                                /\ p \notin tx[t].items => plugin'[p] = plugin[p]
    BY <1>1, <1>3
  <1>5. ShelvesTyped'
    BY <1>1, <1>2, <1>4 DEF ShelfInv, ShelvesTyped
  <1>6. HeldSound'
    BY SMT, <1>1, <1>2, <1>4, HeldKept DEF ShelfInv
  <1>7. Creating'
    BY <1>1, <1>2, <1>4, CreatingKept DEF ShelfInv
  <1>8. Shelf!PlacedInScene' /\ Shelf!CategoryAgrees'
    BY SMT, <1>1, <1>4 DEF ShelfInv, Shelf!PlacedInScene, Shelf!CategoryAgrees
  <1>9. Shelf!CategoryServes'
    BY SMT, <1>1, <1>4 DEF ShelfInv, Shelf!CategoryServes, Shelf!Serves
  <1> QED BY <1>2, <1>5, <1>6, <1>7, <1>8, <1>9 DEF ShelfInv

(* A category changes under its lock, when no live plugin needs what goes. *)
LEMMA CategorySound ==
  ASSUME ShelfSetting, ShelfInv, NEW t \in Callers, Shelf!UpdateCategory(t) \/ Shelf!DeleteCategory(t)
  PROVE  ShelfInv'
  <1> DEFINE c == tx[t].cat
  <1>0. PICK op \in {"updateCategory", "deleteCategory"} :
          Shelf!Commits(t, op) /\ UNCHANGED <<scenes, shelved, plugin, place>>
    BY DEF Shelf!UpdateCategory, Shelf!DeleteCategory
  <1>1. /\ tx[t].op # "create" /\ c \in Categories /\ lock[<<"category", c>>] = t
        /\ tx[t].types \subseteq Shelf!Types
        /\ LocksSound' /\ tx'[t].op = "idle" /\ ops' \in 0..MaxOps
        /\ \A u \in Callers : u # t => tx'[u] = tx[u]
        /\ \A r \in Shelf!Rows : lock'[r] # Nothing => lock'[r] = lock[r] /\ lock[r] # t
    BY <1>0, Committed DEF CategoryOps, Planned, Transactions
  <1> HIDE DEF c
  <1>2. /\ category' \in [Categories -> [live : BOOLEAN, types : SUBSET Shelf!Types]]
        /\ \A d \in Categories : d # c => category'[d] = category[d]
        /\ \A p \in Placeable : plugin[p].live /\ plugin[p].cat = c /\ Shelf!Serves(c, p) =>
             category'[c].live /\ ShelfType[p] \in category'[c].types
    <2>1. category \in [Categories -> [live : BOOLEAN, types : SUBSET Shelf!Types]]
      BY DEF ShelfInv, ShelvesTyped
    <2>2. CASE category' = category
      BY <2>1, <2>2 DEF Shelf!Serves
    <2>3. ASSUME Shelf!Users(c, Shelf!droppedPluginTypes(c, tx[t].types)) = {},
                 category' = [category EXCEPT ![c].types = tx[t].types]
          PROVE  /\ category' \in [Categories -> [live : BOOLEAN, types : SUBSET Shelf!Types]]
                 /\ \A d \in Categories : d # c => category'[d] = category[d]
                 /\ \A p \in Placeable : plugin[p].live /\ plugin[p].cat = c /\ Shelf!Serves(c, p) =>
                      category'[c].live /\ ShelfType[p] \in category'[c].types
      <3>1. /\ category' \in [Categories -> [live : BOOLEAN, types : SUBSET Shelf!Types]]
            /\ \A d \in Categories : d # c => category'[d] = category[d]
            /\ category'[c].live = category[c].live /\ category'[c].types = tx[t].types
        BY <1>1, <2>1, <2>3
      <3> QED BY <2>3, <3>1 DEF Shelf!Users, Shelf!droppedPluginTypes, Shelf!Serves
    <2>4. ASSUME Shelf!Users(c, Shelf!Types) = {}, category' = [category EXCEPT ![c].live = FALSE]
          PROVE  /\ category' \in [Categories -> [live : BOOLEAN, types : SUBSET Shelf!Types]]
                 /\ \A d \in Categories : d # c => category'[d] = category[d]
                 /\ \A p \in Placeable : ~(plugin[p].live /\ plugin[p].cat = c)
      <3>1. /\ category' \in [Categories -> [live : BOOLEAN, types : SUBSET Shelf!Types]]
            /\ \A d \in Categories : d # c => category'[d] = category[d]
        BY <1>1, <2>1, <2>4
      <3>2. \A p \in Placeable : ShelfType[p] \in Shelf!Types
        BY DEF Shelf!Types
      <3> QED BY <2>4, <3>1, <3>2 DEF Shelf!Users
    <2> QED BY <2>2, <2>3, <2>4 DEF Shelf!UpdateCategory, Shelf!DeleteCategory, c
  <1>3. ShelvesTyped'
    BY <1>0, <1>1, <1>2 DEF ShelfInv, ShelvesTyped
  <1>4. HeldSound'
    BY <1>0, <1>1, <1>2, HeldKept DEF ShelfInv
  <1>5. Creating'
    BY <1>0, <1>1, CreatingKept DEF ShelfInv
  <1>6. Shelf!PlacedInScene' /\ Shelf!CategoryAgrees'
    BY <1>0 DEF ShelfInv, Shelf!PlacedInScene, Shelf!CategoryAgrees
  <1>7. Shelf!CategoryServes'
    <2> SUFFICES ASSUME NEW p \in Placeable, plugin[p].live, plugin[p].cat # Nothing
                 PROVE  /\ category'[plugin[p].cat].live
                        /\ ShelfType[p] \in category'[plugin[p].cat].types
      BY <1>0 DEF Shelf!CategoryServes, Shelf!Serves
    <2>1. plugin[p].cat \in Categories /\ Shelf!Serves(plugin[p].cat, p)
      BY DEF ShelfInv, ShelvesTyped, Shelf!CategoryServes
    <2> QED BY <1>2, <2>1 DEF Shelf!Serves
  <1> QED BY <1>1, <1>3, <1>4, <1>5, <1>6, <1>7 DEF ShelfInv

-----------------------------------------------------------------------------
(* Single statements, and all together.                                    *)

LEMMA StatementSound ==
  ASSUME ShelfSetting, ShelfInv, NEW s \in Scenes,
         Shelf!CreateScene(s) \/ \E p \in Placeable : Shelf!DeletePlacement(s, p)
  PROVE  ShelfInv'
  <1>1. /\ UNCHANGED <<shelved, category, plugin, lock, tx>> /\ ops' \in 0..MaxOps
        /\ scenes \subseteq scenes' /\ scenes' \subseteq Scenes
        /\ place' \in [Scenes -> [Placeable -> Placements \cup {Nothing}]]
        /\ \A q \in Scenes, p \in Placeable : place'[q][p] \in {place[q][p], Nothing}
    <2>1. scenes \subseteq Scenes /\ ops \in 0..MaxOps
          /\ place \in [Scenes -> [Placeable -> Placements \cup {Nothing}]]
      BY DEF ShelfInv, ShelvesTyped
    <2>2. CASE Shelf!CreateScene(s)
      BY SMT, <2>1, <2>2 DEF Shelf!CreateScene, ShelfSetting
    <2>3. ASSUME NEW p \in Placeable, Shelf!DeletePlacement(s, p)
          PROVE  /\ UNCHANGED <<scenes, shelved, category, plugin, lock, tx>> /\ ops' \in 0..MaxOps
                 /\ place' \in [Scenes -> [Placeable -> Placements \cup {Nothing}]]
                 /\ \A q \in Scenes, r \in Placeable : place'[q][r] \in {place[q][r], Nothing}
      BY SMT, <2>1, <2>3 DEF Shelf!DeletePlacement, ShelfSetting
    <2> QED BY <2>1, <2>2, <2>3
  <1>2. ShelvesTyped'
    BY <1>1 DEF ShelfInv, ShelvesTyped
  <1>3. LocksSound'
    BY <1>1 DEF ShelfInv, LocksSound
  <1>4. HeldSound'
    BY <1>1 DEF ShelfInv, HeldSound, Shelf!Serves
  <1>5. Creating'
    <2>1. \A t \in Callers : tx[t].items \subseteq Placeable
      BY DEF ShelfInv, LocksSound, Transactions
    <2> QED BY SMT, <1>1, <2>1 DEF ShelfInv, Creating
  <1>6. Shelf!PlacedInScene' /\ Shelf!CategoryAgrees'
    BY SMT, <1>1 DEF ShelfInv, Shelf!PlacedInScene, Shelf!CategoryAgrees
  <1>7. Shelf!CategoryServes'
    BY <1>1 DEF ShelfInv, Shelf!CategoryServes, Shelf!Serves
  <1> QED BY <1>2, <1>3, <1>4, <1>5, <1>6, <1>7 DEF ShelfInv

LEMMA ShelfStep ==
  ASSUME ShelfSetting, ShelfInv, [Shelf!Next]_(Shelf!vars)
  PROVE  ShelfInv'
  <1>1. CASE UNCHANGED Shelf!vars
    <2>1. UNCHANGED <<scenes, shelved, category, plugin, place, lock, tx, ops>>
      BY <1>1 DEF Shelf!vars
    <2>2. ops' \in 0..MaxOps
      BY <2>1 DEF ShelfInv, ShelvesTyped
    <2> QED BY <2>1, <2>2, WorldKept DEF ShelfInv, LocksSound, HeldSound, Creating, Shelf!Serves
  <1>2. ASSUME NEW t \in Callers,
               \/ Shelf!Acquire(t) \/ Shelf!DeleteScene(t) \/ Shelf!CreatePlacement(t)
               \/ Shelf!BatchSetPlacements(t) \/ Shelf!UpdatePlacement(t) \/ Shelf!Create(t)
               \/ Shelf!Update(t) \/ Shelf!ensureVisibleDefaultPlacement(t) \/ Shelf!Delete(t)
               \/ Shelf!UpdateCategory(t) \/ Shelf!DeleteCategory(t)
        PROVE  ShelfInv'
    BY <1>2, AcquireSound, DeleteSceneSound, CreatePlacementSound, BatchSound,
       UpdatePlacementSound, CreateSound, SaveSound, ApproveSound, DeletePluginSound, CategorySound
  <1>3. ASSUME NEW t \in Callers, NEW s \in Scenes,
               \/ Shelf!AdminDeleteScene(t, s)
               \/ \E p \in Placeable, v \in BOOLEAN : Shelf!AdminCreatePlacement(t, s, p, v)
               \/ \E p \in Placeable, v \in BOOLEAN : Shelf!AdminUpdatePlacement(t, s, p, v)
               \/ \E pair \in Shelf!Batches, placed, v \in BOOLEAN :
                    Shelf!AdminBatchSetPlacements(t, s, pair, placed, v)
        PROVE  ShelfInv'
    BY <1>3, StartDeleteScene, StartPlacement, StartsOnPlugin, StartBatch
  <1>4. ASSUME NEW t \in Callers, NEW p \in Placeable,
               \/ \E c \in Categories \cup {Nothing} : Shelf!StartCreate(t, p, c) \/ Shelf!StartUpdate(t, p, c)
               \/ Shelf!StartApprove(t, p) \/ Shelf!StartDelete(t, p)
        PROVE  ShelfInv'
    BY <1>4, StartsCreate, StartSave, StartsOnPlugin
  <1>5. ASSUME NEW t \in Callers, NEW c \in Categories,
               \/ Shelf!AdminDeleteCategory(t, c)
               \/ \E T \in SUBSET Shelf!Types : Shelf!AdminUpdateCategory(t, c, T)
        PROVE  ShelfInv'
    BY <1>5, StartsOnCategory
  <1> QED BY SMT, <1>1, <1>2, <1>3, <1>4, <1>5, StatementSound DEF Shelf!Next

LEMMA ShelfInit ==
  ASSUME ShelfSetting, Shelf!Init
  PROVE  ShelfInv
  <1>1. PICK S \in SUBSET (Scenes \ {Default}) : scenes = S \cup {Default} /\ shelved \in SUBSET S
    BY DEF Shelf!Init
  <1>2. PICK P \in SUBSET Placeable, c \in Categories \cup {Nothing} :
          plugin = [p \in Placeable |-> IF p \in P THEN [live |-> TRUE, cat |-> c]
                                        ELSE [live |-> FALSE, cat |-> Nothing]]
    BY DEF Shelf!Init
  <1>3. PICK Q \in SUBSET {p \in Placeable : plugin[p].live} :
          place = [s \in Scenes |-> [p \in Placeable |->
                     IF s = Default /\ p \in Q THEN [cat |-> plugin[p].cat, visible |-> TRUE] ELSE Nothing]]
    BY DEF Shelf!Init
  <1>4. /\ category = [d \in Categories |-> [live |-> TRUE, types |-> Shelf!Types]]
        /\ lock = [r \in Shelf!Rows |-> Nothing] /\ tx = [t \in Callers |-> Shelf!Idle] /\ ops = 0
    BY DEF Shelf!Init
  <1>5. plugin \in [Placeable -> [live : BOOLEAN, cat : Categories \cup {Nothing}]]
    BY <1>2
  <1>6. /\ place \in [Scenes -> [Placeable -> Placements \cup {Nothing}]]
        /\ \A s \in Scenes, p \in Placeable : place[s][p] # Nothing =>
             s = Default /\ place[s][p].cat = plugin[p].cat
    <2>1. \A p \in Placeable : [cat |-> plugin[p].cat, visible |-> TRUE] \in Placements
      BY <1>5 DEF Placements
    <2> QED BY <1>3, <2>1
  <1>7. ShelvesTyped
    BY SMT, <1>1, <1>4, <1>5, <1>6 DEF ShelvesTyped, ShelfSetting
  <1>8. LocksSound
    <2>1. /\ Shelf!Idle \in Transactions /\ Shelf!Idle.op = "idle" /\ Shelf!Idle.rest = <<>>
          /\ Planned(Shelf!Idle)
      BY IdlePlanned
    <2> QED BY <1>4, <2>1 DEF LocksSound, TxSound, ShelfSetting, SceneOps, PluginOps, CategoryOps
  <1>9. HeldSound /\ Creating
    <2>1. \A t \in Callers : tx[t].op = "idle"
      BY <1>4 DEF Shelf!Idle
    <2> QED BY <1>4, <2>1, RowsAre DEF HeldSound, Creating
  <1>10. Shelf!PlacedInScene /\ Shelf!CategoryAgrees
    BY <1>1, <1>6 DEF Shelf!PlacedInScene, Shelf!CategoryAgrees
  <1>11. Shelf!CategoryServes
    BY <1>4, <1>5 DEF Shelf!CategoryServes, Shelf!Serves, Shelf!Types
  <1> QED BY <1>7, <1>8, <1>9, <1>10, <1>11 DEF ShelfInv

(* Scenes, categories and placements agree, and no two transactions of the *)
(* administration and of authors wait for each other's rows                *)
(* (AdminDeleteScene, AdminBatchSetPlacements, lockPluginCategory,         *)
(* syncDefaultPlacement).                                                  *)
THEOREM ShelvesAreSound == ShelfSetting => (ShelfPart => []ShelvesSound)
  <1> SUFFICES ASSUME ShelfSetting PROVE ShelfPart => []ShelvesSound
    OBVIOUS
  <1> DEFINE I == part = "shelf" => ShelfInv
             N == part = "shelf" /\ Shelf!Next /\ UNCHANGED part
  <1>1. ShelfStarts => I
    BY ShelfInit DEF ShelfStarts
  <1>2. I /\ [N]_<<part, shelfVars>> => I'
    <2> SUFFICES ASSUME I, [N]_<<part, shelfVars>>, part' = "shelf" PROVE ShelfInv'
      OBVIOUS
    <2>1. part = "shelf" /\ [Shelf!Next]_(Shelf!vars)
      BY DEF shelfVars, Shelf!vars
    <2> QED BY <2>1, ShelfStep
  <1>3. I => ShelvesSound
    <2> SUFFICES ASSUME ShelfInv PROVE Shelf!TypeOK /\ Shelf!ShelvesSound
      BY DEF ShelvesSound
    <2>1. Shelf!TypeOK
      BY SMT
         DEF ShelfInv, ShelvesTyped, Placements, LocksSound, Transactions, Shelf!TypeOK
    <2> QED BY <2>1, NoDeadlock DEF ShelfInv, Shelf!ShelvesSound
  <1> QED BY <1>1, <1>2, <1>3, PTL DEF ShelfPart
=============================================================================
