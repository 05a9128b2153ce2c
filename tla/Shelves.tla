------------------------------ MODULE Shelves -------------------------------
(* The shelves (ScenePlacement) as a part of the catalogue.                *)
EXTENDS Part

CONSTANTS Scenes, Default, Categories, MaxOps,
          ShelfSkills, ShelfExperts,   \* the plugins to be placed, by their ids
          Nothing

VARIABLES scenes, shelved, category, plugin, place, lock, tx, ops

shelfVars == <<scenes, shelved, category, plugin, place, lock, tx, ops>>

Placeable == ShelfSkills \cup ShelfExperts
ShelfType == [p \in Placeable |-> IF p \in ShelfSkills THEN "skill" ELSE "expert"]

Shelf == INSTANCE ScenePlacement WITH Txs <- Callers, Plugins <- Placeable,
           Type <- ShelfType, None <- Nothing

ShelfStarts ==
  IF part = "shelf" THEN Shelf!Init
  ELSE /\ scenes = Nothing /\ shelved = Nothing /\ category = Nothing /\ plugin = Nothing
       /\ place = Nothing /\ lock = Nothing /\ tx = Nothing /\ ops = Nothing

ShelfPart == ShelfStarts /\ [][part = "shelf" /\ Shelf!Next /\ UNCHANGED part]_<<part, shelfVars>>

(* Scenes, categories and placements agree, and the row locks that make    *)
(* them agree do not block each other (AdminCreatePlacement,               *)
(* syncDefaultPlacement, AdminBatchSetPlacements).                         *)
ShelvesSound == part = "shelf" => Shelf!TypeOK /\ Shelf!ShelvesSound
=============================================================================
