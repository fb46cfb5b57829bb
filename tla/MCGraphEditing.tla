---------------------------- MODULE MCGraphEditing ----------------------------
(***************************************************************************)
(* Three boxes that may be dragged into each other, an edge between two of  *)
(* them, and three overlapping drag operations.                            *)
(***************************************************************************)
EXTENDS GraphEditing, TLC

CONSTANTS root, box1, box2, box3, edge1

MCContainers == {box1, box2, box3}
MCLeaves == {}
MCEdges == {edge1}

MCTypeOf ==
    [x \in {root, edge1} \union MCContainers |->
        CASE x = root -> "Graph"
          [] x = box1 -> "Crate"
          [] x = box2 -> "Shelf"
          [] x = box3 -> "Tray"
          [] OTHER -> "Edge"]

Some(types, upper) == [elements |-> types, upper |-> upper]

(* A crate and a shelf, and a crate and a tray, fit into each other.        *)
MCContainments ==
    [t \in {"Graph", "Crate", "Shelf", "Tray"} |->
        CASE t = "Graph" -> {Some({"Crate", "Shelf", "Tray"}, 3)}
          [] t = "Crate" -> {Some({"Shelf", "Tray"}, 1)}
          [] OTHER -> {Some({"Crate"}, -1)}]

MCOutgoing == [t \in {"Crate", "Shelf", "Tray"} |-> IF t = "Shelf" THEN {Some({"Edge"}, 1)} ELSE {}]
MCIncoming == [t \in {"Crate", "Shelf", "Tray"} |-> IF t = "Tray" THEN {Some({"Edge"}, -1)} ELSE {}]

MCInitialGraphs ==
    { [contains |-> [h \in {root, box1, box2, box3} |->
          CASE h = root -> <<box1, box2>>
            [] h = box1 -> <<box3>>
            [] OTHER -> <<>>],
       edges |-> {edge1},
       src |-> [e \in MCEdges |-> {box2}],
       tgt |-> [e \in MCEdges |-> {box3}],
       ghosts |-> {}] }

OpsSymmetry == Permutations(Ops)

MCSelections == {<<box1>>, <<box3>>, <<edge1>>}

=============================================================================
