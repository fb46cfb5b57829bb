---------------------------- MODULE MCGraphModel ----------------------------
(***************************************************************************)
(* A small metamodel for GraphModel: a graph of boxes and dots; a box      *)
(* holds trays and dots, a tray holds boxes, trays and dots, so that a box *)
(* can be moved into the tray inside it.  A dot has at most one outgoing   *)
(* edge, a box no edges at all.                                            *)
(***************************************************************************)
EXTENDS GraphModel

CONSTANTS root, box, tray, dot1, dot2, edge1, edge2

MCContainers == {box, tray}
MCLeaves == {dot1, dot2}
MCEdges == {edge1, edge2}

MCTypeOf ==
    [x \in {root, box, tray, dot1, dot2, edge1, edge2} |->
        CASE x = root -> "Graph"
          [] x = box -> "Box"
          [] x = tray -> "Tray"
          [] x \in MCLeaves -> "Dot"
          [] OTHER -> "Edge"]

Some(types, upper) == [elements |-> types, upper |-> upper]

MCContainments ==
    [t \in {"Graph", "Box", "Tray"} |->
        CASE t = "Graph" -> {Some({"Box"}, -1), Some({"Dot"}, 2)}
          [] t = "Box" -> {Some({"Tray"}, 1), Some({"Dot"}, -1)}
          [] t = "Tray" -> {Some({"Box", "Tray", "Dot"}, 2)}]

MCOutgoing == [t \in {"Box", "Tray", "Dot"} |-> IF t = "Dot" THEN {Some({"Edge"}, 1)} ELSE {}]
MCIncoming == [t \in {"Box", "Tray", "Dot"} |-> IF t = "Box" THEN {} ELSE {Some({"Edge"}, -1)}]

(* A box with a tray and two dots that are connected. *)
Plain ==
    [contains |-> [h \in {root, box, tray} |->
        CASE h = root -> <<box>>
          [] h = box -> <<tray, dot1>>
          [] h = tray -> <<dot2>>],
     edges |-> {edge1},
     src |-> [e \in MCEdges |-> IF e = edge1 THEN {dot1} ELSE {}],
     tgt |-> [e \in MCEdges |-> IF e = edge1 THEN {dot2} ELSE {}],
     ghosts |-> {}]

(* A merged model: the target of edge1 is undecided, and one side deleted   *)
(* dot2 and edge2.                                                          *)
Merged ==
    [Plain EXCEPT !.edges = {edge1, edge2},
                  !.src[edge2] = {dot2},
                  !.tgt = [e \in MCEdges |-> IF e = edge1 THEN {dot2, tray} ELSE {dot1}],
                  !.ghosts = {<<tray, dot2>>, <<root, edge2>>}]

MCInitialGraphs == {Plain, Merged}

MCSelections ==
    {<<x>> : x \in MCContainers \union MCLeaves \union MCEdges}
        \union {<<box, dot1>>, <<dot1, dot2>>, <<dot2, edge1>>, <<edge1, dot1>>}

=============================================================================
