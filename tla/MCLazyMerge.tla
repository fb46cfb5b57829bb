----------------------------- MODULE MCLazyMerge -----------------------------
(***************************************************************************)
(* Two boxes with three dots and an edge, before any merge, and a model    *)
(* that a merge of the same boxes left: the target of the edge is open, and*)
(* dot3 was deleted on one side while the other side changed it.           *)
(***************************************************************************)
EXTENDS LazyMerge

CONSTANTS box1, box2, dot1, dot2, dot3, edge1

Plain ==
    [boxes |-> [h \in Boxes |-> Live([d \in Dots |->
        IF h = (IF d = dot1 THEN box1 ELSE box2)
        THEN Live([position |-> 0, attributes |-> 0]) ELSE Absent])],
     edges |-> [e \in Edges |-> IF e = edge1 THEN Live([src |-> {dot1}, tgt |-> {dot2}]) ELSE Absent]]

Merged ==
    [Plain EXCEPT !.boxes[box2].value[dot3].tag = "ghost",
                  !.edges[edge1].value.tgt = {dot2, dot3}]

MCInitialModels == {Plain, Merged}

=============================================================================
