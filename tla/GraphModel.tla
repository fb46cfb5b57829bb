------------------------------ MODULE GraphModel ------------------------------
(***************************************************************************)
(* The graph model a session edits, its index, and the operation handlers  *)
(* that run to their end in one turn of the event loop.                    *)
(*                                                                         *)
(* `graph' is the object tree of the model state and `index' the maps that *)
(* GraphModelIndex keeps beside it.  After a command the model is submitted*)
(* to the client, and the submission rebuilds the index: an operation here *)
(* ends with Reindex.  The end of an edge is the set of its options: a     *)
(* plain id is a singleton, any other set is a conflict (Choice) that a    *)
(* merge left behind.  A ghost is an entry that a merge marked as deleted  *)
(* on one side: <<h, n>> for the entry of n in holder h.                   *)
(***************************************************************************)
EXTENDS Integers, Sequences, FiniteSets, SequencesExt

CONSTANTS
    Root,           \* the graph model itself
    Containers,     \* the nodes that can hold nodes
    Leaves,         \* the other nodes
    Edges,
    None,           \* no holder
    TypeOf,         \* the type of a node, an edge or the root
    Containments,   \* of a container's type: its set of constraints
    Outgoing,       \* of a node's type: the constraints on its outgoing edges
    Incoming,       \* of a node's type: the constraints on its incoming edges
    DisabledDelete, \* the types annotated with @disable(delete)
    InitialGraphs,  \* the models in the files that are opened
    Patience        \* no deletion takes more steps to its end or its last removal

Nodes == Containers \union Leaves
Holders == Containers \union {Root}
NodesOf(s) == ToSet(s)

ASSUME ConstantsAreDisjoint ==
    /\ Containers \cap Leaves = {}
    /\ Nodes \cap Edges = {}
    /\ Root \notin Nodes \union Edges
    /\ None \notin Holders

Graphs ==
    [contains : [Holders -> Seq(Nodes)], edges : SUBSET Edges,
     src : [Edges -> SUBSET Nodes], tgt : [Edges -> SUBSET Nodes],
     ghosts : SUBSET (Holders \X (Nodes \union Edges))]

ASSUME MetamodelAssumption ==
    /\ IsFiniteSet(Nodes) /\ IsFiniteSet(Edges)
    /\ \A n \in Nodes : \A c \in Outgoing[TypeOf[n]] \union Incoming[TypeOf[n]] : c.upper \in Int

ASSUME PatienceAssumption == Patience \in Nat

ASSUME InitialGraphsAssumption == InitialGraphs \subseteq Graphs

(* A tree has every node once.                                              *)
OneEntryEach(g) ==
    \A h, k \in Holders : \A i \in DOMAIN g.contains[h], j \in DOMAIN g.contains[k] :
        g.contains[h][i] = g.contains[k][j] => h = k /\ i = j

(* The models in the files are trees.                                       *)
ASSUME FilesAreTrees == \A g \in InitialGraphs : OneEntryEach(g)

VARIABLES
    graph,          \* [contains, edges, src, tgt, ghosts]
    index           \* [parent, edges]: reverseContainerIndex/nodesIndex, edgesIndex

graphVars == <<graph, index>>

GraphTypeOK ==
    /\ graph \in Graphs
    /\ index \in [parent : [Nodes -> Holders \union {None}], edges : SUBSET Edges]

-----------------------------------------------------------------------------
(* The index. *)

Depth == Cardinality(Containers) + 1

(* The order in which reverseIndexContainers meets the entries of g: each   *)
(* entry, and after it the entries below it.  A container that lies below   *)
(* itself is walked Depth times here; the code never returns (Walkable).    *)
Visits(g) ==
    LET walk[d \in 0 .. Depth] ==
            [h \in Holders |->
                IF d = 0 THEN <<>>
                ELSE FlattenSeq([i \in DOMAIN g.contains[h] |->
                        LET n == g.contains[h][i]
                        IN  << <<n, h>> >> \o (IF n \in Containers THEN walk[d - 1][n] ELSE <<>>)])]
    IN  walk[Depth][Root]

(* A later visit of the same node overwrites the holder of an earlier one.  *)
indexGraphModel(g) ==
    LET v == Visits(g)
        last(n) == SelectLastInSeq(v, LAMBDA e : e[1] = n)
    IN  [parent |-> [n \in Nodes |-> IF last(n) = 0 THEN None ELSE v[last(n)][2]],
         edges  |-> g.edges]

Reindex == index' = indexGraphModel(graph')

LiveNodes(g) == {e[1] : e \in NodesOf(Visits(g))}

(* What lies below h: it is in every set that has the entries of h and,     *)
(* with a container, the entries of that.                                   *)
Below(g, h) ==
    {n \in Nodes : \A S \in SUBSET Nodes :
        (\A k \in (S \union {h}) \intersect Holders : ToSet(g.contains[k]) \subseteq S) => n \in S}

(* No container of the model lies below itself.  What walks over the model  *)
(* has no other guard: the getters of the model state, the index and the    *)
(* creation of the client's model recurse until the stack overflows.        *)
Walkable(g) == \A c \in LiveNodes(g) \intersect Containers : c \notin Below(g, c)

findNode(n) == index.parent[n] # None

findContainer(h) == h \in {Root} \union {n \in Containers : findNode(n)}

-----------------------------------------------------------------------------
(* The constraints of the metamodel: [elements |-> types, upper |-> bound].  *)
(* What is counted against them comes as a function from things to types.   *)

Captured(type, constraints) == {c \in constraints : type \in c.elements}

(* Mutant: the bound may be passed by one.                                  *)
IsMetTooLate(c, types) ==
    /\ c.upper >= 0
    /\ c.upper < Cardinality({x \in DOMAIN types : types[x] \in c.elements})

(* A negative bound is the wildcard; any other is met by that many of the   *)
(* captured types.                                                          *)
IsMet(c, types) ==
    /\ c.upper >= 0
    /\ c.upper <= Cardinality({x \in DOMAIN types : types[x] \in c.elements})

(* A type that no constraint captures violates them all.                    *)
checkViolations(type, types, constraints) ==
    IF Captured(type, constraints) = {} THEN constraints
    ELSE {c \in Captured(type, constraints) : IsMet(c, types)}

containedTypes(g, h) == [i \in DOMAIN g.contains[h] |-> TypeOf[g.contains[h][i]]]

canContain(h, type) ==
    checkViolations(type, containedTypes(graph, h), Containments[TypeOf[h]]) = {}

outgoingEdges(n) == {e \in index.edges : n \in graph.src[e]}
incomingEdges(n) == {e \in index.edges : n \in graph.tgt[e]}

(* No constraint at all: no edge.  Only the edges that pass the caller's    *)
(* filter are counted.                                                      *)
CanConnect(type, counted, constraints) ==
    /\ constraints # {}
    /\ checkViolations(type, [e \in counted |-> TypeOf[e]], constraints) = {}

canBeEdgeSource(n, type, filter) ==
    CanConnect(type, outgoingEdges(n) \intersect filter, Outgoing[TypeOf[n]])

canBeEdgeTarget(n, type, filter) ==
    CanConnect(type, incomingEdges(n) \intersect filter, Incoming[TypeOf[n]])

-----------------------------------------------------------------------------
(* Creation.  A new element has a fresh id.                                 *)

Unused(n) ==
    /\ \A h \in Holders : n \notin ToSet(graph.contains[h])
    /\ \A e \in graph.edges : n \notin graph.src[e] \union graph.tgt[e]

(* Mutant: the container is pushed instead of the new node.                 *)
CreateNodePushesContainer(h, n) ==
    /\ findContainer(h)
    /\ Unused(n) /\ n # h
    /\ canContain(h, TypeOf[n])
    /\ graph' = [graph EXCEPT !.contains[h] = Append(@, h)]
    /\ UNCHANGED index

CreateNode(h, n) ==
    /\ findContainer(h)
    /\ Unused(n) /\ n # h
    /\ canContain(h, TypeOf[n])
    /\ graph' = [graph EXCEPT !.contains[h] = Append(@, n)]
    /\ Reindex

CreateEdge(e, s, t) ==
    /\ e \notin graph.edges
    /\ findNode(s) /\ findNode(t)
    /\ canBeEdgeSource(s, TypeOf[e], Edges)
    /\ canBeEdgeTarget(t, TypeOf[e], Edges)
    /\ graph' = [graph EXCEPT !.edges = @ \union {e}, !.src[e] = {s}, !.tgt[e] = {t}]
    /\ Reindex

-----------------------------------------------------------------------------
(* Deletion. *)

(* Mutant: the list of the holder is cleared.                               *)
RemoveAllEntries(g, h, n) ==
    [g EXCEPT !.contains[h] = <<>>, !.ghosts = @ \ {<<h, n>>}]

(* remove(container.containments, containment)                              *)
RemoveEntry(g, h, n) ==
    [g EXCEPT !.contains[h] = RemoveFirst(@, n), !.ghosts = @ \ {<<h, n>>}]

(* Mutants: only the sources are looked at; and ids are filtered like       *)
(* options instead of removing the edge.                                    *)
RemoveOutgoingEdges(g, n) == [g EXCEPT !.edges = {e \in @ : g.src[e] # {n}}]

FilterAllEnds(g, n) ==
    [g EXCEPT !.src = [e \in Edges |-> @[e] \ {n}], !.tgt = [e \in Edges |-> @[e] \ {n}]]

(* The edges of a removed node: an edge whose end is the node goes with it; *)
(* of an edge in conflict the node is dropped from the options of the       *)
(* source or else of the target, never of both.                             *)
RemoveAssociatedEdges(g, n) ==
    LET toDelete == {e \in g.edges : g.src[e] = {n} \/ g.tgt[e] = {n}}
        rest == g.edges \ toDelete
    IN  [g EXCEPT
            !.edges = rest,
            !.src = [e \in Edges |-> IF e \in rest THEN @[e] \ {n} ELSE @[e]],
            !.tgt = [e \in Edges |-> IF e \in rest /\ n \notin g.src[e] THEN @[e] \ {n} ELSE @[e]],
            !.ghosts = @ \ {<<Root, e>> : e \in toDelete}]

(* One step of the loops of deleteNode that are at work, the innermost      *)
(* last: <<node, holder>> is the entry to remove, visited counts the places *)
(* its loop has passed in the list of children.  Each child is removed from *)
(* that list when its own loop is done, so the next one moves up and is     *)
(* passed over.                                                             *)
DeletionStep(r) ==
    LET loop == Last(r.loops)
        n == loop.entry[1]
    IN  IF r.loops = <<>> THEN r
        ELSE IF n \in Containers /\ loop.visited < Len(r.g.contains[n])
        THEN [r EXCEPT !.loops = Front(@) \o
                << [loop EXCEPT !.visited = @ + 1],
                   [entry |-> <<r.g.contains[n][loop.visited + 1], n>>, visited |-> 0] >>]
        ELSE [g |-> RemoveEntry(RemoveAssociatedEdges(r.g, n), loop.entry[2], n),
              loops |-> Front(r.loops)]

(* The model and the loops that are left when the stack has overflowed: none*)
(* but for a container that lies below itself, and not always then.         *)
deleteNode(g, h, n) ==
    LET run[k \in 0 .. Patience] ==
            IF k = 0 THEN [g |-> g, loops |-> << [entry |-> <<n, h>>, visited |-> 0] >>]
            ELSE DeletionStep(run[k - 1])
    IN  run[Patience]

(* One id of the operation; acc.threw ends the operation.  The answer of    *)
(* the CAN_DELETE hook of x does not matter: dispatchHook drops it.         *)
deleteElementById(acc, x) ==
    LET g == acc.g
        h == index.parent[x]
    IN  IF acc.threw \/ TypeOf[x] \in DisabledDelete THEN acc
        ELSE IF x \in Edges
             THEN IF x \in index.edges
                  THEN [acc EXCEPT !.g.edges = @ \ {x}, !.g.ghosts = @ \ {<<Root, x>>}]
                  ELSE acc
        ELSE IF h = None THEN acc
        ELSE IF x \in ToSet(g.contains[h])
             THEN LET r == deleteNode(g, h, x)
                  IN  [acc EXCEPT !.g = r.g, !.threw = r.loops # <<>>]
        ELSE [acc EXCEPT !.threw = g.edges # {}]

(* What is no longer reachable from the root or its list of edges is gone.  *)
Collected(g) ==
    LET live == LiveNodes(g)
    IN  [g EXCEPT
            !.contains = [h \in Holders |-> IF h \in live \union {Root} THEN @[h] ELSE <<>>],
            !.src = [e \in Edges |-> IF e \in g.edges THEN @[e] ELSE {}],
            !.tgt = [e \in Edges |-> IF e \in g.edges THEN @[e] ELSE {}],
            !.ghosts = {x \in @ : x[1] \in live \union {Root}}]

Delete(ids) ==
    /\ graph' = Collected(FoldLeft(deleteElementById, [g |-> graph, threw |-> FALSE], ids).g)
    /\ Reindex

-----------------------------------------------------------------------------
(* Reconnection, moves and conflict resolution. *)

(* An edge in conflict is drawn as segments with ids of their own, so it    *)
(* cannot be reconnected.                                                   *)
InConflict(g, e) ==
    \/ <<Root, e>> \in g.ghosts
    \/ Cardinality(g.src[e]) # 1
    \/ Cardinality(g.tgt[e]) # 1

(* The handler passes the filter `_ => false': no edge is counted.          *)
Reconnect(e, s, t) ==
    /\ e \in index.edges /\ ~InConflict(graph, e)
    /\ findNode(s) /\ findNode(t)
    /\ canBeEdgeSource(s, TypeOf[e], {})
    /\ canBeEdgeTarget(t, TypeOf[e], {})
    /\ graph' = [graph EXCEPT !.src[e] = {s}, !.tgt[e] = {t}]
    /\ Reindex

(* containments.filter(c => c.id !== n.id)                                  *)
Without(s, n) == FoldLeft(LAMBDA kept, m : IF m = n THEN kept ELSE Append(kept, m), <<>>, s)

(* Mutants: the node is not taken from its holder; it is not put into the   *)
(* new one.                                                                 *)
changeContainerCopies(n, t) ==
    IF findContainer(t) THEN [graph EXCEPT !.contains[t] = Append(@, n)] ELSE graph

changeContainerDrops(n, t) ==
    [graph EXCEPT !.contains[index.parent[n]] = Without(@, n)]

(* changeContainer: the entry is removed from the holder the index knows    *)
(* and put into the new one without asking canContain; a ghost is an entry  *)
(* of its own, so the moved element is no ghost.                            *)
changeContainer(n, t) ==
    LET old == index.parent[n]
        removed == [graph.contains EXCEPT ![old] = Without(@, n)]
    IN  IF findContainer(t)
        THEN [graph EXCEPT !.contains = [removed EXCEPT ![t] = Append(@, n)],
                           !.ghosts = @ \ {<<old, n>>}]
        ELSE graph

(* What the client's tool lets through: a container other than the one it   *)
(* shows around the node (by the last submission or a later update), whose  *)
(* constraints mention the type; how many it holds the client may not know. *)
MayBeDropped(n, t) ==
    /\ n # t
    /\ t # index.parent[n] \/ n \notin ToSet(graph.contains[t])
    /\ Captured(TypeOf[n], Containments[TypeOf[t]]) # {}

(* ChangeContainer when the lock is free: the submission follows the move.  *)
Move(n, t) ==
    /\ findNode(n) /\ MayBeDropped(n, t)
    /\ graph' = changeContainer(n, t)
    /\ Reindex

Restore(x) ==
    /\ IF x \in Edges
       THEN /\ x \in index.edges
            /\ graph' = [graph EXCEPT !.ghosts = @ \ {<<Root, x>>}]
       ELSE /\ findNode(x)
            /\ graph' = [graph EXCEPT !.ghosts = @ \ {<<index.parent[x], x>>}]
    /\ Reindex

ChooseSource(e, s) ==
    /\ e \in index.edges /\ s \in graph.src[e]
    /\ graph' = [graph EXCEPT !.src[e] = {s}]
    /\ Reindex

ChooseTarget(e, t) ==
    /\ e \in index.edges /\ t \in graph.tgt[e]
    /\ graph' = [graph EXCEPT !.tgt[e] = {t}]
    /\ Reindex

-----------------------------------------------------------------------------
CONSTANT Selections     \* the id lists of a delete operation

ASSUME SelectionsAssumption == Selections \subseteq Seq(Nodes \union Edges)

GraphInit ==
    /\ graph \in InitialGraphs
    /\ index = indexGraphModel(graph)

Creation ==
    \/ \E h \in Holders, n \in Nodes : CreateNode(h, n)
    \/ \E e \in Edges, s, t \in Nodes : CreateEdge(e, s, t)

Deletion == \E ids \in Selections : Delete(ids)

ConflictResolution ==
    \/ \E x \in Nodes \union Edges : Restore(x)
    \/ \E e \in Edges, n \in Nodes : ChooseSource(e, n) \/ ChooseTarget(e, n)

Reconnection == \E e \in Edges, s, t \in Nodes : Reconnect(e, s, t)

GraphNext ==
    \/ Creation
    \/ Deletion
    \/ ConflictResolution
    \/ Reconnection
    \/ \E n \in Nodes, t \in Holders : Move(n, t)

GraphSpec == GraphInit /\ [][GraphNext]_graphVars

-----------------------------------------------------------------------------
(* The node n and the holders around it. *)
Ancestry(n) == {n} \union {h \in Holders : n \in Below(graph, h)}

(* The index agrees with the tree: it knows exactly the nodes and edges     *)
(* that are in the model, each under a holder that has an entry for it.     *)
IndexAgrees ==
    /\ index.edges = graph.edges
    /\ \A n \in Nodes : findNode(n) <=> n \in LiveNodes(graph)
    /\ \A n \in Nodes : findNode(n) => n \in ToSet(graph.contains[index.parent[n]])

(* No node has two entries in the model: the assertion 'Duplicate ID in     *)
(* model' of GraphModelIndex never fires on the submitted model.            *)
NoDuplicateId ==
    \A i, j \in DOMAIN Visits(graph) : Visits(graph)[i][1] = Visits(graph)[j][1] => i = j

(* The constraint c of node n on its outgoing or incoming edges is exceeded.*)
Exceeded(c, edges) == c.upper >= 0 /\ Cardinality({e \in edges : TypeOf[e] \in c.elements}) > c.upper

SourceExceeded(g, n) == \E c \in Outgoing[TypeOf[n]] : Exceeded(c, {e \in g.edges : n \in g.src[e]})
TargetExceeded(g, n) == \E c \in Incoming[TypeOf[n]] : Exceeded(c, {e \in g.edges : n \in g.tgt[e]})

(* Creating an edge never pushes a node over the bound of one of its        *)
(* constraints (the checkViolations of canBeEdgeSource/canBeEdgeTarget on   *)
(* the indexed edges decides about the edges of the model).                 *)
CreationKeepsBounds ==
    [][Creation => \A n \in Nodes :
          /\ SourceExceeded(graph', n) => SourceExceeded(graph, n)
          /\ TargetExceeded(graph', n) => TargetExceeded(graph, n)]_graphVars

(* An edge without a conflict whose end was deleted as a leaf of the tree   *)
(* goes in the same operation, whichever ids it listed in which order.      *)
DeletedLeavesTakeTheirEdges ==
    [][Deletion => \A e \in graph'.edges : \A n \in Leaves :
          /\ ~InConflict(graph, e)
          /\ findNode(n) /\ index.parent'[n] = None
          /\ \A c \in Containers : findNode(c) => index.parent'[c] # None
          => n \notin graph'.src[e] \union graph'.tgt[e]]_graphVars

(* A node leaves the model only by a delete that names it or a container    *)
(* around it, or because it or a container around it is moved to where the  *)
(* moved container itself is around: the handler of a move does not look    *)
(* for that.  A delete takes nothing outside of the subtrees its ids name,  *)
(* although it skips some of the nodes inside.                              *)
DeletionScope ==
    [][\A n \in Nodes : findNode(n) /\ index.parent'[n] = None =>
          \/ \E ids \in Selections : Delete(ids) /\ ToSet(ids) \cap Ancestry(n) # {}
          \/ \E c \in Ancestry(n) \intersect Nodes, t \in Holders : Move(c, t) /\ c \in Ancestry(t)]_graphVars

(* Resolving conflicts never makes one: outside of the options a deletion   *)
(* filters, an element that is free of conflicts stays so.                  *)
NoNewConflict ==
    [][\A e \in graph.edges \intersect graph'.edges :
          InConflict(graph', e) => InConflict(graph, e)]_graphVars

=============================================================================
