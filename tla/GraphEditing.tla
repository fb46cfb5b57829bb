----------------------------- MODULE GraphEditing -----------------------------
(***************************************************************************)
(* The operation handlers of one session on one graph model: those that    *)
(* run in one turn (GraphModel) between those that wait for the lock of    *)
(* the model first (ModelActionLock), the moves into another container.    *)
(*                                                                         *)
(* The command of a move does not wait for the handler's promise.  If the  *)
(* lock is free, the handler's body runs before the model is submitted and *)
(* the submission rebuilds the index after it.  If the lock is held, the   *)
(* submission comes first, and the body changes the model later with no    *)
(* submission behind it: the index keeps the old holder of the node.       *)
(***************************************************************************)
EXTENDS GraphModel, ModelActionLock

VARIABLES
    move,           \* of an operation: the node and where it goes, until its body ran
    late            \* the operations that had to wait for the lock

editVars == <<graphVars, lockVars, move, late>>

Moves == [node : Nodes, target : Holders]

EditInit ==
    /\ GraphInit
    /\ LockInit
    /\ move = [p \in Ops |-> None]
    /\ late = {}

-----------------------------------------------------------------------------
(* The command of an operation takes the model by its getters before and    *)
(* after it runs the handler, and so fails on a model it cannot walk over.  *)

(* The client drops node n into t.                                          *)
RequestMove(p, n, t) ==
    /\ Walkable(graph)
    /\ findNode(n) /\ MayBeDropped(n, t)
    /\ Request(p)
    /\ move' = [move EXCEPT ![p] = [node |-> n, target |-> t]]
    /\ UNCHANGED <<graph, late>>
    /\ IF held THEN Reindex ELSE UNCHANGED index

ResumeMove(p) ==
    /\ Resume(p)
    /\ late' = late \union {p}
    /\ UNCHANGED <<graphVars, move>>

(* changeContainer, once the lock was granted; what throws in it comes after *)
(* the change of the model.  The update of the client throws if the move    *)
(* put a container below itself, and the submission is not reached then.    *)
MoveBody(p) ==
    /\ IsNext("body", p)
    /\ findNode(move[p].node)
    /\ graph' = changeContainer(move[p].node, move[p].target)
    /\ (BodySaves(p) /\ Walkable(graph')) \/ BodyThrows(p)
    /\ IF p \in late \/ ~Walkable(graph') THEN UNCHANGED index ELSE Reindex
    /\ move' = [move EXCEPT ![p] = None]
    /\ UNCHANGED late

(* The node was deleted while the operation waited.                         *)
MoveOfMissing(p) ==
    /\ BodyReturns(p)
    /\ ~findNode(move[p].node)
    /\ move' = [move EXCEPT ![p] = None]
    /\ UNCHANGED <<graphVars, late>>

LockStep(p) ==
    /\ ResumeGhost(p) \/ SaveDone(p) \/ SaveFails(p) \/ Unlock(p)
    /\ UNCHANGED <<graphVars, move, late>>

(* An operation that needs no lock and its submission.                      *)
Edit ==
    /\ Walkable(graph)
    /\ Creation \/ Deletion \/ ConflictResolution \/ Reconnection
    /\ UNCHANGED <<lockVars, move, late>>

(* No operation gets as far as its handler any more.                        *)
CommandFails == ~Walkable(graph) /\ UNCHANGED editVars

EditNext ==
    \/ \E p \in Ops, n \in Nodes, t \in Holders : RequestMove(p, n, t)
    \/ \E p \in Ops : ResumeMove(p) \/ MoveBody(p) \/ MoveOfMissing(p) \/ LockStep(p)
    \/ Edit \/ CommandFails

EditSpec == EditInit /\ [][EditNext]_editVars

-----------------------------------------------------------------------------
(* However stale its holders are, the index knows every node and the edges  *)
(* of the model: no handler misses one that is there.  A node it knows that *)
(* is not in the model any more lies below a container that lies below      *)
(* itself: only moves into each other take nodes out behind its back.       *)
IndexKnowsTheModel ==
    /\ index.edges = graph.edges
    /\ \A n \in LiveNodes(graph) : findNode(n)
    /\ \A n \in Nodes \ LiveNodes(graph) : findNode(n) =>
          \E c \in Containers : findNode(c) /\ {c, n} \subseteq Below(graph, c)

(* Only an operation that had to wait for the lock leaves a stale holder    *)
(* behind: as long as none had to, the index agrees with the tree and every *)
(* node has one entry.                                                      *)
ExactWithoutContention ==
    late = {} => IndexAgrees /\ NoDuplicateId

(* However stale the holder is that it takes the node from, a move costs    *)
(* the model the moved node and what is inside it at most; and nothing, if  *)
(* what it moves to is in the model by then and not inside the moved node.  *)
MoveKeepsNodes ==
    [][\A p \in Ops : MoveBody(p) =>
          LET n == move[p].node
              t == move[p].target
              moved == {n} \union Below(graph, n)
          IN  /\ LiveNodes(graph) \ LiveNodes(graph') \subseteq moved
              /\ t \in (LiveNodes(graph) \union {Root}) \ moved =>
                    LiveNodes(graph) \subseteq LiveNodes(graph')]_editVars

=============================================================================
