CONSTANTS
  root = root
  box1 = box1
  box2 = box2
  box3 = box3
  edge1 = edge1
  Ops = {p1, p2, p3}
  Root = root
  None = none
  Containers <- MCContainers
  Leaves <- MCLeaves
  Edges <- MCEdges
  TypeOf <- MCTypeOf
  Containments <- MCContainments
  Outgoing <- MCOutgoing
  Incoming <- MCIncoming
  DisabledDelete = {}
  InitialGraphs <- MCInitialGraphs
  Patience = 24
  Selections <- MCSelections
SYMMETRY OpsSymmetry
SPECIFICATION EditSpec
INVARIANTS IndexKnowsTheModel ExactWithoutContention
PROPERTIES MoveKeepsNodes
