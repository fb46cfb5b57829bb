CONSTANTS
  root = root
  box = box
  tray = tray
  dot1 = dot1
  dot2 = dot2
  edge1 = edge1
  edge2 = edge2
  Root = root
  None = none
  Containers <- MCContainers
  Leaves <- MCLeaves
  Edges <- MCEdges
  TypeOf <- MCTypeOf
  Containments <- MCContainments
  Outgoing <- MCOutgoing
  Incoming <- MCIncoming
  DisabledDelete = {"Tray"}
  InitialGraphs <- MCInitialGraphs
  Patience = 24
  Selections <- MCSelections
SPECIFICATION GraphSpec
INVARIANTS GraphTypeOK NoDuplicateId
PROPERTIES CreationKeepsBounds DeletedLeavesTakeTheirEdges DeletionScope NoNewConflict
