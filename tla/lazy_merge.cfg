CONSTANTS
  box1 = box1
  box2 = box2
  dot1 = dot1
  dot2 = dot2
  dot3 = dot3
  edge1 = edge1
  Boxes = {box1, box2}
  Dots = {dot1, dot2, dot3}
  Edges = {edge1}
  Values = {0, 1, 2}
  Undecided = Undecided
  FailOnLazy = FALSE
  InitialModels <- MCInitialModels
  MaxEdits = 3
SPECIFICATION MergeSpec
INVARIANTS MergeTypeOK MergeIsSymmetric ConflictsAreReported AgreedElementsSurvive EndsAreLostToOpposedChoicesOnly
CHECK_DEADLOCK FALSE
