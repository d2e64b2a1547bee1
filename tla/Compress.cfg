SPECIFICATION Spec
CONSTANTS
  CommandLines <- SomeLines
  Occupied <- SomeDisks
  Renames = 3
  Contested = {0, 1}
  Input = 2
  Held = 2
  Spaces = {0, 1, 2, 5}
INVARIANTS
  TypeOK
  PriorFilesSurvive
  SuccessIsWhole
  PartialIsTold
