CONSTANTS
  MaxAtoms = 4
  Shapes = {"github_token", "jwt"}
  Lines <- SomeLines
SPECIFICATION Spec
INVARIANTS
  TypeOK
  CountedByShape
  SecondPassTouchesUrlsOnly
