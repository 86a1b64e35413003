\* A curated translation, switched off and synchronised.
CONSTANTS
  r1 = r1
  h1 = h1
  NoValue = NoValue
  List = {"translations"}
  Asked = {"translations"}
  Resource = {r1}
  Curated = {r1}
  Editor = {h1}
  MaxEdits = 2
SPECIFICATION Spec
INVARIANTS
  TogglesPreserved
