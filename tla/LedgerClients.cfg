SPECIFICATION Spec
CONSTANTS
  Runs = {r1}
  Voices = {v1}
  Clicks = {p1, p2}
  Details <- MCDetails
INVARIANT StepsInOrder
PROPERTY WriteOffStands
PROPERTY UnracedToolDoesItsOwn
SYMMETRY ClickSymmetry
