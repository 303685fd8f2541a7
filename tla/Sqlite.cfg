SPECIFICATION Spec
CONSTANTS
  MaxPages = 3
  Val = {v1, v2}
  Dir = {Home, Away}
  Home = Home
  Relative = FALSE
  UnlinkFails = FALSE
INVARIANT Atomic
