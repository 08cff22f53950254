SPECIFICATION Spec
CONSTANTS
  N = 2
  Objects = {o1}
INVARIANTS
  FreedAfterAllReleased
