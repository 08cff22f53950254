SPECIFICATION LiveSpec
CONSTANTS
  Callers = {a, b}
  Children = {x, y, z}
  MayFailToStart = {x}
  MayFailToStop = {x}
  WaitBeside = {}
  MaxActivations = 2
INVARIANTS
  ChildrenFollow
PROPERTIES
  StackOrder
  NobodyStuck
  Implements
