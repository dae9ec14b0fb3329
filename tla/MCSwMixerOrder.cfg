CONSTANTS
  Sources = {1, 2}
  Setups <- OrderSetups
  Mixer = Mixer
  Control = Control
  Free = Free
SPECIFICATION Spec
INVARIANTS InOrder
