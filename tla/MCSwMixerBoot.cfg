CONSTANTS
  Sources = {1, 2}
  Setups <- BootSetups
  Mixer = Mixer
  Control = Control
  Free = Free
SPECIFICATION Spec
INVARIANTS LaunchNotLost
