CONSTANTS
  Sources = {1, 2}
  Setups <- SafetySetups
  Mixer = Mixer
  Control = Control
  Free = Free
SPECIFICATION Spec
INVARIANTS DoneIsWritten EnoughIsEnough FreedUnused NotLeftAsleep
