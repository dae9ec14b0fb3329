CONSTANTS
  Sources = {1, 2}
  Setups <- LiveSetups
  Mixer = Mixer
  Control = Control
  Free = Free
  Parts = {"mix", "ring", "shared", "pipe", "control"}
  t = t
  u = u
  isr = isr
  RbBufs = {1, 2, 3}
  RbShared = 1
  RbUses <- MCRbUses
  RbLen = 3
  RbCounts = {1, 3}
  RbBytes = 2
  RbWild = 99
  owner = owner
  PipeOwners = {owner}
  PipeUsers = {t, u}
  PipeIrq = isr
  PipeSizes = {1, 2}
  PipeRoom = 1
  PipeUnits = 2
  PipeOpens = 1
  PipeFree = PipeFree
  music = music
  voice = voice
  AcControl = AcControl
  AcReserve = {"a"}
  AcSetups <- MCAcSetups
SPECIFICATION MCSpec
INVARIANTS RbQueues PipeServes AcServes
PROPERTIES WriteReturned MixerEnds
