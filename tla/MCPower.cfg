CONSTANTS
  Parts = {"wakelock", "clock", "power", "pins", "irq"}
  l1 = l1
  Locks = {l1}
  Periods = {1, 2}
  QueueLen = 2
  TickMod = 3
  MaxTick = 4
  Calls = {"lock", "timeout", "unlock", "deinit"}
  Callers = {"task", "isr"}
  Others = TRUE
  Forever = Forever
  None = None
  Looking = Looking
  taskP = taskP
  taskQ = taskQ
  taskB = taskB
  ClkTasks = {taskP, taskQ, taskB}
  ClkHolders = {taskP, taskQ, taskB, pdDriver}
  pdDriver = pdDriver
  PdDriver = pdDriver
  Clks = {"xtal", "pll", "mux", "gate", "vote", "pdck"}
  ClkParents <- MCParents
  ClkHc <- MCHc
  ClkPdck <- MCPdck
  ClkOps <- MCOps
  ClkAlwaysOn = {}
  ClkBootOn = {"gate"}
  ClkUses <- MCClkUses
  ClkSwitches <- MCClkSwitches
  ClkFree = ClkFree
  PdTasks = {taskP, taskQ}
  Pds = {"top", "sub", "boot"}
  PdMasters <- MCMasters
  PdClk <- MCPdClk
  PdSubClk <- MCPdSubClk
  PdBootOn = {"boot"}
  PdTimeouts = {"top"}
  PdUses <- MCPdUses
  PdMaxEnable <- MCMaxEnable
  PdFree = PdFree
  Pins = {1, 2}
  EintDrivers <- MCDrivers
  Irqs = {4, 9}
  IrqGroup <- MCIrqGroup
  IrqCallers <- MCIrqCallers
  IrqMaxCalls = 5
SPECIFICATION MCSpec
CHECK_DEADLOCK FALSE
INVARIANTS HeldWhenSettled TimedArmed Powered EintAsWanted IrqOnePlace
PROPERTY ExpiryReleases
