CONSTANTS
  l1 = l1
  Locks = {l1}
  Periods = {1}
  QueueLen = 3
  TickMod = 20
  MaxTick = 5
  Calls = {"lock", "timeout", "unlock"}
  Callers = {"task"}
  Others = FALSE
  Forever = Forever
  None = None
  Looking = Looking
SPECIFICATION Spec
CONSTRAINT NoneBetween
CHECK_DEADLOCK FALSE
INVARIANTS HeldWhilePromised
