CONSTANTS
  Parts = {"lock", "scmi"}
  taskA = taskA
  taskB = taskB
  taskC = taskC
  Tasks = {taskA, taskB, taskC}
  Uses <- UsesAll
  Free = Free
  ScmiChannels = {1, 2}
  ScmiFeatures = {"f"}
  ScmiAsks <- MCAsks
  Isr = Isr
SPECIFICATION MCSpec
INVARIANTS Exclusive CountIsWaiters SignalKept ScmiMine
PROPERTIES Unstarved ScmiAnswered
