CONSTANTS
  Parts = {"time"}
  Rings = {1, 2}
  Byte <- MCBytes
  Zero = 0
  Value = 4
  Chunks <- MCChunks
  Counts = {1, 3}
  Setups <- MCSetups
  Refused = Refused
  Spare = 1
  Behind = 2
  Ahead = 12
  LogBufLen = 6
  LogDramLen = 5
  LogMaxQueue = 1
  LogLengths = {2, 3}
  LogSkips = {0, 1}
  LogTimerLen = 2
  LogBytes = 11
  x = x
  y = y
  DmaTasks = {x, y}
  DmaSize = 6
  DmaAlign = 2
  DmaFrame = 1
  DmaCounts = {1, 3}
  DmaQueueLen = 2
  DmaMessages = 5
  DmaNobody = DmaNobody
  AuSetups <- MCAuSetups
  AuTimes = 30
  t = t
  u = u
  isr = isr
  TimeTasks = {t, u}
  TimeIsr = isr
  TimeCounts = 2
  TimeBases = 3
  TimeWord = 64
  v = v
  w = w
  near = near
  far = far
  ZcpyIds = {1, 2}
  ZcpySize <- MCZcpySize
  ZcpyHandled = {2}
  ZcpyBufs = {v, w}
  ZcpyCores = {near, far}
  ZcpyBits = {1, 2}
  ZcpyNull = ZcpyNull
  l = l
  V1Send = {1, 2}
  V1Answered = {1, 3}
  V1Recv = {3, 4}
  V1Senders = {x, y}
  V1Listener <- MCV1Listener
  V1Messages = 3
  V1Free = V1Free
  GdmaChannels = {0, 1}
  GdmaReserved = {}
  GdmaAsks <- MCGdmaAsks
  GdmaAny = GdmaAny
  GdmaNobody = GdmaNobody
  GdmaBlock = 4
SPECIFICATION MCSpec
CHECK_DEADLOCK FALSE
INVARIANT TimeAligned
