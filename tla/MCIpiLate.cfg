CONSTANTS
  a = a
  b = b
  c = c
  x = x
  y = y
  z = z
  Uses <- UsesSend
  Tasks = {a, b}
  Ids = {x, y, z}
  SendPins = {x, z}
  RecvPins = {x}
  MessagePins = {}
  IrqPins = {}
  Boot = {x}
  Retries = {0}
  AckTimeout = TRUE
  TooLong = FALSE
  QueueMode = FALSE
  MaxSend = 2
  MaxRemote = 0
  Free = Free
  None = None
SPECIFICATION Spec
INVARIANT AnswerIsMine
CHECK_DEADLOCK FALSE
