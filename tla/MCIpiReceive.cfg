CONSTANTS
  a = a
  b = b
  c = c
  x = x
  y = y
  z = z
  Uses <- UsesReceive
  Tasks = {a, b, c}
  Ids = {x, y, z}
  SendPins = {}
  RecvPins = {x, y, z}
  MessagePins = {x, y, z}
  IrqPins = {y, z}
  Boot = {x, y}
  Retries = {0}
  AckTimeout = FALSE
  TooLong = FALSE
  QueueMode = TRUE
  MaxSend = 0
  MaxRemote = 2
  Free = Free
  None = None
SPECIFICATION ListenSpec
INVARIANTS NothingForgotten NeverBackwards IrqExactlyOnce RegistrationWhole
PROPERTIES LatestHandled
CHECK_DEADLOCK FALSE
