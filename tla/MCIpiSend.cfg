CONSTANTS
  a = a
  b = b
  c = c
  x = x
  y = y
  z = z
  Uses <- UsesSend
  Tasks = {a, b}
  Ids = {x, y, z}
  SendPins = {x, y, z}
  RecvPins = {x, y}
  MessagePins = {y}
  IrqPins = {}
  Boot = {x, y}
  Retries = {1}
  AckTimeout = FALSE
  TooLong = TRUE
  QueueMode = FALSE
  MaxSend = 3
  MaxRemote = 1
  Free = Free
  None = None
SPECIFICATION FairSpec
INVARIANT AnswerIsMine
PROPERTIES MailboxSpec MutexReleased
CHECK_DEADLOCK FALSE
