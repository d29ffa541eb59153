SPECIFICATION Spec
CONSTANTS
  Thread = {t1, t2}
  t1 = t1
  t2 = t2
  Signal = Signal
  NoThread = NoThread
  Ask = "ask"
  Conn = "conn"
  Order <- MCOrder
  Peer = {p1}
  p1 = p1
  MaxCalls = 2
  MaxSlow = 1
  MaxLost = 1
INVARIANT AskTypeOK
INVARIANT FirstLockFree
INVARIANT TimerHasAsker
INVARIANT SocketKept
PROPERTY AskEndsUnlessSpoilt
CHECK_DEADLOCK FALSE
