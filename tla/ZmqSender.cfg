SPECIFICATION FairSpec
CONSTANTS
  Workers = {w1, w2}
  Responses = {r1, r2}
  MaxPushes = 3
  Sender = Sender
  NoMsg = NoMsg
PROPERTIES ImplementsTaskQueue ResponsesAreSent ShutdownReturnsUnlessInsideGet
CHECK_DEADLOCK FALSE
