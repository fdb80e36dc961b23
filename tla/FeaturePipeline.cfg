SPECIFICATION FairSpec
CONSTANTS
  Caffe = {c1, c2}
  Photos = {p1, p2, p3}
  QueueFactor = 1
  FeaturesPerFile = 2
  Offset = 5
  WriteTypes = {"file", "redis", "other"}
  SHUTDOWN = SHUTDOWN
  NoMsg = NoMsg
INVARIANTS WrittenOnce FewPhotosLost
PROPERTY ShutdownReturns
CHECK_DEADLOCK FALSE
