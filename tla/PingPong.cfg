SPECIFICATION FairSpec
CONSTANTS
  PingSetup = 2
  PongSetup = 1
  Period = 2
  Timeout = 7
  PingLayers = {"dds", "rclcpp", "rmw"}
  PongLayers = {"rclcpp", "rmw"}
  Iterations = 3
  Depth = 1
  Delays = {1, 4}
  PingStart = 4
  PongStarts = {0, 4, 8}
INVARIANTS
  TypeOK
  InPhase
  NoRecovery
  OnlyLostMissing
PROPERTIES
  Terminates
