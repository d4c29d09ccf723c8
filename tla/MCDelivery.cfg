SPECIFICATION DeliverySpec
CONSTANTS
  a = a
  b = b
  c = c
  s = s
  t = t
  a1 = a1
  b1 = b1
  c1 = c1
  s1 = s1
  s2 = s2
  s3 = s3
  t1 = t1
  t2 = t2
  t3 = t3
  v1 = v1
  v20 = v20
  Ports = {a1, b1, c1, s1, s2, s3, t1, t2, t3}
  Devices = {a, b, c, s, t}
  Switches = {s, t}
  Addressed = {a1, b1, c1, t2}
  Vlans = {v1, v20}
  DefaultVlan = v1
  Untagged = Untagged
  NoPort = NoPort
  DeviceOf <- MCDeviceOf
  Interfaces <- MCInterfaces
  Peer <- MCPeer
  Configurations <- MCConfigurations
  r0 = r0
  r1 = r1
  r2 = r2
  Asks <- MCAsks
  Registration = r0
  Clicks = {c1, c2}
  Keys = {"verify", "reset", "login"}
  Limit <- RuleLimit
  WindowSeconds <- RuleWindow
  PruneSeconds = 2
  TicksPerSecond = 2
  Horizon = 5
  NoHint = NoHint
SYMMETRY Symmetric
INVARIANTS
  FloodCoversDomain AnswerMeansDelivery
  AtMostLimitPerWindow HintSuffices NewestLinkOnly LastMailWorks
CHECK_DEADLOCK FALSE
