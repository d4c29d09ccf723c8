SPECIFICATION GradingSpec
CONSTANTS
  a = a b = b c = c r = r s = s
  a1 = a1 b1 = b1 c1 = c1 r1 = r1 r2 = r2 r3 = r3 s1 = s1 s2 = s2
  Devices = {a, b, c, r, s}
  Routers = {r, s}
  PortOrder <- MCPortOrder
  DeviceOf <- MCDeviceOf
  Lan <- MCLan
  Direct <- MCDirect
  Addresses <- MCAddresses
  NoAddress = NoAddress
  NoPort = NoPort
  Asked <- MCAsked
  MaxHops = 16
  Authored <- MCAuthored
  Faults <- MCFaults
  MaxFaults = 2
  Missing = Missing
  Rules <- MCRules
  Documents <- MCDocuments
INVARIANTS WellConfiguredReaches LeaseIsUsable SameQuestionSameVerdict MendedScoresFull
PROPERTIES LearnedRouteLeadsThere EveryLabGraded
CHECK_DEADLOCK FALSE
