CONSTANTS
  r1 = r1
  r2 = r2
  p1 = p1
  p2 = p2
  g1 = g1
  g2 = g2
  boxA = boxA
  boxB = boxB
  Ports = {p1, p2}
  Guests = {g1, g2}
  Vms = {boxA, boxB}
  NoDesc = NoDesc
  Configs = {"nat", "hostOnly"}
  Macs = {"mac1", "mac2"}
  IPs = {"ip1", "ip2"}
  Garbled = "garbled"
  Reqs = {r1}
  NoReq = NoReq
  NoOp = NoOp
  Down = Down
  NoAck = NoAck
  Gone = Gone
  Workloads <- ForwardsOnly
  VMwareDevices <- NoDevices
  MaxFwds = 3
  MaxDevices = 3
SPECIFICATION Spec
INVARIANT DeletedForwardIsGone
