CONSTANTS
  p1 = p1
  p2 = p2
  g1 = g1
  g2 = g2
  boxA = boxA
  boxB = boxB
  Ports = {p1, p2}
  Guests = {g1, g2}
  Vms = {boxA, boxB}
  Managed = Managed
  NoDesc = NoDesc
  NoAck = NoAck
  Gone = Gone
  Operations <- DeviceOps
SPECIFICATION Spec
PROPERTIES
  PruneSparesTheRunning
