CONSTANTS
  box = box
  other = other
  p1 = p1
  p2 = p2
  Machines = {box, other}
  Ports = {p1, p2}
  None = None
  Workloads <- MCWorkloads
SPECIFICATION Spec
SYMMETRY PortSymmetry
INVARIANTS
  
  NoSelfCollision
PROPERTIES
  
  HaltMeansOff
  SuccessMeansForwarded
