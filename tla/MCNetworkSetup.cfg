SPECIFICATION Spec
CONSTANTS
  m1 = m1
  m2 = m2
  api = api
  s1 = s1
  s2 = s2
  Slots = {0, 1, 2, 3}
  Subnets = {s1, s2}
  NoSubnet = NoSubnet
  NoSlot = NoSlot
  Elsewhere = Elsewhere
  NoCaller = NoCaller
  Machines = {m1, m2}
  Clients = {api}
  Callers = {m1, m2, api}
  Presets <- DeviceTables
  NetworksOf <- MachineNetworks
  Asked <- ApiRequests
  MaxUps = 1
  MaxAsked = 1
INVARIANTS
  TypeOK
  AttachedToOwnNetwork
  AttachedNetworkIsUp
  NoDuplicateWithoutRace
  NewNameIsFree
CHECK_DEADLOCK FALSE
