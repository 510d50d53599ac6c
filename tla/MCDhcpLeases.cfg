SPECIFICATION Spec
CONSTANTS
  g1 = g1
  g2 = g2
  Guests = {g1, g2}
  Macs = {mA, mB}
  Hosts = {"web", "db"}
  Addrs = {a1, a2}
  HostOf <- Names
  NoHost = NoHost
  Reserved <- NoReservation
  NoAddr = NoAddr
  Updates = {u1, u2}
  NoBackup = NoBackup
  Term = 2
  MaxTime = 2
  MaxRecords = 3
  MaxUpdates = 2
SYMMETRY Symmetry
INVARIANTS
  LoadedByReference
  AddressIsFound
  SharedMacIsRefused
