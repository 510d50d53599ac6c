CONSTANTS
  web = web
  webOther = webOther
  dns = dns
  o1 = o1
  o2 = o2
  o3 = o3
  NoFwd = NoFwd
  Ids = {o1, o2, o3}
  Fwds <- MCFwds
  Addrs <- MCAddrs
  HostAddr <- MCHostAddr
  UdpFwds <- MCUdpFwds
SPECIFICATION Spec
SYMMETRY ObjectSymmetry
INVARIANTS
  OrphansWereRefused
  ListedAreDurable
  ListedAreServed
  ConflictsHaveCause
  OnlyConflictsBlockStart
  NoLeakedListener
