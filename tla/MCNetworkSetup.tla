-------------------------- MODULE MCNetworkSetup --------------------------
(* Two machines, the first with two networks, and a client that creates,   *)
(* changes and deletes devices and reserves an address.                    *)
EXTENDS NetworkSetup, TLC

CONSTANTS m1, m2, api, s1, s2

MachineNetworks == (m1 :> <<s1, s2>>) @@ (m2 :> <<s1>>)

Whole(s) == [exists |-> TRUE, subnet |-> s, on |-> TRUE, uses |-> {}, runs |-> {}]

\* vmnet0 is the bridge and has no subnet.
Table(bridge, d, e) ==
  [n \in Slots |-> CASE n = 0 -> IF bridge THEN Whole(NoSubnet) ELSE Absent
                     [] n = 1 -> d [] n = 3 -> e [] OTHER -> Absent]

DeviceTables ==
  [advanced |-> {Table(TRUE, Absent, Whole(s2)), Table(TRUE, Whole(s1), Absent)},
   vmrest |-> {Table(FALSE, Whole(s1), Absent), Table(FALSE, Whole(s1), Whole(NoSubnet)),
               Table(TRUE, Whole(s1), Absent)}]

Req(kind, slot, subnet, dhcp, type) ==
  [kind |-> kind, slot |-> slot, subnet |-> subnet, dhcp |-> dhcp, type |-> type]

ApiRequests ==
  {Req("create", NoSlot, NoSubnet, "unset", "nat"), Req("update", 1, s2, "no", "nat"),
   Req("create", NoSlot, s2, "yes", "nat"), Req("delete", 2, NoSubnet, "unset", "hostOnly"),
   Req("reserve", 1, NoSubnet, "unset", "hostOnly")}
=============================================================================
