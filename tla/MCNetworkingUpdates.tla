------------------------ MODULE MCNetworkingUpdates ------------------------
(* Two requests at once over two ports, two guests and two machines. *)
EXTENDS NetworkingUpdates

CONSTANTS r1, r2, p1, p2, g1, g2, boxA, boxB

Forward(p, g, d) == [port |-> p, guest |-> g, desc |-> d]

webA == Forward(p1, g1, boxA)
webB == Forward(p1, g2, boxB)
sshA == Forward(p2, g1, boxA)

Add(fs) == [kind |-> "add", fwds |-> fs]
Delete(fs) == [kind |-> "delete", fwds |-> fs]
Reserve(mac, ip) == [kind |-> "reserve", mac |-> mac, addr |-> ip]

Create == [kind |-> "create", config |-> "hostOnly"]
Update(slot) == [kind |-> "update", slot |-> slot, config |-> "nat"]
RemoveSlot(slot) == [kind |-> "remove", slot |-> slot]
Prune == [kind |-> "prune"]
Verify == [kind |-> "verify", try |-> 1]

MCDevices == {[slot |-> 1, config |-> "hostOnly"], [slot |-> 8, config |-> "nat"]}
NoDevices == {}

OneByOne(ops, devices) == [ops |-> ops, atOnce |-> 1, devices |-> devices]
TwoAtOnce(ops, devices) == [ops |-> ops, atOnce |-> 2, devices |-> devices]

\* Forwards moved from one machine to another, deleted and pruned, one request
\* at a time.
Forwards ==
  OneByOne({Add(<<webA>>), Add(<<webB>>), Add(<<webB, sshA>>),
            Delete(<<webA>>), Delete(<<webB, sshA>>), Prune}, {})

\* Devices created, changed and removed, and the service verified.
Devices ==
  OneByOne({Create, Update(1), Update(2), RemoveSlot(1), RemoveSlot(2), Verify,
            Reserve("mac1", "ip1")}, MCDevices)

\* A forward or a device beside the reservation that takes no lock.
ForwardBesideReservation == TwoAtOnce({Add(<<webA>>), Reserve("mac1", "ip1")}, {})
DeviceBesideReservation == TwoAtOnce({Create, RemoveSlot(1), Reserve("mac1", "ip1")}, MCDevices)

Updates == {Forwards, Devices, ForwardBesideReservation, DeviceBesideReservation}

\* Two requests at once of every kind, the verification with its retries too.
Contending ==
  {TwoAtOnce({Add(<<webA>>), Verify}, {}),
   TwoAtOnce({Reserve("mac1", "ip1"), Create, Verify}, MCDevices),
   TwoAtOnce({Prune, Delete(<<webA>>), Update(1), RemoveSlot(1)}, MCDevices)}

ForwardsOnly == {Forwards}
Reservations == {OneByOne({Reserve("mac1", "ip1"), Reserve("mac2", "ip2")}, {})}

RequestSymmetry == Permutations(Reqs)
=============================================================================
