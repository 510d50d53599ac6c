------------------------- MODULE MCVmrestForwards -------------------------
(* Two ports, two guests, two machines; batches of one and two forwards. *)
EXTENDS VmrestForwards, TLC

CONSTANTS p1, p2, g1, g2, boxA, boxB

Forward(p, g, d) == [port |-> p, guest |-> g, desc |-> d]

webA == Forward(p1, g1, boxA)
webB == Forward(p1, g2, boxB)
sshA == Forward(p2, g1, boxA)
sshB == Forward(p2, g1, boxB)

Add(fs) == [kind |-> "add", fwds |-> fs]
Remove(fs) == [kind |-> "delete", fwds |-> fs]

ForwardOps == {Add({webA}), Add({webB}), Add({webA, sshA}), Add({sshB}),
               Remove({webA}), Remove({webB, sshA}), [kind |-> "prune"], [kind |-> "device"]}

DeviceOps == {Add({webA}), [kind |-> "prune"], [kind |-> "device"]}
=============================================================================
