---------------------- MODULE MCInternalPortForwarding ----------------------
(* Two tcp forwards of one host port to different guests and a udp forward. *)
EXTENDS InternalPortForwarding

CONSTANTS web, webOther, dns, o1, o2, o3

MCFwds == {web, webOther, dns}
MCAddrs == {"tcp8080", "udp53"}
MCHostAddr == [f \in MCFwds |-> IF f = dns THEN "udp53" ELSE "tcp8080"]
MCUdpFwds == {dns}

\* Objects are interchangeable: no action or invariant names one.
ObjectSymmetry == Permutations({o1, o2, o3})
=============================================================================
