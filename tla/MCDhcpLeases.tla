---------------------------- MODULE MCDhcpLeases ----------------------------
(* Two guests, whose MAC addresses differ or, after one was cloned from    *)
(* the other, do not; two updates at once.                                 *)
EXTENDS DhcpLeases, TLC

CONSTANTS g1, g2

Names == (g1 :> "web") @@ (g2 :> "db")
NoReservation == [m \in Macs |-> NoAddr]

Symmetry == Permutations(Addrs) \cup Permutations(Updates) \cup Permutations(Macs)
=============================================================================
