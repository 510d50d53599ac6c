--------------------------- MODULE NetworkingFile ---------------------------
(***************************************************************************)
(* VMware's networking file as the utility reads, changes and writes it.   *)
(*                                                                         *)
(*   utility/networking_file.go   Load, Save, Add/RemovePortFwd, devices,  *)
(*                                DHCP reservations, MergeFwds             *)
(*   settings/nat.go              the forwards kept beside the file        *)
(*                                                                         *)
(* A port stands for a host port with its protocol, a guest for a device   *)
(* with a guest address and port.  A description names the virtual machine *)
(* ("vagrant: /path/box.vmx") or is empty.  Devices are a set: the file    *)
(* has one per slot and the code reads them through a map.                 *)
(***************************************************************************)
EXTENDS Integers, FiniteSets, SequencesExt

CONSTANTS
  Ports,    \* host ports
  Guests,   \* where forwards lead
  Vms,      \* virtual machines, as descriptions name them
  NoDesc,   \* the empty description
  Configs,  \* what is configured of a device: type, dhcp, subnet, mask
  Macs,     \* device and hardware address of a DHCP reservation
  IPs,      \* reserved addresses
  Garbled   \* the "address" of a line that holds several reservations

ASSUME NamesAssumption ==
  /\ NoDesc \notin Vms
  /\ Garbled \notin IPs

\* A forward as a request asks for it, and a forward line of the file: "on"
\* lines say add_nat_portfwd, the others remove_nat_portfwd.
Fwd == [port: Ports, guest: Guests, desc: Vms]
PortFwd == [port: Ports, guest: Guests, desc: Vms \cup {NoDesc}, on: BOOLEAN]

Device == [slot: Nat, config: Configs]
DhcpReservation == [mac: Macs, addr: IPs \cup {Garbled}]

\* The contents of the file.
Contents == [devices: SUBSET Device, fwds: Seq(PortFwd), res: Seq(DhcpReservation)]

Empty == [devices |-> {}, fwds |-> <<>>, res |-> <<>>]

Enabled(f) == [port |-> f.port, guest |-> f.guest, desc |-> f.desc, on |-> TRUE]
Disabled(f) == [Enabled(f) EXCEPT !.on = FALSE]

-----------------------------------------------------------------------------
(* Port forwards. *)

HasPort(fwds, p) == \E k \in DOMAIN fwds : fwds[k].port = p

\* The first line of a port.
HostPortFwd(fwds, p) ==
  CHOOSE k \in DOMAIN fwds : fwds[k].port = p /\ \A j \in 1..(k-1) : fwds[j].port # p

\* Mutant: an existing entry is updated where it stands, on or off.
UpdatePortFwd(fwds, f) ==
  IF HasPort(fwds, f.port)
  THEN LET k == HostPortFwd(fwds, f.port)
       IN [fwds EXCEPT ![k].guest = f.guest, ![k].desc = f.desc]
  ELSE Append(fwds, Enabled(f))

\* The entry found for the port is updated and, the same pointer, appended.
AddPortFwd(fwds, f) ==
  Append(IF HasPort(fwds, f.port)
         THEN [fwds EXCEPT ![HostPortFwd(fwds, f.port)] = Enabled(f)]
         ELSE fwds,
         Enabled(f))

RemovePortFwd(fwds, f) ==
  IF HasPort(fwds, f.port)
  THEN [fwds EXCEPT ![HostPortFwd(fwds, f.port)].on = FALSE]
  ELSE Append(fwds, Disabled(f))

\* An enabled settings entry for the same forward gives the line its
\* description.
SameForward(n, l) == n.on /\ n.port = l.port /\ n.guest = l.guest

MergeFwds(fwds, nat) ==
  [k \in DOMAIN fwds |->
     IF \E n \in nat : SameForward(n, fwds[k])
     THEN [fwds[k] EXCEPT !.desc = (CHOOSE n \in nat : SameForward(n, fwds[k])).desc]
     ELSE fwds[k]]

\* settings.NAT holds at most one entry per port; Add replaces it.
Conflict(nat, l) == {n \in nat : n.port = l.port}

NatAdd(nat, l) == (nat \ Conflict(nat, l)) \cup {l}

-----------------------------------------------------------------------------
(* Devices. *)

UsedSlots(devices) == {d.slot : d \in devices}

UpTo(K, k) == {i \in K : i <= k}

\* Mutant: the slot is compared with "at least".
FreeSlotAtLeast(used) ==
  CHOOSE s \in 1..(Cardinality(used) + 1) :
    /\ \A i \in 1..(s-1) : Cardinality(UpTo(used, i)) >= i
    /\ Cardinality(UpTo(used, s - 1)) < s

\* The loop of CreateDevice over the sorted slots: the slot number is counted
\* up until a used slot exceeds it.  (Sorted, the i-th slot exceeds i just when
\* fewer than i slots are at most i.)
FreeSlot(used) ==
  CHOOSE s \in 1..(Cardinality(used) + 1) :
    /\ \A i \in 1..(s-1) : Cardinality(UpTo(used, i)) >= i
    /\ Cardinality(UpTo(used, s)) < s

CreateDevice(devices, c) ==
  devices \cup {[slot |-> FreeSlot(UsedSlots(devices)), config |-> c]}

HasSlot(devices, s) == \E d \in devices : d.slot = s

RemoveDevice(devices, s) == {d \in devices : d.slot # s}

UpdateDevice(devices, s, c) == RemoveDevice(devices, s) \cup {[slot |-> s, config |-> c]}

-----------------------------------------------------------------------------
(* DHCP reservations. *)

AddDhcpReservation(res, m, a) ==
  LET new == [mac |-> m, addr |-> a]
  IN IF \E k \in DOMAIN res : res[k].mac = m
     THEN [res EXCEPT ![CHOOSE k \in DOMAIN res :
                          res[k].mac = m /\ \A j \in 1..(k-1) : res[j].mac # m] = new]
     ELSE Append(res, new)

\* Save writes the reservations without line ends: all of them make one line.
ReservationLines(res) == IF res = <<>> THEN <<>> ELSE <<res>>

\* Of a line Load makes one reservation: the first, its address run together
\* with all that follows.
LoadDhcpRes(lines) ==
  [k \in DOMAIN lines |-> IF Len(lines[k]) = 1 THEN lines[k][1]
                          ELSE [lines[k][1] EXCEPT !.addr = Garbled]]

ReadBack(res) == LoadDhcpRes(ReservationLines(res))

LookupDhcpReservation(res, m) == {res[k].addr : k \in {i \in DOMAIN res : res[i].mac = m}}

-----------------------------------------------------------------------------
(* The file as a whole. *)

\* What Load finds after Save wrote c.
Saved(c) == [c EXCEPT !.res = ReadBack(@)]

\* What LoadNetworkingFile returns: the file merged with the NAT settings.
Merged(c, nat) == [c EXCEPT !.fwds = MergeFwds(@, nat)]

\* VMware rewrites the file from its own tables: "we lose all metadata".
Stripped(c) == [c EXCEPT !.fwds = [k \in DOMAIN @ |-> [@[k] EXCEPT !.desc = NoDesc]]]

\* The lines of a port in effect: the last one decides.
IsLast(fwds, k) ==
  k \in DOMAIN fwds /\ \A j \in (k+1)..Len(fwds) : fwds[j].port # fwds[k].port

\* The forwards VMware's NAT serves once configured from these lines.
Served(fwds) ==
  {[port |-> fwds[k].port, guest |-> fwds[k].guest] :
     k \in {i \in DOMAIN fwds : IsLast(fwds, i) /\ fwds[i].on}}
=============================================================================
