--------------------------- MODULE VnetlibDriver ---------------------------
(***************************************************************************)
(* The requests for vmnet devices, and the two drivers that run them one   *)
(* command after the other.                                                *)
(*                                                                         *)
(*   server/vmnet_devices_handler.go   the handlers and netLock            *)
(*   driver/advanced.go                AddVmnet, UpdateVmnet, DeleteVmnet, *)
(*                                     ReserveDhcpAddress                  *)
(*   driver/vmrest.go                  the same, where vmrest has to be    *)
(*                                     used (macOS Big Sur and later)      *)
(*   service/vnetlib.go                one method per vnetlib command      *)
(*                                                                         *)
(* A command of vnetlib changes one device and may fail; what the earlier  *)
(* commands of the same request did stays.  The list of devices is read    *)
(* without a lock, and a reservation runs without one too.                 *)
(*                                                                         *)
(* A device vmnetN is known by its slot N.  A subnet stands for a subnet   *)
(* address with its mask.                                                  *)
(***************************************************************************)
EXTENDS Integers, FiniteSets

CONSTANTS
  Slots,    \* the devices there may be
  Subnets,  \* subnets
  NoSubnet, \* a device that has none yet
  NoSlot,   \* a request that names no device
  Callers,  \* what sends requests to the utility
  NoCaller  \* netLock is free

ASSUME SlotsAssumption == Slots \subseteq Nat /\ IsFiniteSet(Slots) /\ NoSlot \notin Slots
ASSUME SubnetsAssumption == NoSubnet \notin Subnets
ASSUME CallersAssumption == NoCaller \notin Callers

VARIABLES
  driver,  \* which driver the utility chose when it started
  vmnet,   \* the devices
  netLock, \* the caller whose request holds netLock
  call     \* the request of each caller

driverVars == <<driver, vmnet, netLock, call>>

Drivers == {"advanced", "vmrest"}

Services == {"dhcp", "nat"}

\* What vnetlib knows of a device: its subnet, whether the adapter is enabled,
\* the services it is to have and those that run.
Device == [exists: BOOLEAN, subnet: Subnets \cup {NoSubnet}, on: BOOLEAN,
           uses: SUBSET Services, runs: SUBSET Services]

Absent == [exists |-> FALSE, subnet |-> NoSubnet, on |-> FALSE, uses |-> {}, runs |-> {}]

Existing == {n \in Slots : vmnet[n].exists}

\* What a GET of the devices answers: it takes no lock.
ListVmnetDevices == {<<n, vmnet[n].subnet>> : n \in Existing}

\* The body of a request, and the device of its path.
Request == [kind: {"create", "update", "delete", "reserve"}, slot: Slots \cup {NoSlot},
            subnet: Subnets \cup {NoSubnet}, dhcp: {"yes", "no", "unset"},
            type: {"nat", "hostOnly", "bridged"}]

\* The commands a request comes down to: those of vnetlib, and the steps of the
\* vmrest driver.
Command == {"getunusedvnet", "addadapter", "removeadapter", "setsubnetmask", "setsubnetaddr",
            "enable", "disable", "updateadapter", "setdhcpmac2ip",
            "use dhcp", "drop dhcp", "start dhcp", "stop dhcp", "status dhcp",
            "use nat", "drop nat", "start nat", "stop nat", "status nat",
            "refuse", "setVmnetName", "post", "done"}

\* A caller's request: not sent, waiting for its turn, in progress, answered.
Call == [at: {"idle", "queued", "running", "answered"}, req: Request, slot: Slots \cup {NoSlot},
         next: Command, ok: BOOLEAN]

AnyRequest == [kind |-> "create", slot |-> NoSlot, subnet |-> NoSubnet, dhcp |-> "unset",
               type |-> "hostOnly"]

NoCall == [at |-> "idle", req |-> AnyRequest, slot |-> NoSlot, next |-> "done", ok |-> FALSE]

-----------------------------------------------------------------------------
(* The commands.                                                           *)

SetSubnet(d, s) == [d EXCEPT !.subnet = s]

Enable(d, yes) == [d EXCEPT !.on = yes]

SetUsage(d, service, yes) ==
  [d EXCEPT !.uses = IF yes THEN @ \cup {service} ELSE @ \ {service}]

Start(d, service) == [d EXCEPT !.runs = @ \cup {service}]

Stop(d, service) == [d EXCEPT !.runs = @ \ {service}]

\* What a command of request r makes of device d.
Effect(c, d, r) ==
  CASE c = "addadapter"    -> IF d.exists THEN d ELSE [Absent EXCEPT !.exists = TRUE]
    [] c = "removeadapter" -> Absent
    [] c = "setsubnetaddr" -> SetSubnet(d, r.subnet)
    [] c = "enable"        -> Enable(d, TRUE)
    [] c = "disable"       -> Enable(d, FALSE)
    [] c = "use dhcp"      -> SetUsage(d, "dhcp", TRUE)
    [] c = "drop dhcp"     -> SetUsage(d, "dhcp", FALSE)
    [] c = "use nat"       -> SetUsage(d, "nat", TRUE)
    [] c = "drop nat"      -> SetUsage(d, "nat", FALSE)
    [] c = "start dhcp"    -> Start(d, "dhcp")
    [] c = "stop dhcp"     -> Stop(d, "dhcp")
    [] c = "start nat"     -> Start(d, "nat")
    [] c = "stop nat"      -> Stop(d, "nat")
    [] OTHER               -> d

\* A device can be added where there is one, which stays as it is; anything
\* else needs one.
Possible(c, d) == c = "addadapter" \/ d.exists

\* Mutant: the result of enabling the adapter is not looked at.
ToleratedEnable(c, r) == c \in {"start nat", "enable"}

\* StartNAT returns nil whatever the command said; a reservation goes on when
\* the service could not be stopped.
Tolerated(c, r) == c = "start nat" \/ (c = "stop dhcp" /\ r.kind = "reserve")

\* Mutant: the length of the list is taken for a free number.
FreeSlotShort(used) == Cardinality(used)

\* freeSlot: the first place in the sorted list that does not hold its own
\* number, and otherwise two more than the length of the list.
FreeSlot(used) ==
  LET off == {i \in 1 .. Cardinality(used) : {n \in used : n <= i} # 1 .. i}
  IN IF off = {} THEN Cardinality(used) + 2 ELSE CHOOSE i \in off : \A j \in off : i <= j

-----------------------------------------------------------------------------
(* The order in which each driver runs them.                               *)

\* AddVmnet of the advanced driver.
NextOfAdd(c, r) ==
  LET nat == IF r.type = "nat" THEN "use nat" ELSE "done"
  IN CASE c = "getunusedvnet" -> "addadapter"
       [] c = "addadapter"    -> IF r.subnet # NoSubnet THEN "setsubnetmask" ELSE "enable"
       [] c = "setsubnetmask" -> "setsubnetaddr"
       [] c = "setsubnetaddr" -> "enable"
       [] c = "enable"        -> IF r.dhcp = "yes" THEN "use dhcp" ELSE nat
       [] c = "use dhcp"      -> "start dhcp"
       [] c = "start dhcp"    -> nat
       [] c = "use nat"       -> "start nat"
       [] OTHER               -> "done"

\* UpdateVmnet of the advanced driver: runs tells whether the service of a
\* status command runs.
NextOfUpdate(c, r, runs) ==
  CASE c = "setsubnetmask" -> "setsubnetaddr"
    [] c = "setsubnetaddr" -> "updateadapter"
    [] c = "updateadapter" -> "status dhcp"
    [] c = "status dhcp"   -> IF runs /\ r.dhcp = "no" THEN "drop dhcp"
                              ELSE IF ~runs /\ r.dhcp = "yes" THEN "use dhcp" ELSE "status nat"
    [] c = "drop dhcp"     -> "stop dhcp"
    [] c = "use dhcp"      -> "start dhcp"
    [] c \in {"stop dhcp", "start dhcp"} -> "status nat"
    [] c = "status nat"    -> IF runs /\ r.type # "nat" THEN "drop nat"
                              ELSE IF ~runs /\ r.type = "nat" THEN "use nat" ELSE "done"
    [] c = "drop nat"      -> "stop nat"
    [] c = "use nat"       -> "start nat"
    [] OTHER               -> "done"

NextOfDelete(c) == IF c = "disable" THEN "removeadapter" ELSE "done"

NextOfReserve(c) ==
  CASE c = "setdhcpmac2ip" -> "stop dhcp" [] c = "stop dhcp" -> "start dhcp" [] OTHER -> "done"

\* AddVmnet of the vmrest driver.
NextOfPost(c) == IF c = "setVmnetName" THEN "post" ELSE "done"

After(c, r, runs) ==
  CASE r.kind = "create"  -> IF driver = "vmrest" THEN NextOfPost(c) ELSE NextOfAdd(c, r)
    [] r.kind = "update"  -> NextOfUpdate(c, r, runs)
    [] r.kind = "delete"  -> NextOfDelete(c)
    [] r.kind = "reserve" -> NextOfReserve(c)

FirstOfAdvanced(r) ==
  CASE r.kind = "create"  -> IF r.slot = NoSlot THEN "getunusedvnet" ELSE "addadapter"
    [] r.kind = "update"  -> IF r.subnet # NoSubnet THEN "setsubnetmask" ELSE "updateadapter"
    [] r.kind = "delete"  -> "disable"
    [] r.kind = "reserve" -> "setdhcpmac2ip"

\* vmrest makes devices and nothing else, on no subnet of one's own.
FirstOfVmrest(r) ==
  IF r.kind # "create" \/ (r.type # "bridged" /\ r.subnet # NoSubnet) THEN "refuse"
  ELSE IF r.slot = NoSlot THEN "setVmnetName" ELSE "post"

First(r) == IF driver = "vmrest" THEN FirstOfVmrest(r) ELSE FirstOfAdvanced(r)

-----------------------------------------------------------------------------
(* The handlers.                                                           *)

\* Mutant: a device is created without the lock.
LockedButCreate(r) == r.kind \in {"update", "delete"}

\* A reservation is the one change that takes no lock.
Locked(r) == r.kind # "reserve"

Send(c, r) ==
  call' = [call EXCEPT ![c] = [at |-> "queued", req |-> r, slot |-> r.slot, next |-> "done", ok |-> TRUE]]

Enter(c) ==
  /\ call[c].at = "queued"
  /\ IF Locked(call[c].req) THEN netLock = NoCaller /\ netLock' = c ELSE UNCHANGED netLock
  /\ call' = [call EXCEPT ![c].at = "running", ![c].next = First(call[c].req)]
  /\ UNCHANGED <<driver, vmnet>>

Doing(c, command) == call[c].at = "running" /\ call[c].next = command

\* What a status command finds on device n.
Served(c, n) == IF c = "status dhcp" THEN "dhcp" \in vmnet[n].runs ELSE "nat" \in vmnet[n].runs

\* The request of caller c, its device n by now, goes on to the next command.
GoesOn(c, n) ==
  call' = [call EXCEPT ![c].slot = n, ![c].next = After(@, call[c].req, Served(@, n))]

\* GetUnusedDevice: a name that is free when vnetlib looks.
GetUnusedDevice(c) ==
  /\ Doing(c, "getunusedvnet")
  /\ \E n \in Slots \ Existing : GoesOn(c, n)
  /\ UNCHANGED <<driver, vmnet, netLock>>

\* setVmnetName: a name made from the list.  Slots bounds the names.
SetVmnetName(c) ==
  /\ Doing(c, "setVmnetName") /\ FreeSlot(Existing) \in Slots
  /\ GoesOn(c, FreeSlot(Existing))
  /\ UNCHANGED <<driver, vmnet, netLock>>

\* What a request wants a device to serve.
Wanted(r) == {v \in Services : (v = "dhcp" /\ r.dhcp = "yes") \/ (v = "nat" /\ r.type = "nat")}

\* vmrest makes a whole device, on a subnet it picks.
Post(c) ==
  LET n == call[c].slot
      wanted == Wanted(call[c].req)
  IN /\ Doing(c, "post") /\ n \in Slots \ Existing
     /\ \E s \in Subnets \ {vmnet[k].subnet : k \in Existing} :
          vmnet' = [vmnet EXCEPT ![n] = [exists |-> TRUE, subnet |-> s, on |-> TRUE,
                                         uses |-> wanted, runs |-> wanted]]
     /\ GoesOn(c, n)
     /\ UNCHANGED <<driver, netLock>>

\* The commands that have an action of their own, or none.
Special == {"getunusedvnet", "setVmnetName", "post", "refuse", "done"}

\* Any command of vnetlib on the device.
Run(c) ==
  LET n == call[c].slot
  IN /\ call[c].at = "running" /\ call[c].next \notin Special
     /\ n \in Slots /\ Possible(call[c].next, vmnet[n])
     /\ vmnet' = [vmnet EXCEPT ![n] = Effect(call[c].next, @, call[c].req)]
     /\ GoesOn(c, n)
     /\ UNCHANGED <<driver, netLock>>

\* A command fails and changes nothing; the request ends there, unless the
\* failure is not looked at.  A status that cannot be had counts as stopped.
CommandFails(c) ==
  /\ call[c].at = "running" /\ call[c].next # "done"
  /\ IF Tolerated(call[c].next, call[c].req) \/ call[c].next \in {"status dhcp", "status nat"}
     THEN call' = [call EXCEPT ![c].next = After(@, call[c].req, FALSE)]
     ELSE call' = [call EXCEPT ![c].next = "done", ![c].ok = FALSE]
  /\ UNCHANGED <<driver, vmnet, netLock>>

Answer(c) ==
  /\ Doing(c, "done")
  /\ call' = [call EXCEPT ![c].at = "answered"]
  /\ netLock' = IF netLock = c THEN NoCaller ELSE netLock
  /\ UNCHANGED <<driver, vmnet>>

\* Mutant: the name is not filled in.
RequestedName(c) == call[c].req.slot

\* AddVmnet puts the name of the device into the answer.
AnsweredName(c) == call[c].slot

\* One step of the utility for caller c.
Serve(c) ==
  \/ Enter(c)
  \/ GetUnusedDevice(c)
  \/ SetVmnetName(c)
  \/ Post(c)
  \/ Run(c)
  \/ CommandFails(c)
  \/ Answer(c)
=============================================================================
