------------------------ MODULE NetworkSetup_proofs ------------------------
(***************************************************************************)
(* What is true of the host-only networks for any machines, networks,      *)
(* devices and clients, and any interleaving of their commands: a machine  *)
(* is on a device of its own subnet that is up, and devices are doubled    *)
(* only by a race.                                                         *)
(*                                                                         *)
(* The inductive invariant adds to the types: CallsInv, how far each       *)
(* request to the utility has come and what it has made of its device;     *)
(* SubnetsInv, who asks for which subnet; UpInv, which devices may be      *)
(* down; CommandInv, what a command has seen, found and still looks for.   *)
(***************************************************************************)
EXTENDS NetworkSetup, FiniteSetTheorems, SequenceTheorems, WellFoundedInduction, TLAPS

-----------------------------------------------------------------------------
(* The order of the commands. *)

\* The commands a request can come to.
AddCommands == {"getunusedvnet", "addadapter", "setsubnetmask", "setsubnetaddr", "enable",
                "use dhcp", "start dhcp", "use nat", "start nat", "done"}
UpdateCommands == {"setsubnetmask", "setsubnetaddr", "updateadapter", "status dhcp", "drop dhcp",
                   "stop dhcp", "use dhcp", "start dhcp", "status nat", "drop nat", "stop nat",
                   "use nat", "start nat", "done"}
DeleteCommands == {"disable", "removeadapter", "done"}
ReserveCommands == {"setdhcpmac2ip", "stop dhcp", "start dhcp", "done"}
PostCommands == {"refuse", "setVmnetName", "post", "done"}

CommandsOf(r) ==
  CASE driver = "vmrest" -> IF r.kind = "create" THEN PostCommands ELSE {"refuse", "done"}
    [] driver = "advanced" /\ r.kind = "create"  -> AddCommands
    [] driver = "advanced" /\ r.kind = "update"  -> UpdateCommands
    [] driver = "advanced" /\ r.kind = "delete"  -> DeleteCommands
    [] driver = "advanced" /\ r.kind = "reserve" -> ReserveCommands

\* What follows the enabling of the adapter.
Serving == {"use dhcp", "start dhcp", "use nat", "start nat"}

\* A request starts with one of its commands, and goes on to one of them.
LEMMA CommandsFollow ==
  ASSUME driver \in Drivers, NEW r \in Request
  PROVE  /\ CommandsOf(r) \subseteq Command /\ First(r) \in CommandsOf(r) \ {"done"}
         /\ \A c \in CommandsOf(r) : \A runs : After(c, r, runs) \in CommandsOf(r)
<1>1. r.kind \in {"create", "update", "delete", "reserve"} /\ driver \in {"advanced", "vmrest"}
  BY DEF Request, Drivers
<1>2. CASE driver = "vmrest" /\ r.kind = "create"
  <2>1. CommandsOf(r) = PostCommands
    BY <1>2 DEF CommandsOf
  <2>2. First(r) \in PostCommands \ {"done"}
    BY <1>2 DEF First, FirstOfVmrest, PostCommands
  <2>3. ASSUME NEW c \in PostCommands, NEW runs
        PROVE  After(c, r, runs) \in PostCommands
    BY <1>2 DEF After, NextOfPost, PostCommands
  <2> QED BY <2>1, <2>2, <2>3 DEF PostCommands, Command
<1>7. CASE driver = "vmrest" /\ r.kind # "create"
  <2>1. CommandsOf(r) = {"refuse", "done"}
    BY <1>7 DEF CommandsOf
  <2>2. First(r) = "refuse"
    BY <1>7 DEF First, FirstOfVmrest
  <2>3. ASSUME NEW c \in {"refuse", "done"}, NEW runs
        PROVE  After(c, r, runs) = "done"
    BY <1>1, <1>7 DEF After, NextOfUpdate, NextOfDelete, NextOfReserve
  <2> QED BY <2>1, <2>2, <2>3 DEF Command
<1>3. CASE driver = "advanced" /\ r.kind = "create"
  <2>1. CommandsOf(r) = AddCommands
    BY <1>3 DEF CommandsOf
  <2>2. First(r) \in AddCommands \ {"done"}
    BY <1>3 DEF First, FirstOfAdvanced, AddCommands
  <2>3. ASSUME NEW c \in AddCommands, NEW runs
        PROVE  After(c, r, runs) \in AddCommands
    BY <1>3 DEF After, NextOfAdd, AddCommands
  <2> QED BY <2>1, <2>2, <2>3 DEF AddCommands, Command
<1>4. CASE driver = "advanced" /\ r.kind = "update"
  <2>1. CommandsOf(r) = UpdateCommands
    BY <1>4 DEF CommandsOf
  <2>2. First(r) \in UpdateCommands \ {"done"}
    BY <1>4 DEF First, FirstOfAdvanced, UpdateCommands
  <2>3. ASSUME NEW c \in UpdateCommands, NEW runs
        PROVE  After(c, r, runs) \in UpdateCommands
    BY <1>4 DEF After, NextOfUpdate, UpdateCommands
  <2> QED BY <2>1, <2>2, <2>3 DEF UpdateCommands, Command
<1>5. CASE driver = "advanced" /\ r.kind = "delete"
  <2>1. CommandsOf(r) = DeleteCommands
    BY <1>5 DEF CommandsOf
  <2>2. First(r) \in DeleteCommands \ {"done"}
    BY <1>5 DEF First, FirstOfAdvanced, DeleteCommands
  <2>3. ASSUME NEW c \in DeleteCommands, NEW runs
        PROVE  After(c, r, runs) \in DeleteCommands
    BY <1>5 DEF After, NextOfDelete, DeleteCommands
  <2> QED BY <2>1, <2>2, <2>3 DEF DeleteCommands, Command
<1>6. CASE driver = "advanced" /\ r.kind = "reserve"
  <2>1. CommandsOf(r) = ReserveCommands
    BY <1>6 DEF CommandsOf
  <2>2. First(r) \in ReserveCommands \ {"done"}
    BY <1>6 DEF First, FirstOfAdvanced, ReserveCommands
  <2>3. ASSUME NEW c \in ReserveCommands, NEW runs
        PROVE  After(c, r, runs) \in ReserveCommands
    BY <1>6 DEF After, NextOfReserve, ReserveCommands
  <2> QED BY <2>1, <2>2, <2>3 DEF ReserveCommands, Command
<1> QED BY <1>1, <1>2, <1>3, <1>4, <1>5, <1>6, <1>7

\* The commands of a creation by vnetlib come in one order.
LEMMA AddOrder ==
  ASSUME driver = "advanced", NEW r \in Request, r.kind = "create", NEW c \in AddCommands, NEW runs,
         NEW next, next = After(c, r, runs)
  PROVE  /\ next # "getunusedvnet"
         /\ next = "addadapter" => c = "getunusedvnet"
         /\ next = "setsubnetmask" => c = "addadapter"
         /\ next = "setsubnetaddr" => c = "setsubnetmask"
         /\ next = "enable" => c = "setsubnetaddr" \/ (c = "addadapter" /\ r.subnet = NoSubnet)
         /\ next \in Serving \cup {"done"} => c \in {"enable", "done"} \cup Serving
BY DEF After, NextOfAdd, AddCommands, Serving

\* One of vmrest is its name and the device itself, or is refused.
LEMMA PostOrder ==
  ASSUME driver = "vmrest", NEW r \in Request, r.kind = "create", NEW c \in PostCommands, NEW runs,
         NEW next, next = After(c, r, runs)
  PROVE  next = IF c = "setVmnetName" THEN "post" ELSE "done"
BY DEF After, NextOfPost, PostCommands

-----------------------------------------------------------------------------
(* The free name. *)

\* freeSlot finds a free number in a list without vmnet0.
LEMMA FreeSlotIsFree ==
  ASSUME NEW used \in SUBSET Nat, IsFiniteSet(used), 0 \notin used
  PROVE  FreeSlot(used) \notin used
<1> DEFINE k == Cardinality(used)
           upTo(i) == {n \in used : n <= i}
           off == {i \in 1..k : upTo(i) # 1..i}
<1>1. k \in Nat
  BY FS_CardinalityType
<1>2. CASE off = {}
  <2>1. FreeSlot(used) = k + 2
    BY <1>2 DEF FreeSlot
  <2>2. 1..k \subseteq used
    <3>1. CASE k = 0
      BY <1>1, <3>1
    <3>2. CASE k > 0
      <4>1. k \in 1..k
        BY <1>1, <3>2
      <4>2. upTo(k) = 1..k
        BY <1>2, <4>1
      <4> QED BY <4>2
    <3> QED BY <1>1, <3>1, <3>2
  <2>3. Cardinality(1..k) = k
    BY <1>1, FS_Interval
  <2>4. 1..k = used
    BY <2>2, <2>3, FS_Subset
  <2> QED BY <1>1, <2>1, <2>4
<1>3. CASE off # {}
  <2> DEFINE i == CHOOSE x \in off : \A y \in off : x <= y
  <2>1. FreeSlot(used) = i
    BY <1>3 DEF FreeSlot
  <2>2. \E x \in off : \A y \in off : x <= y
    <3> DEFINE R == OpToRel(<, Nat)
    <3>1. IsWellFoundedOn(R, Nat) /\ \A x, y \in Nat : y < x => <<y, x>> \in R
      BY NatLessThanWellFounded DEF OpToRel
    <3> HIDE DEF R
    <3>2. off \in SUBSET Nat
      BY <1>1
    <3> HIDE DEF off
    <3>3. PICK x \in off : \A y \in off : ~(<<y, x>> \in R)
      BY <1>3, <3>1, <3>2, WFMin
    <3>4. ASSUME NEW y \in off PROVE x <= y
      <4>1. x \in Nat /\ y \in Nat /\ ~(y < x)
        BY <3>1, <3>2, <3>3
      <4> QED BY <4>1
    <3> QED BY <3>4
  <2>3. i \in off /\ \A y \in off : i <= y
    BY <2>2
  <2> HIDE DEF i
  <2>4. i \in 1..k /\ upTo(i) # 1..i
    BY <2>3
  <2>5. SUFFICES ASSUME i \in used PROVE FALSE
    BY <2>1
  <2>6. upTo(i) = 1..i
    <3>1. ASSUME NEW n \in 1..i
          PROVE  n \in used
      <4>1. CASE n = i
        BY <2>5, <4>1
      <4>2. CASE n # i
        <5> DEFINE j == i - 1
        <5>1. j \in 1..k /\ j < i /\ n \in 1..j
          BY <1>1, <2>4, <3>1, <4>2
        <5>2. j \notin off
          BY <2>3, <2>4, <5>1
        <5>3. upTo(j) = 1..j
          BY <5>1, <5>2
        <5> QED BY <5>1, <5>3
      <4> QED BY <4>1, <4>2
    <3>2. ASSUME NEW n \in used, n <= i
          PROVE  n \in 1..i
      BY <2>4, <3>2
    <3>3. \A n \in 1..i : n <= i
      BY <1>1, <2>4
    <3>4. upTo(i) \subseteq 1..i /\ 1..i \subseteq upTo(i)
      BY <3>1, <3>2, <3>3
    <3> QED BY <3>4
  <2> QED BY <2>4, <2>6
<1> QED BY <1>2, <1>3

-----------------------------------------------------------------------------
(* The requests. *)

Creates(c) == call[c].at # "idle" /\ call[c].req.kind = "create"

\* vmrest gives a device a subnet of its own choice only if it is bridged.
OwnSubnet(r) == r.subnet # NoSubnet /\ r.type # "bridged"

\* netLock excludes every two changes.
LockHeld == \A c \in Callers : call[c].at = "running" /\ Locked(call[c].req) => netLock = c

\* A request comes to its own commands only, and names the device it is about;
\* what another client named is in "edited".
RequestOK(c) ==
  /\ call[c].at = "running" => call[c].next \in CommandsOf(call[c].req)
  /\ call[c].at = "queued" \/ (call[c].at = "running" /\ call[c].next # "done") => call[c].ok
  /\ \/ call[c].req.kind # "create" \/ call[c].req.slot # NoSlot \/ call[c].at = "queued"
     \/ call[c].next \in {"getunusedvnet", "setVmnetName"}
     => call[c].slot = call[c].req.slot
  /\ call[c].next \in {"getunusedvnet", "setVmnetName"} => call[c].req.slot = NoSlot
  /\ call[c].req.kind \in {"update", "delete"} => call[c].req.slot \in edited
  /\ call[c].req.kind = "create" => call[c].req.slot \in edited \cup {NoSlot}

HasSubnet(c) ==
  vmnet[call[c].slot].exists
    /\ (OwnSubnet(call[c].req) => vmnet[call[c].slot].subnet = call[c].req.subnet)

\* The device is made, enabled and on its subnet, unless another client had a
\* hand in it.
Built(c) ==
  /\ call[c].slot \in Slots
  /\ call[c].slot \notin edited => HasSubnet(c) /\ vmnet[call[c].slot].on

\* How far a creation in progress has brought its device.
Progress(c) ==
  LET next == call[c].next
      n == call[c].slot
  IN /\ next \notin {"getunusedvnet", "setVmnetName", "refuse", "done"} => n \in Slots
     /\ next \in Serving => Built(c)
     /\ next = "done" /\ call[c].ok => Built(c)
     /\ n \in Slots \ edited =>
          /\ next = "addadapter" => ~vmnet[n].exists
          /\ next \in {"setsubnetmask", "setsubnetaddr"} => vmnet[n].exists /\ vmnet[n].subnet = NoSubnet
          /\ next = "enable" => HasSubnet(c)
     /\ driver = "vmrest" /\ OwnSubnet(call[c].req) => next = "refuse" \/ (next = "done" /\ ~call[c].ok)
     /\ driver = "vmrest" /\ next = "post" /\ call[c].req.slot = NoSlot =>
          n \notin Existing \/ 0 \in Existing

CallsInv ==
  /\ LockHeld
  /\ \A c \in Callers : call[c].at # "idle" => RequestOK(c)
  /\ \A c \in Callers : call[c].at = "running" /\ Creates(c) => Progress(c)
  /\ \A c \in Callers : call[c].at = "answered" /\ Creates(c) /\ call[c].ok => Built(c)

\* The types of what the utility changes.
DriverTypes ==
  /\ driver \in Drivers /\ vmnet \in [Slots -> Device]
  /\ netLock \in Callers \cup {NoCaller} /\ call \in [Callers -> Call]

\* What every step of the utility does to the request.
LEMMA ServeShape ==
  ASSUME DriverTypes, CallsInv, NEW c \in Callers, Serve(c)
  PROVE  /\ call[c].at \in {"queued", "running"} /\ call'[c].at \in {"running", "answered"}
         /\ call'[c].at = "answered" => call[c].at = "running" /\ call[c].next = "done"
         /\ call'[c].req = call[c].req /\ call[c].req \in Request
         /\ \A q \in Callers \ {c} : call'[q] = call[q]
         /\ call' \in [Callers -> Call] /\ driver' = driver
<1>1. /\ call \in [Callers -> Call] /\ call[c] \in Call /\ call[c].req \in Request
      /\ call[c].slot \in Slots \cup {NoSlot} /\ driver \in Drivers
  BY DEF DriverTypes, Call
<1>2. driver' = driver
  BY DEF Serve, Enter, GetUnusedDevice, SetVmnetName, Post, Run, CommandFails, Answer
<1>3. call[c].at = "running" => call[c].next \in CommandsOf(call[c].req)
  BY DEF CallsInv, RequestOK
<1>4. CASE Enter(c)
  <2> DEFINE next == First(call[c].req)
  <2>1. call[c].at = "queued" /\ call' = [call EXCEPT ![c].at = "running", ![c].next = next]
    BY <1>4 DEF Enter
  <2>2. next \in Command
    BY <1>1, CommandsFollow
  <2> HIDE DEF next
  <2>3. call'[c] = [call[c] EXCEPT !.at = "running", !.next = next]
    BY <1>1, <2>1
  <2>4. call'[c] \in Call /\ call'[c].at = "running" /\ call'[c].req = call[c].req
    BY <1>1, <2>2, <2>3 DEF Call
  <2> QED BY <1>1, <1>2, <2>1, <2>4
<1>5. ASSUME NEW n \in Slots, GoesOn(c, n), call[c].at = "running"
      PROVE  /\ call'[c].at = "running" /\ call'[c].req = call[c].req
             /\ \A q \in Callers \ {c} : call'[q] = call[q]
             /\ call' \in [Callers -> Call]
  <2> DEFINE next == After(call[c].next, call[c].req, Served(call[c].next, n))
  <2>1. next \in Command
    BY <1>1, <1>3, <1>5, CommandsFollow
  <2>2. call' = [call EXCEPT ![c].slot = n, ![c].next = next]
    BY <1>1, <1>5 DEF GoesOn
  <2> HIDE DEF next
  <2>3. call'[c] = [call[c] EXCEPT !.slot = n, !.next = next]
    BY <1>1, <2>2
  <2>4. call'[c] \in Call /\ call'[c].at = "running" /\ call'[c].req = call[c].req
    BY <1>1, <1>5, <2>1, <2>3 DEF Call
  <2> QED BY <1>1, <2>2, <2>4
<1>6. CASE GetUnusedDevice(c) \/ SetVmnetName(c) \/ Post(c) \/ Run(c)
  <2>1. call[c].at = "running" /\ \E n \in Slots : GoesOn(c, n)
    BY <1>6 DEF GetUnusedDevice, SetVmnetName, Post, Run, Doing
  <2> QED BY <1>1, <1>2, <1>5, <2>1
<1>7. CASE CommandFails(c)
  <2> DEFINE next == After(call[c].next, call[c].req, FALSE)
  <2>1. call[c].at = "running" /\ next \in Command
    <3>1. call[c].at = "running"
      BY <1>7 DEF CommandFails
    <3> QED BY <1>1, <1>3, <3>1, CommandsFollow
  <2>2. \/ call' = [call EXCEPT ![c].next = next]
        \/ call' = [call EXCEPT ![c].next = "done", ![c].ok = FALSE]
    BY <1>1, <1>7 DEF CommandFails
  <2> HIDE DEF next
  <2>3. \/ call'[c] = [call[c] EXCEPT !.next = next]
        \/ call'[c] = [call[c] EXCEPT !.next = "done", !.ok = FALSE]
    BY <1>1, <2>2
  <2>4. call'[c] \in Call /\ call'[c].at = "running" /\ call'[c].req = call[c].req
    BY <1>1, <2>1, <2>3 DEF Call, Command
  <2> QED BY <1>1, <1>2, <2>1, <2>2, <2>4
<1>8. CASE Answer(c)
  <2>1. call[c].at = "running" /\ call[c].next = "done" /\ call' = [call EXCEPT ![c].at = "answered"]
    BY <1>8 DEF Answer, Doing
  <2>2. call'[c] \in Call /\ call'[c].at = "answered" /\ call'[c].req = call[c].req
    BY <1>1, <2>1 DEF Call
  <2> QED BY <1>1, <1>2, <2>1, <2>2
<1> QED BY <1>4, <1>6, <1>7, <1>8 DEF Serve

-----------------------------------------------------------------------------
(* The devices. *)

\* A step leaves alone what the others rely on.
SameDevice(n) ==
  /\ vmnet'[n].exists = vmnet[n].exists /\ vmnet'[n].on = vmnet[n].on
  /\ vmnet'[n].subnet = vmnet[n].subnet

\* What is there stays there, up and on its subnet.
Lasting(n) ==
  vmnet[n].exists =>
    /\ vmnet'[n].exists
    /\ vmnet[n].on => vmnet'[n].on
    /\ vmnet[n].subnet # NoSubnet => vmnet'[n].subnet = vmnet[n].subnet

\* The effects of the commands on a device.
LEMMA EffectOf ==
  ASSUME NEW d \in Device, NEW r \in Request, NEW c, NEW e, e = Effect(c, d, r)
  PROVE  /\ e \in Device
         /\ c \notin {"addadapter", "removeadapter", "setsubnetaddr", "enable", "disable"} =>
              e.exists = d.exists /\ e.on = d.on /\ e.subnet = d.subnet
         /\ c = "addadapter" =>
              IF d.exists THEN e = d ELSE e.exists /\ ~e.on /\ e.subnet = NoSubnet
         /\ c = "setsubnetaddr" => e.exists = d.exists /\ e.on = d.on /\ e.subnet = r.subnet
         /\ c = "enable" => e.exists = d.exists /\ e.on /\ e.subnet = d.subnet
<1>1. r.subnet \in Subnets \cup {NoSubnet}
  BY DEF Request
<1>2. CASE c = "addadapter"
  BY <1>2 DEF Effect, Absent, Device
<1>3. CASE c = "removeadapter"
  BY <1>3 DEF Effect, Absent, Device
<1>4. CASE c \in {"setsubnetaddr", "enable", "disable"}
  BY <1>1, <1>4 DEF Effect, SetSubnet, Enable, Device
<1>5. CASE c \in {"use dhcp", "drop dhcp", "use nat", "drop nat"}
  <2>1. \E uses \in SUBSET Services : e = [d EXCEPT !.uses = uses]
    <3>1. d.uses \in SUBSET Services /\ {"dhcp", "nat"} \subseteq Services
      BY DEF Device, Services
    <3>2. \A s \in {"dhcp", "nat"} : d.uses \cup {s} \in SUBSET Services /\ d.uses \ {s} \in SUBSET Services
      BY <3>1
    <3> QED BY <1>5, <3>2 DEF Effect, SetUsage
  <2> QED BY <1>5, <2>1 DEF Device
<1>6. CASE c \in {"start dhcp", "stop dhcp", "start nat", "stop nat"}
  <2>1. \E runs \in SUBSET Services : e = [d EXCEPT !.runs = runs]
    <3>1. d.runs \in SUBSET Services /\ {"dhcp", "nat"} \subseteq Services
      BY DEF Device, Services
    <3>2. \A s \in {"dhcp", "nat"} : d.runs \cup {s} \in SUBSET Services /\ d.runs \ {s} \in SUBSET Services
      BY <3>1
    <3> QED BY <1>6, <3>2 DEF Effect, Start, Stop
  <2> QED BY <1>6, <2>1 DEF Device
<1>7. CASE c \notin {"addadapter", "removeadapter", "setsubnetaddr", "enable", "disable", "use dhcp",
                      "drop dhcp", "use nat", "drop nat", "start dhcp", "stop dhcp", "start nat", "stop nat"}
  BY <1>7 DEF Effect
<1> QED BY <1>2, <1>3, <1>4, <1>5, <1>6, <1>7

\* A command of vnetlib runs under the advanced driver, on the device of its
\* request, which it changes so.
LEMMA RunOf ==
  ASSUME DriverTypes, CallsInv, NEW c \in Callers, Run(c)
  PROVE  LET n == call[c].slot
             r == call[c].req
         IN /\ driver = "advanced" /\ call[c].at = "running" /\ n \in Slots /\ r \in Request
            /\ call[c].next \in CommandsOf(r) \ Special
            /\ vmnet[n] \in Device /\ vmnet'[n] = Effect(call[c].next, vmnet[n], r)
            /\ \A k \in Slots : k # n => vmnet'[k] = vmnet[k]
            /\ vmnet' \in [Slots -> Device]
            /\ Possible(call[c].next, vmnet[n]) /\ GoesOn(c, n)
<1> DEFINE n == call[c].slot
           r == call[c].req
<1>1. /\ call[c].at = "running" /\ call[c].next \notin Special /\ n \in Slots
      /\ Possible(call[c].next, vmnet[n]) /\ GoesOn(c, n)
      /\ vmnet' = [vmnet EXCEPT ![n] = Effect(call[c].next, @, r)]
  BY DEF Run
<1>2. call[c].next \in CommandsOf(r)
  BY <1>1 DEF CallsInv, RequestOK
<1>3. driver = "advanced"
  BY <1>1, <1>2 DEF DriverTypes, Drivers, CommandsOf, PostCommands, Special
<1>4. r \in Request /\ vmnet \in [Slots -> Device]
  BY DEF DriverTypes, Call
<1>5. Effect(call[c].next, vmnet[n], r) \in Device
  BY <1>1, <1>4, EffectOf
<1> QED BY <1>1, <1>2, <1>3, <1>4, <1>5

\* What vmrest knows of a device that it is asked for, and the utility that asks.
LEMMA PostOf ==
  ASSUME DriverTypes, CallsInv, NEW c \in Callers, Post(c)
  PROVE  LET n == call[c].slot
         IN /\ driver = "vmrest" /\ call[c].at = "running" /\ call[c].next = "post"
            /\ call[c].req.kind = "create"
            /\ n \in Slots /\ ~vmnet[n].exists
            /\ vmnet'[n].exists /\ vmnet'[n].on /\ vmnet'[n].subnet \in Subnets
            /\ \A k \in Existing : vmnet[k].subnet # vmnet'[n].subnet
            /\ \A k \in Slots : k # n => vmnet'[k] = vmnet[k]
            /\ vmnet' \in [Slots -> Device]
            /\ GoesOn(c, n)
<1> DEFINE n == call[c].slot
           wanted == Wanted(call[c].req)
<1>1. /\ call[c].at = "running" /\ call[c].next = "post" /\ n \in Slots \ Existing /\ GoesOn(c, n)
  BY DEF Post, Doing
<1>2. vmnet \in [Slots -> Device] /\ wanted \in SUBSET Services /\ call[c].req \in Request
  BY DEF DriverTypes, Wanted, Call
<1>3. PICK s \in Subnets \ {vmnet[k].subnet : k \in Existing} :
        vmnet' = [vmnet EXCEPT ![n] = [exists |-> TRUE, subnet |-> s, on |-> TRUE,
                                       uses |-> wanted, runs |-> wanted]]
  BY DEF Post
<1> DEFINE new == [exists |-> TRUE, subnet |-> s, on |-> TRUE, uses |-> wanted, runs |-> wanted]
<1>4. new \in Device /\ new.exists = TRUE /\ new.on = TRUE /\ new.subnet = s
  BY <1>2 DEF Device
<1>5. call[c].next \in CommandsOf(call[c].req)
  BY <1>1 DEF CallsInv, RequestOK
<1>6. driver = "vmrest"
  BY <1>1, <1>2, <1>5 DEF DriverTypes, Drivers, CommandsOf, AddCommands, UpdateCommands,
     DeleteCommands, ReserveCommands, Request
<1>7. call[c].req.kind = "create"
  BY <1>1, <1>5, <1>6 DEF CommandsOf
<1> HIDE DEF new, wanted
<1> QED BY <1>1, <1>2, <1>3, <1>4, <1>6, <1>7 DEF Existing, new

\* The other steps change no device; what they do to the request.
LEMMA EnterOf ==
  ASSUME DriverTypes, NEW c \in Callers, Enter(c)
  PROVE  /\ call[c].at = "queued" /\ call'[c].at = "running" /\ call'[c].next = First(call[c].req)
         /\ call'[c].slot = call[c].slot /\ call'[c].ok = call[c].ok
         /\ Locked(call[c].req) => netLock = NoCaller /\ netLock' = c
         /\ ~Locked(call[c].req) => netLock' = netLock
         /\ vmnet' = vmnet
<1>1. call[c] \in Call /\ call \in [Callers -> Call]
  BY DEF DriverTypes
<1>2. /\ call[c].at = "queued" /\ vmnet' = vmnet
      /\ call' = [call EXCEPT ![c].at = "running", ![c].next = First(call[c].req)]
      /\ Locked(call[c].req) => netLock = NoCaller /\ netLock' = c
      /\ ~Locked(call[c].req) => netLock' = netLock
  BY DEF Enter
<1> DEFINE next == First(call[c].req)
<1> HIDE DEF next
<1>3. call'[c] = [call[c] EXCEPT !.at = "running", !.next = next]
  BY <1>1, <1>2 DEF next
<1> QED BY <1>1, <1>2, <1>3 DEF Call, next

\* A command of vnetlib that does its work, after which the request goes on.
LEMMA GoesOnOf ==
  ASSUME DriverTypes, NEW c \in Callers, NEW n, GoesOn(c, n)
  PROVE  /\ call'[c].at = call[c].at /\ call'[c].slot = n /\ call'[c].ok = call[c].ok
         /\ \E runs : call'[c].next = After(call[c].next, call[c].req, runs)
<1>1. call[c] \in Call /\ call \in [Callers -> Call]
  BY DEF DriverTypes
<1> DEFINE next == After(call[c].next, call[c].req, Served(call[c].next, n))
<1>2. call' = [call EXCEPT ![c].slot = n, ![c].next = next]
  BY <1>1 DEF GoesOn
<1>3. \E runs : next = After(call[c].next, call[c].req, runs)
  OBVIOUS
<1> HIDE DEF next
<1>4. call'[c] = [call[c] EXCEPT !.slot = n, !.next = next]
  BY <1>1, <1>2
<1> QED BY <1>1, <1>3, <1>4 DEF Call

\* A command of vnetlib that fails.
LEMMA FailsOf ==
  ASSUME DriverTypes, NEW c \in Callers, CommandFails(c)
  PROVE  /\ call[c].at = "running" /\ call[c].next # "done"
         /\ call'[c].at = "running" /\ call'[c].slot = call[c].slot
         /\ vmnet' = vmnet /\ netLock' = netLock
         /\ \/ call'[c].next = "done" /\ ~call'[c].ok
            \/ /\ call[c].next \in {"start nat", "stop dhcp", "status dhcp", "status nat"}
               /\ call'[c].ok = call[c].ok
               /\ \E runs : call'[c].next = After(call[c].next, call[c].req, runs)
<1>1. call[c] \in Call /\ call \in [Callers -> Call]
  BY DEF DriverTypes
<1> DEFINE next == After(call[c].next, call[c].req, FALSE)
<1>2. /\ call[c].at = "running" /\ call[c].next # "done" /\ vmnet' = vmnet /\ netLock' = netLock
      /\ \/ /\ call[c].next \in {"start nat", "stop dhcp", "status dhcp", "status nat"}
            /\ call' = [call EXCEPT ![c].next = next]
         \/ call' = [call EXCEPT ![c].next = "done", ![c].ok = FALSE]
  BY <1>1 DEF CommandFails, Tolerated
<1>3. \E runs : next = After(call[c].next, call[c].req, runs)
  OBVIOUS
<1> HIDE DEF next
<1>4. CASE call' = [call EXCEPT ![c].next = "done", ![c].ok = FALSE]
  <2>1. call'[c] = [call[c] EXCEPT !.next = "done", !.ok = FALSE]
    BY <1>1, <1>4
  <2> QED BY <1>1, <1>2, <2>1 DEF Call
<1>5. CASE /\ call[c].next \in {"start nat", "stop dhcp", "status dhcp", "status nat"}
           /\ call' = [call EXCEPT ![c].next = next]
  <2>1. call'[c] = [call[c] EXCEPT !.next = next]
    BY <1>1, <1>5
  <2> QED BY <1>1, <1>2, <1>3, <1>5, <2>1 DEF Call
<1> QED BY <1>2, <1>4, <1>5

\* A request with no command left is answered.
LEMMA AnswerOf ==
  ASSUME DriverTypes, NEW c \in Callers, Answer(c)
  PROVE  /\ call[c].at = "running" /\ call[c].next = "done" /\ call'[c].at = "answered"
         /\ call'[c].next = "done" /\ call'[c].slot = call[c].slot /\ call'[c].ok = call[c].ok
         /\ netLock' = IF netLock = c THEN NoCaller ELSE netLock
         /\ vmnet' = vmnet
<1>1. call[c] \in Call /\ call \in [Callers -> Call]
  BY DEF DriverTypes
<1>2. /\ call[c].at = "running" /\ call[c].next = "done" /\ call' = [call EXCEPT ![c].at = "answered"]
      /\ netLock' = (IF netLock = c THEN NoCaller ELSE netLock) /\ vmnet' = vmnet
  BY DEF Answer, Doing
<1>3. call'[c] = [call[c] EXCEPT !.at = "answered"]
  BY <1>1, <1>2
<1> QED BY <1>1, <1>2, <1>3 DEF Call

\* A name is found for a request that brought none.
LEMMA NamedOf ==
  ASSUME DriverTypes, CallsInv, NEW c \in Callers, GetUnusedDevice(c) \/ SetVmnetName(c)
  PROVE  /\ call[c].at = "running" /\ call[c].req.slot = NoSlot /\ call[c].req.kind = "create"
         /\ call'[c].at = "running" /\ call'[c].slot \in Slots /\ call'[c].ok = call[c].ok
         /\ \/ /\ driver = "advanced" /\ call'[c].slot \notin Existing
               /\ call'[c].next = "addadapter"
            \/ /\ driver = "vmrest" /\ call'[c].slot = FreeSlot(Existing)
               /\ call[c].next = "setVmnetName" /\ call'[c].next = "post"
         /\ vmnet' = vmnet /\ netLock' = netLock
<1>1. /\ call[c].at = "running" /\ call[c].next \in {"getunusedvnet", "setVmnetName"}
      /\ vmnet' = vmnet /\ netLock' = netLock
  BY DEF GetUnusedDevice, SetVmnetName, Doing
<1>2. /\ call[c].req.slot = NoSlot /\ call[c].next \in CommandsOf(call[c].req)
      /\ driver \in {"advanced", "vmrest"} /\ call[c].req \in Request
  BY <1>1 DEF CallsInv, RequestOK, DriverTypes, Drivers, Call
<1>3. /\ call[c].req.kind = "create"
      /\ driver = "advanced" => call[c].next = "getunusedvnet"
      /\ driver = "vmrest" => call[c].next = "setVmnetName"
  BY <1>1, <1>2 DEF CommandsOf, AddCommands, UpdateCommands, DeleteCommands, ReserveCommands,
     PostCommands, Request
<1>4. CASE driver = "advanced"
  <2>1. PICK n \in Slots \ Existing : GoesOn(c, n)
    BY <1>3, <1>4 DEF GetUnusedDevice, SetVmnetName, Doing
  <2>2. PICK runs : call'[c].next = After("getunusedvnet", call[c].req, runs)
    BY <1>3, <1>4, <2>1, GoesOnOf
  <2>3. call'[c].next = "addadapter"
    BY <1>3, <1>4, <2>2 DEF After, NextOfAdd
  <2> QED BY <1>1, <1>2, <1>3, <1>4, <2>1, <2>3, GoesOnOf
<1>5. CASE driver = "vmrest"
  <2>1. FreeSlot(Existing) \in Slots /\ GoesOn(c, FreeSlot(Existing))
    BY <1>3, <1>5 DEF GetUnusedDevice, SetVmnetName, Doing
  <2>2. PICK runs : call'[c].next = After("setVmnetName", call[c].req, runs)
    BY <1>3, <1>5, <2>1, GoesOnOf
  <2>3. call'[c].next = "post"
    BY <1>3, <1>5, <2>2 DEF After, NextOfPost
  <2> QED BY <1>1, <1>2, <1>3, <1>5, <2>1, <2>3, GoesOnOf
<1> QED BY <1>2, <1>4, <1>5

\* What a step of the utility does to the devices.
LEMMA ServeDevices ==
  ASSUME DriverTypes, CallsInv, NEW c \in Callers, Serve(c)
  PROVE  /\ vmnet' \in [Slots -> Device]
         /\ \A n \in Slots : n # call[c].slot => vmnet'[n] = vmnet[n]
         /\ \/ vmnet' = vmnet
            \/ call[c].at = "running" /\ Locked(call[c].req)
            \/ \A n \in Slots : SameDevice(n)
         /\ \A n \in Slots \ edited : Lasting(n)
<1> DEFINE r == call[c].req
           n == call[c].slot
<1>1. CASE Run(c)
  <2>1. /\ driver = "advanced" /\ call[c].at = "running" /\ n \in Slots /\ r \in Request
        /\ call[c].next \in CommandsOf(r) \ Special
        /\ vmnet[n] \in Device /\ vmnet'[n] = Effect(call[c].next, vmnet[n], r)
        /\ \A k \in Slots : k # n => vmnet'[k] = vmnet[k]
        /\ vmnet' \in [Slots -> Device]
    BY <1>1, RunOf
  <2> DEFINE next == call[c].next
             d == vmnet[n]
             e == vmnet'[n]
  <2>0. /\ next \notin {"addadapter", "removeadapter", "setsubnetaddr", "enable", "disable"} =>
              e.exists = d.exists /\ e.on = d.on /\ e.subnet = d.subnet
        /\ next = "addadapter" /\ d.exists => e = d
        /\ next = "setsubnetaddr" => e.exists = d.exists /\ e.on = d.on /\ e.subnet = r.subnet
        /\ next = "enable" => e.exists = d.exists /\ e.on /\ e.subnet = d.subnet
    <3> HIDE DEF next, d, e, r
    <3>1. d \in Device /\ r \in Request /\ e = Effect(next, d, r)
      BY <2>1 DEF next, d, e, r
    <3> QED BY <3>1, EffectOf
  <2>2. r.kind = "reserve" => SameDevice(n)
    <3>1. r.kind = "reserve" => next \in ReserveCommands
      BY <2>1 DEF CommandsOf
    <3> QED BY <2>0, <3>1 DEF ReserveCommands, SameDevice
  <2>3. n \notin edited => Lasting(n)
    <3> SUFFICES ASSUME n \notin edited PROVE Lasting(n)
      OBVIOUS
    <3>1. r.kind \in {"create", "reserve"}
      BY <2>1 DEF CallsInv, RequestOK, Request
    <3>2. CASE r.kind = "create"
      <4>1. Progress(c) /\ call[c].next \in AddCommands
        BY <2>1, <3>2 DEF CallsInv, Creates, CommandsOf
      <4>2. /\ call[c].next = "addadapter" => ~vmnet[n].exists
            /\ call[c].next = "setsubnetaddr" => vmnet[n].subnet = NoSubnet
        BY <2>1, <4>1 DEF Progress
      <4> QED BY <2>0, <4>1, <4>2 DEF AddCommands, Lasting
    <3>3. CASE r.kind = "reserve"
      BY <2>2, <3>3 DEF Lasting, SameDevice
    <3> QED BY <3>1, <3>2, <3>3
  <2>4. \A k \in Slots \ edited : Lasting(k)
    BY <2>1, <2>3 DEF Lasting
  <2> QED BY <2>1, <2>2, <2>4 DEF Locked, SameDevice
<1>2. CASE Post(c)
  BY <1>2, PostOf DEF Lasting, Locked
<1>3. CASE Enter(c) \/ GetUnusedDevice(c) \/ SetVmnetName(c) \/ CommandFails(c) \/ Answer(c)
  <2>1. vmnet' = vmnet
    BY <1>3 DEF Enter, GetUnusedDevice, SetVmnetName, CommandFails, Answer
  <2> QED BY <2>1 DEF DriverTypes, Lasting
<1> QED BY <1>1, <1>2, <1>3 DEF Serve

\* The request itself.
LEMMA RequestKept ==
  ASSUME DriverTypes, CallsInv, NEW c \in Callers, Serve(c), edited' = edited
  PROVE  RequestOK(c)'
<1> DEFINE r == call[c].req
<1>1. /\ call[c].at \in {"queued", "running"} /\ call'[c].req = r /\ r \in Request
      /\ call'[c].at \in {"running", "answered"} /\ driver' = driver /\ driver \in {"advanced", "vmrest"}
      /\ RequestOK(c)
  BY ServeShape DEF CallsInv, DriverTypes, Drivers
<1>2. CommandsOf(r)' = CommandsOf(r)
  BY <1>1 DEF CommandsOf
<1>3. SUFFICES /\ call'[c].at = "running" => call'[c].next \in CommandsOf(r)
               /\ call'[c].at = "running" /\ call'[c].next # "done" => call'[c].ok
               /\ \/ r.kind # "create" \/ r.slot # NoSlot
                  \/ call'[c].next \in {"getunusedvnet", "setVmnetName"}
                  => call'[c].slot = r.slot
               /\ call'[c].next \in {"getunusedvnet", "setVmnetName"} => r.slot = NoSlot
  BY <1>1, <1>2 DEF RequestOK
<1>4. driver \in Drivers
  BY DEF DriverTypes
<1>5. ASSUME NEW runs, call[c].at = "running", call'[c].next = After(call[c].next, r, runs)
      PROVE  call'[c].next \in CommandsOf(r) /\ call'[c].next \notin {"getunusedvnet", "setVmnetName"}
  <2>1. call[c].next \in CommandsOf(r) /\ call'[c].next \in CommandsOf(r)
    BY <1>1, <1>4, <1>5, CommandsFollow DEF RequestOK
  <2>2. CASE r.kind # "create"
    BY <1>1, <2>1, <2>2 DEF CommandsOf, UpdateCommands, DeleteCommands, ReserveCommands, Request
  <2>3. CASE r.kind = "create" /\ driver = "advanced"
    <3>1. call[c].next \in AddCommands
      BY <2>1, <2>3 DEF CommandsOf
    <3>2. call'[c].next # "getunusedvnet"
      BY <1>1, <1>5, <2>3, <3>1, AddOrder
    <3> QED BY <2>1, <2>3, <3>2 DEF CommandsOf, AddCommands
  <2>4. CASE r.kind = "create" /\ driver = "vmrest"
    <3>1. call[c].next \in PostCommands
      BY <2>1, <2>4 DEF CommandsOf
    <3> QED BY <1>1, <1>5, <2>1, <2>4, <3>1, PostOrder
  <2> QED BY <1>1, <2>2, <2>3, <2>4
<1>6. CASE Enter(c)
  <2>1. /\ call'[c].next = First(r) /\ call'[c].slot = call[c].slot /\ call'[c].ok
        /\ call'[c].at = "running" /\ call[c].at = "queued"
    BY <1>1, <1>6, EnterOf DEF RequestOK
  <2>2. First(r) \in CommandsOf(r)
    BY <1>1, <1>4, CommandsFollow
  <2>3. First(r) \in {"getunusedvnet", "setVmnetName"} => r.slot = NoSlot
    BY <1>1 DEF First, FirstOfVmrest, FirstOfAdvanced, Request
  <2> QED BY <1>1, <2>1, <2>2, <2>3 DEF RequestOK
<1>7. CASE GetUnusedDevice(c) \/ SetVmnetName(c)
  <2>1. /\ call[c].at = "running" /\ r.slot = NoSlot /\ r.kind = "create"
        /\ call'[c].ok = call[c].ok /\ call[c].next # "done"
        /\ \/ driver = "advanced" /\ call'[c].next = "addadapter"
           \/ driver = "vmrest" /\ call'[c].next = "post"
    BY <1>7, NamedOf DEF GetUnusedDevice, SetVmnetName, Doing
  <2>2. call'[c].next \in CommandsOf(r)
    BY <2>1 DEF CommandsOf, AddCommands, PostCommands
  <2> QED BY <1>1, <2>1, <2>2 DEF RequestOK
<1>8. CASE Post(c) \/ Run(c)
  <2>1. call[c].at = "running" /\ call[c].next # "done" /\ GoesOn(c, call[c].slot)
    BY <1>8 DEF Post, Run, Doing, Special
  <2>2. /\ call'[c].slot = call[c].slot /\ call'[c].ok = call[c].ok
        /\ \E runs : call'[c].next = After(call[c].next, r, runs)
    BY <2>1, GoesOnOf
  <2> QED BY <1>1, <1>5, <2>1, <2>2 DEF RequestOK
<1>9. CASE CommandFails(c)
  <2>1. /\ call[c].at = "running" /\ call[c].next # "done" /\ call'[c].slot = call[c].slot
        /\ \/ call'[c].next = "done" /\ ~call'[c].ok
           \/ /\ call'[c].ok = call[c].ok
              /\ \E runs : call'[c].next = After(call[c].next, r, runs)
    BY <1>9, FailsOf
  <2>2. "done" \in CommandsOf(r)
    BY <1>1 DEF CommandsOf, AddCommands, UpdateCommands, DeleteCommands, ReserveCommands, PostCommands, Request
  <2> QED BY <1>1, <1>5, <2>1, <2>2 DEF RequestOK
<1>10. CASE Answer(c)
  BY <1>1, <1>10, AnswerOf DEF RequestOK
<1> QED BY <1>6, <1>7, <1>8, <1>9, <1>10 DEF Serve

\* A device that is made stays so.
LEMMA BuiltLasts ==
  ASSUME NEW q \in Callers, \A n \in Slots \ edited : Lasting(n), edited \subseteq edited',
         call'[q].slot = call[q].slot, call'[q].req = call[q].req, Built(q)
  PROVE  Built(q)'
<1>1. call[q].slot \in Slots
  BY DEF Built
<1>2. CASE call[q].slot \in edited
  BY <1>1, <1>2 DEF Built
<1>3. CASE call[q].slot \notin edited
  BY <1>1, <1>3 DEF Built, HasSubnet, OwnSubnet, Lasting
<1> QED BY <1>2, <1>3

\* A creation brings its own device further.
LEMMA OwnProgress ==
  ASSUME DriverTypes, CallsInv, NEW c \in Callers, Serve(c), edited' = edited, call[c].req.kind = "create"
  PROVE  /\ call'[c].at = "running" => Progress(c)'
         /\ call'[c].at = "answered" /\ call'[c].ok => Built(c)'
<1> DEFINE r == call[c].req
           n == call[c].slot
           next == call[c].next
<1>1. /\ call[c].at \in {"queued", "running"} /\ call'[c].req = r /\ r \in Request
      /\ driver' = driver /\ driver \in {"advanced", "vmrest"} /\ RequestOK(c)
      /\ vmnet \in [Slots -> Device]
  BY ServeShape DEF CallsInv, DriverTypes, Drivers
<1>2. call[c].at = "running" => Progress(c) /\ next \in CommandsOf(r)
  BY <1>1 DEF CallsInv, Creates, RequestOK
<1>3. \A k \in Slots \ edited : Lasting(k)
  BY ServeDevices
<1>4. CASE Enter(c)
  <2>1. /\ call'[c].next = First(r) /\ call'[c].slot = n /\ call'[c].at = "running" /\ vmnet' = vmnet
        /\ r.slot # NoSlot => n \in edited /\ n \in Slots
    BY <1>1, <1>4, EnterOf DEF RequestOK, Request
  <2>2. CASE driver = "advanced"
    <3>1. First(r) = IF r.slot = NoSlot THEN "getunusedvnet" ELSE "addadapter"
      BY <1>1, <2>2 DEF First, FirstOfAdvanced
    <3> QED BY <1>1, <2>1, <2>2, <3>1 DEF Progress, Serving
  <2>3. CASE driver = "vmrest"
    <3>1. /\ First(r) \in {"refuse", "setVmnetName", "post"}
          /\ OwnSubnet(r) => First(r) = "refuse"
          /\ First(r) = "post" => r.slot # NoSlot
      BY <1>1, <2>3 DEF First, FirstOfVmrest, OwnSubnet
    <3> QED BY <1>1, <2>1, <2>3, <3>1 DEF Progress, Serving
  <2> QED BY <1>1, <2>1, <2>2, <2>3
<1>5. CASE GetUnusedDevice(c) \/ SetVmnetName(c)
  <2>1. /\ call[c].at = "running" /\ call'[c].at = "running" /\ call'[c].slot \in Slots /\ vmnet' = vmnet
        /\ \/ driver = "advanced" /\ call'[c].slot \notin Existing /\ call'[c].next = "addadapter"
           \/ /\ driver = "vmrest" /\ call'[c].slot = FreeSlot(Existing)
              /\ next = "setVmnetName" /\ call'[c].next = "post"
    BY <1>5, NamedOf
  <2>2. CASE driver = "advanced"
    BY <1>1, <2>1, <2>2 DEF Progress, Serving, Existing
  <2>3. CASE driver = "vmrest"
    <3>1. ~OwnSubnet(r)
      BY <1>2, <2>1, <2>3 DEF Progress
    <3>2. 0 \notin Existing => FreeSlot(Existing) \notin Existing
      <4>1. Existing \in SUBSET Slots
        BY DEF Existing
      <4>2. Existing \in SUBSET Nat /\ IsFiniteSet(Existing)
        BY <4>1, SlotsAssumption, FS_Subset
      <4> QED BY <4>2, FreeSlotIsFree
    <3>3. Existing' = Existing
      BY <2>1 DEF Existing
    <3> QED BY <1>1, <2>1, <2>3, <3>1, <3>2, <3>3 DEF Progress, Serving
  <2> QED BY <1>1, <2>1, <2>2, <2>3
<1>6. CASE Post(c)
  <2>1. /\ driver = "vmrest" /\ call[c].at = "running" /\ next = "post" /\ n \in Slots
        /\ vmnet'[n].exists /\ vmnet'[n].on /\ GoesOn(c, n)
    BY <1>6, PostOf
  <2>2. call'[c].slot = n /\ call'[c].at = "running" /\ call'[c].next = "done"
    <3>1. PICK runs : call'[c].next = After(next, r, runs)
      BY <2>1, GoesOnOf
    <3>2. next \in PostCommands
      BY <2>1 DEF PostCommands
    <3>3. call'[c].next = "done"
      BY <1>1, <2>1, <3>1, <3>2, PostOrder
    <3> QED BY <2>1, <3>3, GoesOnOf
  <2>3. ~OwnSubnet(r)
    BY <1>2, <2>1 DEF Progress
  <2>4. Built(c)'
    BY <1>1, <2>1, <2>2, <2>3 DEF Built, HasSubnet
  <2> QED BY <1>1, <2>1, <2>2, <2>3, <2>4 DEF Progress, Serving
<1>7. CASE Run(c)
  <2> DEFINE d == vmnet[n]
             e == vmnet'[n]
             next2 == call'[c].next
  <2>1. /\ driver = "advanced" /\ call[c].at = "running" /\ n \in Slots
        /\ d \in Device /\ e = Effect(next, d, r) /\ GoesOn(c, n)
        /\ next \in AddCommands \ {"getunusedvnet", "done"}
    BY <1>7, RunOf DEF CommandsOf, Special
  <2>2. /\ next \notin {"addadapter", "removeadapter", "setsubnetaddr", "enable", "disable"} =>
             e.exists = d.exists /\ e.on = d.on /\ e.subnet = d.subnet
        /\ next = "addadapter" /\ ~d.exists => e.exists /\ ~e.on /\ e.subnet = NoSubnet
        /\ next = "setsubnetaddr" => e.exists = d.exists /\ e.on = d.on /\ e.subnet = r.subnet
        /\ next = "enable" => e.exists = d.exists /\ e.on /\ e.subnet = d.subnet
    <3> HIDE DEF next, d, e, r
    <3> QED BY <1>1, <2>1, EffectOf
  <2>3. /\ call'[c].slot = n /\ call'[c].at = "running"
        /\ next2 \in AddCommands /\ next2 # "getunusedvnet" /\ next2 # "addadapter"
        /\ next2 = "setsubnetmask" => next = "addadapter"
        /\ next2 = "setsubnetaddr" => next = "setsubnetmask"
        /\ next2 = "enable" => next = "setsubnetaddr" \/ (next = "addadapter" /\ r.subnet = NoSubnet)
        /\ next2 \in Serving \cup {"done"} => next \in {"enable"} \cup Serving
    <3>1. PICK runs : next2 = After(next, r, runs)
      BY <2>1, GoesOnOf
    <3>2. next2 \in AddCommands
      <4>1. next \in CommandsOf(r) /\ CommandsOf(r) = AddCommands
        BY <1>2, <2>1 DEF CommandsOf
      <4> QED BY <1>1, <3>1, <4>1, CommandsFollow DEF Drivers
    <3> HIDE DEF next, next2, r
    <3>3. next \in AddCommands
      BY <2>1
    <3>4. /\ next2 # "getunusedvnet"
          /\ next2 = "addadapter" => next = "getunusedvnet"
          /\ next2 = "setsubnetmask" => next = "addadapter"
          /\ next2 = "setsubnetaddr" => next = "setsubnetmask"
          /\ next2 = "enable" => next = "setsubnetaddr" \/ (next = "addadapter" /\ r.subnet = NoSubnet)
          /\ next2 \in Serving \cup {"done"} => next \in {"enable", "done"} \cup Serving
      BY <1>1, <2>1, <3>1, <3>3, AddOrder DEF r
    <3>5. call'[c].slot = n /\ call'[c].at = "running"
      BY <2>1, GoesOnOf
    <3> QED BY <2>1, <3>2, <3>4, <3>5
  <2>4. /\ n \notin edited =>
             /\ next = "addadapter" => ~d.exists
             /\ next \in {"setsubnetmask", "setsubnetaddr"} => d.exists /\ d.subnet = NoSubnet
             /\ next = "enable" => HasSubnet(c)
             /\ next \in Serving => HasSubnet(c) /\ d.on
    BY <1>2, <2>1 DEF Progress, Built
  <2>5. next2 \in Serving \cup {"done"} => Built(c)'
    BY <1>1, <2>1, <2>2, <2>3, <2>4 DEF Built, HasSubnet, Serving
  <2>6. n \notin edited /\ next2 = "enable" => HasSubnet(c)'
    BY <1>1, <2>1, <2>2, <2>3, <2>4 DEF HasSubnet, OwnSubnet
  <2>7. n \notin edited /\ next2 \in {"setsubnetmask", "setsubnetaddr"} => e.exists /\ e.subnet = NoSubnet
    BY <2>2, <2>3, <2>4
  <2> QED BY <1>1, <2>1, <2>3, <2>5, <2>6, <2>7 DEF Progress
<1>8. CASE CommandFails(c)
  <2>1. /\ call[c].at = "running" /\ call'[c].slot = n /\ vmnet' = vmnet /\ call'[c].at = "running"
        /\ \/ call'[c].next = "done" /\ ~call'[c].ok
           \/ /\ next \in {"start nat", "stop dhcp", "status dhcp", "status nat"}
              /\ \E runs : call'[c].next = After(next, r, runs)
    BY <1>8, FailsOf
  <2>2. CASE call'[c].next = "done" /\ ~call'[c].ok
    BY <1>1, <2>1, <2>2 DEF Progress, Serving
  <2>3. CASE /\ next \in {"start nat", "stop dhcp", "status dhcp", "status nat"}
             /\ \E runs : call'[c].next = After(next, r, runs)
    <3>1. driver = "advanced" /\ next = "start nat"
      BY <1>1, <1>2, <2>1, <2>3 DEF CommandsOf, AddCommands, PostCommands
    <3>2. call'[c].next = "done"
      BY <1>1, <2>3, <3>1 DEF After, NextOfAdd
    <3>3. Built(c)
      BY <1>2, <2>1, <3>1 DEF Progress, Serving
    <3>4. Built(c)'
      BY <1>1, <1>3, <2>1, <3>3, BuiltLasts
    <3> QED BY <1>1, <2>1, <3>1, <3>2, <3>4 DEF Progress, Serving
  <2> QED BY <2>1, <2>2, <2>3
<1>9. CASE Answer(c)
  <2>1. /\ call[c].at = "running" /\ next = "done" /\ call'[c].at = "answered"
        /\ call'[c].slot = n /\ call'[c].ok = call[c].ok
    BY <1>9, AnswerOf
  <2>2. call[c].ok => Built(c)
    BY <1>2, <2>1 DEF Progress
  <2> QED BY <1>1, <1>3, <2>1, <2>2, BuiltLasts
<1> QED BY <1>4, <1>5, <1>6, <1>7, <1>8, <1>9 DEF Serve

\* What changes no device and none of its own request leaves it as it is.
LEMMA FrameProgress ==
  ASSUME NEW q \in Callers, call'[q] = call[q], driver' = driver, \A n \in Slots : SameDevice(n),
         edited \subseteq edited', Progress(q)
  PROVE  Progress(q)'
<1>1. Existing' = Existing
  BY DEF Existing, SameDevice
<1>2. Built(q) => Built(q)'
  BY DEF Built, HasSubnet, SameDevice, OwnSubnet
<1>3. call[q].slot \in Slots /\ HasSubnet(q) => HasSubnet(q)'
  BY DEF HasSubnet, SameDevice, OwnSubnet
<1> QED BY <1>1, <1>2, <1>3 DEF Progress, SameDevice, OwnSubnet

\* A request that a step does not touch stays well formed.
LEMMA FrameRequest ==
  ASSUME NEW q \in Callers, call'[q] = call[q], driver' = driver, edited \subseteq edited', RequestOK(q)
  PROVE  RequestOK(q)'
BY DEF RequestOK, CommandsOf

\* A step of the utility keeps what is true of every request.
LEMMA ServeKeepsCalls ==
  ASSUME DriverTypes, CallsInv, NEW c \in Callers, Serve(c), edited' = edited
  PROVE  CallsInv'
<1>1. /\ call[c].at \in {"queued", "running"} /\ call'[c].at \in {"running", "answered"}
      /\ call'[c].req = call[c].req /\ driver' = driver
      /\ \A q \in Callers \ {c} : call'[q] = call[q]
  BY ServeShape
<1>2. /\ vmnet' = vmnet \/ (call[c].at = "running" /\ Locked(call[c].req)) \/ \A n \in Slots : SameDevice(n)
      /\ \A n \in Slots \ edited : Lasting(n)
  BY ServeDevices
<1>3. LockHeld'
  <2>1. CASE Enter(c)
    <3>1. /\ Locked(call[c].req) => netLock = NoCaller /\ netLock' = c
          /\ ~Locked(call[c].req) => netLock' = netLock
      BY <2>1, EnterOf
    <3> QED BY <1>1, <3>1, CallersAssumption DEF CallsInv, LockHeld, Locked
  <2>2. CASE Answer(c)
    <3>1. call'[c].at = "answered" /\ netLock' = IF netLock = c THEN NoCaller ELSE netLock
      BY <2>2, AnswerOf
    <3> QED BY <1>1, <3>1 DEF CallsInv, LockHeld, Locked
  <2>3. CASE GetUnusedDevice(c) \/ SetVmnetName(c) \/ Post(c) \/ Run(c) \/ CommandFails(c)
    <3>1. netLock' = netLock /\ call[c].at = "running"
      BY <2>3 DEF GetUnusedDevice, SetVmnetName, Post, Run, CommandFails, Doing
    <3> QED BY <1>1, <3>1 DEF CallsInv, LockHeld, Locked
  <2> QED BY <2>1, <2>2, <2>3 DEF Serve
<1>4. ASSUME NEW q \in Callers, call'[q].at # "idle"
      PROVE  RequestOK(q)'
  <2>1. CASE q = c
    BY <2>1, RequestKept
  <2>2. CASE q # c
    BY <1>1, <1>4, <2>2, FrameRequest DEF CallsInv
  <2> QED BY <2>1, <2>2
<1>5. ASSUME NEW q \in Callers, call'[q].at = "running", Creates(q)'
      PROVE  Progress(q)'
  <2>1. CASE q = c
    BY <1>1, <1>5, <2>1, OwnProgress DEF Creates
  <2>2. CASE q # c
    <3>1. call'[q] = call[q] /\ Progress(q)
      BY <1>1, <1>5, <2>2 DEF CallsInv, Creates
    <3>2. ~(call[c].at = "running" /\ Locked(call[c].req))
      BY <1>5, <2>2, <3>1 DEF CallsInv, LockHeld, Creates, Locked
    <3>3. \A n \in Slots : SameDevice(n)
      BY <1>2, <3>2 DEF SameDevice
    <3> QED BY <1>1, <3>1, <3>3, FrameProgress
  <2> QED BY <2>1, <2>2
<1>6. ASSUME NEW q \in Callers, call'[q].at = "answered", Creates(q)', call'[q].ok
      PROVE  Built(q)'
  <2>1. CASE q = c
    BY <1>1, <1>6, <2>1, OwnProgress DEF Creates
  <2>2. CASE q # c
    <3>1. call'[q] = call[q] /\ Built(q)
      BY <1>1, <1>6, <2>2 DEF CallsInv, Creates
    <3> QED BY <1>2, <3>1, BuiltLasts
  <2> QED BY <2>1, <2>2
<1> QED BY <1>3, <1>4, <1>5, <1>6 DEF CallsInv

\* A client sends a request that names nothing or what it is marked to have
\* touched, or takes an answer; or nothing happens to the requests.
ClientStep(c) ==
  /\ UNCHANGED <<driver, vmnet, netLock>> /\ edited \subseteq edited'
  /\ \A q \in Callers \ {c} : call'[q] = call[q]
  /\ \/ call'[c] = call[c]
     \/ call[c].at \in {"idle", "answered"} /\ call'[c] = NoCall
     \/ call[c].at = "idle" /\ \E r \in Request :
          /\ call'[c] = [at |-> "queued", req |-> r, slot |-> r.slot, next |-> "done", ok |-> TRUE]
          /\ r.kind \in {"update", "delete"} => r.slot \in edited'
          /\ r.kind = "create" => r.slot \in edited' \cup {NoSlot}

\* What a client does keeps every request well formed.
LEMMA ClientKeepsCalls ==
  ASSUME DriverTypes, CallsInv, NEW c \in Callers, ClientStep(c)
  PROVE  CallsInv'
<1>1. /\ driver' = driver /\ vmnet' = vmnet /\ netLock' = netLock /\ edited \subseteq edited'
      /\ \A q \in Callers \ {c} : call'[q] = call[q]
  BY DEF ClientStep
<1>0. call'[c] = call[c] \/ call'[c].at = "idle" \/ call'[c].at = "queued"
  <2>1. NoCall.at = "idle"
    BY DEF NoCall
  <2>2. \A r : [at |-> "queued", req |-> r, slot |-> r.slot, next |-> "done", ok |-> TRUE].at = "queued"
    OBVIOUS
  <2> QED BY <2>1, <2>2 DEF ClientStep
<1>2. \A n \in Slots : SameDevice(n) /\ Lasting(n)
  BY <1>1 DEF SameDevice, Lasting
<1>3. LockHeld'
  BY <1>0, <1>1 DEF CallsInv, LockHeld, Locked
<1>4. ASSUME NEW q \in Callers, call'[q].at # "idle"
      PROVE  RequestOK(q)'
  <2>1. CASE call'[q] = call[q]
    BY <1>1, <1>4, <2>1, FrameRequest DEF CallsInv
  <2>2. CASE call'[q] # call[q]
    <3>1. q = c /\ call'[c].at = "queued"
      BY <1>0, <1>1, <1>4, <2>2
    <3>2. PICK r \in Request :
            /\ call'[c] = [at |-> "queued", req |-> r, slot |-> r.slot, next |-> "done", ok |-> TRUE]
            /\ r.kind \in {"update", "delete"} => r.slot \in edited'
            /\ r.kind = "create" => r.slot \in edited' \cup {NoSlot}
      BY <1>1, <2>2, <3>1 DEF ClientStep, NoCall
    <3> QED BY <3>1, <3>2 DEF RequestOK
  <2> QED BY <2>1, <2>2
<1>5. ASSUME NEW q \in Callers, call'[q].at = "running", Creates(q)'
      PROVE  Progress(q)'
  <2>1. call'[q] = call[q]
    BY <1>0, <1>1, <1>5
  <2> QED BY <1>1, <1>2, <1>5, <2>1, FrameProgress DEF CallsInv, Creates
<1>6. ASSUME NEW q \in Callers, call'[q].at = "answered", Creates(q)', call'[q].ok
      PROVE  Built(q)'
  <2>1. call'[q] = call[q]
    BY <1>0, <1>1, <1>6
  <2> QED BY <1>1, <1>2, <1>6, <2>1, BuiltLasts DEF CallsInv, Creates
<1> QED BY <1>3, <1>4, <1>5, <1>6 DEF CallsInv

-----------------------------------------------------------------------------
(* Subnets that two devices carry. *)

Unset == {"getunusedvnet", "addadapter", "setsubnetmask", "setsubnetaddr"}

\* A creation that has not set its subnet yet.
Pending(c) ==
  Creates(c) /\ (call[c].at = "queued" \/ (call[c].at = "running" /\ call[c].next \in Unset))

\* Unless somebody asked without a look: no two requests ask for one subnet,
\* and none asks for one that is there.
SubnetsInv ==
  /\ NoDuplicateWithoutRace
  /\ \A c, d \in Callers :
       c # d /\ Creates(c) /\ Creates(d) /\ call[c].req.subnet = call[d].req.subnet =>
         call[c].req.subnet \in raced \cup {NoSubnet}
  /\ driver = "advanced" =>
       \A c \in Callers : Pending(c) =>
         \A n \in Existing \ edited : vmnet[n].subnet = call[c].req.subnet =>
                                      vmnet[n].subnet \in raced \cup {NoSubnet}

\* A subnet comes to a device by the creation that sets it, or from vmrest,
\* which takes a fresh one.
LEMMA NewSubnet ==
  ASSUME DriverTypes, CallsInv, NEW c \in Callers, Serve(c),
         NEW n \in Slots \ edited, vmnet'[n].exists, vmnet'[n].subnet # NoSubnet
  PROVE  \/ vmnet[n].exists /\ vmnet[n].subnet = vmnet'[n].subnet
         \/ /\ n = call[c].slot /\ driver = "advanced" /\ Creates(c) /\ Pending(c)
            /\ vmnet'[n].subnet = call[c].req.subnet
            /\ call'[c].at = "running" /\ call'[c].next \notin Unset
         \/ n = call[c].slot /\ driver = "vmrest" /\ \A k \in Existing : vmnet[k].subnet # vmnet'[n].subnet
<1>1. \/ n # call[c].slot \/ vmnet' = vmnet \/ SameDevice(n)
      \/ n = call[c].slot /\ (Run(c) \/ Post(c))
  BY ServeDevices DEF Serve, Enter, GetUnusedDevice, SetVmnetName, CommandFails, Answer
<1>2. CASE n # call[c].slot \/ vmnet' = vmnet \/ SameDevice(n)
  BY <1>2, ServeDevices DEF SameDevice
<1>3. CASE n = call[c].slot /\ Post(c)
  BY <1>3, PostOf
<1>4. CASE n = call[c].slot /\ Run(c)
  <2> DEFINE r == call[c].req
             next == call[c].next
             d == vmnet[n]
             e == vmnet'[n]
  <2>1. /\ driver = "advanced" /\ call[c].at = "running" /\ r \in Request
        /\ next \in CommandsOf(r) \ Special /\ d \in Device /\ e = Effect(next, d, r) /\ GoesOn(c, n)
    BY <1>4, RunOf
  <2>2. /\ next \notin {"addadapter", "removeadapter", "setsubnetaddr", "enable", "disable"} =>
             e.exists = d.exists /\ e.subnet = d.subnet
        /\ next = "addadapter" => IF d.exists THEN e = d ELSE e.subnet = NoSubnet
        /\ next = "setsubnetaddr" => e.subnet = r.subnet
        /\ next = "enable" => e.exists = d.exists /\ e.subnet = d.subnet
    <3> HIDE DEF next, d, e, r
    <3> QED BY <2>1, EffectOf
  <2>3. r.kind \in {"create", "reserve"}
    BY <1>4, <2>1 DEF CallsInv, RequestOK, Request
  <2>4. CASE r.kind = "reserve"
    BY <2>1, <2>2, <2>4 DEF CommandsOf, ReserveCommands
  <2>5. CASE r.kind = "create" /\ next # "setsubnetaddr"
    BY <2>1, <2>2, <2>5 DEF CommandsOf, AddCommands
  <2>6. CASE r.kind = "create" /\ next = "setsubnetaddr"
    <3>1. PICK runs : call'[c].next = After("setsubnetaddr", r, runs)
      BY <2>1, <2>6, GoesOnOf
    <3>2. call'[c].next = "enable" /\ call'[c].at = "running"
      BY <2>1, <2>6, <3>1, GoesOnOf DEF After, NextOfAdd
    <3> QED BY <1>4, <2>1, <2>2, <2>6, <3>2 DEF Creates, Pending, Unset
  <2> QED BY <2>3, <2>4, <2>5, <2>6
<1> QED BY <1>1, <1>2, <1>3, <1>4

\* A creation that is pending was pending before.
LEMMA PendingBefore ==
  ASSUME DriverTypes, CallsInv, NEW c \in Callers, Serve(c), driver = "advanced",
         NEW q \in Callers, Pending(q)'
  PROVE  Pending(q) /\ call'[q].req = call[q].req
<1>1. /\ call[c].at \in {"queued", "running"} /\ call'[c].at \in {"running", "answered"}
      /\ call'[c].req = call[c].req /\ call[c].req \in Request
      /\ \A k \in Callers \ {c} : call'[k] = call[k]
  BY ServeShape
<1>2. CASE q # c
  BY <1>1, <1>2 DEF Pending, Creates
<1>3. CASE q = c
  <2> DEFINE r == call[c].req
             next == call[c].next
  <2>1. call'[c].at = "running" /\ call'[c].next \in Unset /\ r.kind = "create"
    BY <1>1, <1>3 DEF Pending, Creates
  <2>2. CASE Enter(c)
    BY <1>1, <1>3, <2>1, <2>2, EnterOf DEF Pending, Creates
  <2>3. CASE GetUnusedDevice(c) \/ SetVmnetName(c)
    <3>1. call[c].at = "running" /\ next = "getunusedvnet"
      <4>1. call[c].at = "running" /\ next \in {"getunusedvnet", "setVmnetName"}
        BY <2>3 DEF GetUnusedDevice, SetVmnetName, Doing
      <4>2. next \in AddCommands
        BY <2>1, <4>1 DEF CallsInv, RequestOK, CommandsOf
      <4> QED BY <4>1, <4>2 DEF AddCommands
    <3> QED BY <1>1, <1>3, <2>1, <3>1 DEF Pending, Creates, Unset
  <2>4. CASE Run(c) \/ CommandFails(c) \/ Post(c)
    <3>1. /\ call[c].at = "running"
          /\ call'[c].next = "done" \/ \E runs : call'[c].next = After(next, r, runs)
      <4>1. CASE CommandFails(c)
        BY <4>1, FailsOf
      <4>2. CASE Run(c) \/ Post(c)
        <5>1. call[c].at = "running" /\ GoesOn(c, call[c].slot)
          BY <4>2 DEF Run, Post, Doing
        <5> QED BY <5>1, GoesOnOf
      <4> QED BY <2>4, <4>1, <4>2
    <3>2. PICK runs : call'[c].next = After(next, r, runs)
      BY <2>1, <3>1 DEF Unset
    <3>3. next \in AddCommands
      BY <2>1, <3>1 DEF CallsInv, RequestOK, CommandsOf
    <3>4. next \in Unset
      BY <1>1, <2>1, <3>2, <3>3, AddOrder DEF Unset
    <3> QED BY <1>1, <1>3, <2>1, <3>1, <3>4 DEF Pending, Creates
  <2>5. CASE Answer(c)
    BY <2>1, <2>5, AnswerOf
  <2> QED BY <2>2, <2>3, <2>4, <2>5 DEF Serve
<1> QED BY <1>2, <1>3

\* A step of the utility doubles no subnet.
LEMMA ServeKeepsSubnets ==
  ASSUME DriverTypes, CallsInv, SubnetsInv, NEW c \in Callers, Serve(c),
         edited' = edited, raced' = raced
  PROVE  SubnetsInv'
<1>1. /\ call[c].at \in {"queued", "running"}
      /\ driver' = driver /\ driver \in {"advanced", "vmrest"}
      /\ \A q \in Callers : call'[q].req = call[q].req /\ (Creates(q)' => Creates(q))
  BY ServeShape DEF DriverTypes, Drivers, Creates
<1> DEFINE Fresh(n) ==
             /\ n = call[c].slot
             /\ \/ /\ driver = "advanced" /\ Creates(c) /\ Pending(c) /\ ~Pending(c)'
                   /\ vmnet'[n].subnet = call[c].req.subnet
                \/ driver = "vmrest" /\ \A k \in Existing : vmnet[k].subnet # vmnet'[n].subnet
<1>2. ASSUME NEW n \in Existing' \ edited, vmnet'[n].subnet # NoSubnet
      PROVE  (n \in Existing /\ vmnet[n].subnet = vmnet'[n].subnet) \/ Fresh(n)
  <2>1. n \in Slots \ edited /\ vmnet'[n].exists
    BY DEF Existing
  <2> QED BY <1>2, <2>1, NewSubnet DEF Existing, Pending
<1>3. ASSUME NEW n \in Existing' \ edited, NEW k \in Existing' \ edited, n # k,
             vmnet'[n].subnet = vmnet'[k].subnet, vmnet'[n].subnet # NoSubnet, Fresh(n)
      PROVE  vmnet'[n].subnet \in raced
  <2>1. k \in Existing \ edited /\ vmnet[k].subnet = vmnet'[k].subnet
    BY <1>2, <1>3
  <2> QED BY <1>3, <2>1 DEF SubnetsInv
<1>4. NoDuplicateWithoutRace'
  <2> SUFFICES ASSUME NEW n \in Existing' \ edited, NEW k \in Existing' \ edited, n # k,
                      vmnet'[n].subnet = vmnet'[k].subnet, vmnet'[n].subnet # NoSubnet
               PROVE  vmnet'[n].subnet \in raced
    BY DEF NoDuplicateWithoutRace
  <2>1. CASE Fresh(n)
    BY <1>3, <2>1
  <2>2. CASE Fresh(k)
    BY <1>3, <2>2
  <2>3. CASE ~Fresh(n) /\ ~Fresh(k)
    <3>1. n \in Existing /\ k \in Existing /\ vmnet[n].subnet = vmnet'[n].subnet
            /\ vmnet[k].subnet = vmnet'[k].subnet
      BY <1>2, <2>3
    <3> QED BY <3>1 DEF SubnetsInv, NoDuplicateWithoutRace
  <2> QED BY <2>1, <2>2, <2>3
<1>5. ASSUME driver = "advanced", NEW q \in Callers, Pending(q)',
             NEW n \in Existing' \ edited, vmnet'[n].subnet = call'[q].req.subnet
      PROVE  vmnet'[n].subnet \in raced \cup {NoSubnet}
  <2>1. Pending(q) /\ call'[q].req = call[q].req
    BY <1>5, PendingBefore
  <2>2. SUFFICES ASSUME vmnet'[n].subnet # NoSubnet PROVE vmnet'[n].subnet \in raced
    OBVIOUS
  <2>3. CASE n \in Existing /\ vmnet[n].subnet = vmnet'[n].subnet
    BY <1>5, <2>1, <2>2, <2>3 DEF SubnetsInv
  <2>4. CASE Fresh(n)
    <3>1. /\ Creates(c) /\ ~Pending(c)' /\ vmnet'[n].subnet = call[c].req.subnet
      BY <1>5, <2>4
    <3>2. q # c /\ Creates(q)
      BY <1>5, <2>1, <3>1 DEF Pending
    <3> QED BY <1>5, <2>1, <2>2, <3>1, <3>2 DEF SubnetsInv
  <2> QED BY <1>2, <2>2, <2>3, <2>4
<1>6. \A q, d \in Callers :
        q # d /\ Creates(q)' /\ Creates(d)' /\ call'[q].req.subnet = call'[d].req.subnet =>
          call'[q].req.subnet \in raced \cup {NoSubnet}
  BY <1>1 DEF SubnetsInv
<1> QED BY <1>1, <1>4, <1>5, <1>6 DEF SubnetsInv

\* Neither does a client whose new request is for a subnet that nobody asks for
\* and no device has, or for one that is marked.
LEMMA ClientKeepsSubnets ==
  ASSUME SubnetsInv, NEW c \in Callers, ClientStep(c), raced \subseteq raced',
         Creates(c)' /\ call'[c] # call[c] =>
           \/ call'[c].req.subnet \in raced' \cup {NoSubnet}
           \/ /\ \A q \in Callers \ {c} : Creates(q) => call[q].req.subnet # call'[c].req.subnet
              /\ \A n \in Existing : vmnet[n].subnet # call'[c].req.subnet
  PROVE  SubnetsInv'
<1>1. /\ driver' = driver /\ vmnet' = vmnet /\ edited \subseteq edited' /\ Existing' = Existing
      /\ \A q \in Callers \ {c} : call'[q] = call[q]
  BY DEF ClientStep, Existing
<1>2. NoDuplicateWithoutRace'
  BY <1>1 DEF SubnetsInv, NoDuplicateWithoutRace
<1>3. ASSUME NEW q \in Callers, NEW d \in Callers, q # d, Creates(q)', Creates(d)',
             call'[q].req.subnet = call'[d].req.subnet
      PROVE  call'[q].req.subnet \in raced' \cup {NoSubnet}
  <2>1. CASE call'[q] = call[q] /\ call'[d] = call[d]
    BY <1>3, <2>1 DEF SubnetsInv, Creates
  <2>2. CASE call'[q] # call[q]
    <3>1. q = c /\ call'[d] = call[d]
      BY <1>1, <1>3, <2>2
    <3> QED BY <1>3, <2>2, <3>1 DEF Creates
  <2>3. CASE call'[d] # call[d]
    <3>1. d = c /\ call'[q] = call[q]
      BY <1>1, <1>3, <2>3
    <3> QED BY <1>3, <2>3, <3>1 DEF Creates
  <2> QED BY <2>1, <2>2, <2>3
<1>4. ASSUME driver = "advanced", NEW q \in Callers, Pending(q)', NEW n \in Existing \ edited',
             vmnet[n].subnet = call'[q].req.subnet
      PROVE  vmnet[n].subnet \in raced' \cup {NoSubnet}
  <2>1. CASE call'[q] = call[q]
    <3>1. Pending(q)
      BY <1>4, <2>1 DEF Pending, Creates
    <3> QED BY <1>1, <1>4, <2>1, <3>1 DEF SubnetsInv
  <2>2. CASE call'[q] # call[q]
    <3>1. q = c /\ Creates(c)'
      BY <1>1, <1>4, <2>2 DEF Pending
    <3> QED BY <1>4, <2>2, <3>1
  <2> QED BY <2>1, <2>2
<1> QED BY <1>1, <1>2, <1>3, <1>4 DEF SubnetsInv

-----------------------------------------------------------------------------
(* Devices that are not up. *)

IsUp(n) == n \in edited \cup halfway \cup Making \/ vmnet[n].on

UpInv == \A n \in Existing : IsUp(n)

\* A creation in progress answers for its device until that is up or the
\* creation has failed.
LEMMA ServeKeepsUp ==
  ASSUME DriverTypes, CallsInv, UpInv, NEW c \in Callers, Utility(c)
  PROVE  UpInv'
<1>1. Serve(c) /\ edited' = edited /\ halfway' = halfway \cup LeftHalfway(c)
  BY DEF Utility
<1>2. /\ call[c].at \in {"queued", "running"} /\ call'[c].at \in {"running", "answered"}
      /\ call'[c].at = "answered" => call[c].at = "running" /\ call[c].next = "done"
      /\ call'[c].req = call[c].req /\ call[c].req \in Request
      /\ \A q \in Callers \ {c} : call'[q] = call[q]
  BY <1>1, ServeShape
<1>3. SUFFICES ASSUME NEW n \in Existing', n \notin edited
               PROVE  n \in halfway' \/ n \in Making' \/ vmnet'[n].on
  BY <1>1 DEF UpInv, IsUp
<1>4. n \in Slots \ edited /\ vmnet'[n].exists
  BY <1>3 DEF Existing
<1>5. Lasting(n) /\ (n # call[c].slot => vmnet'[n] = vmnet[n])
  BY <1>1, <1>4, ServeDevices
<1>6. ASSUME call[c].req.kind = "create", call[c].at = "running", n = call[c].slot
      PROVE  n \in halfway' \/ n \in Making' \/ vmnet'[n].on
  <2>1. CASE call'[c].at = "running"
    <3>1. call'[c].slot = n
      <4>1. CASE GetUnusedDevice(c) \/ SetVmnetName(c)
        <5>1. call[c].slot = NoSlot
          <6>1. call[c].next \in {"getunusedvnet", "setVmnetName"}
            BY <4>1 DEF GetUnusedDevice, SetVmnetName, Doing
          <6> QED BY <1>6, <6>1 DEF CallsInv, RequestOK
        <5> QED BY <1>4, <1>6, <5>1, SlotsAssumption
      <4>2. CASE Run(c) \/ Post(c)
        <5>1. GoesOn(c, call[c].slot)
          BY <4>2 DEF Run, Post
        <5> QED BY <1>6, <5>1, GoesOnOf
      <4>3. CASE CommandFails(c)
        BY <1>6, <4>3, FailsOf
      <4>4. CASE Enter(c) \/ Answer(c)
        BY <1>6, <2>1, <4>4, EnterOf, AnswerOf
      <4> QED BY <1>1, <4>1, <4>2, <4>3, <4>4 DEF Serve
    <3> QED BY <1>2, <1>6, <2>1, <3>1 DEF Making
  <2>2. CASE call'[c].at = "answered"
    <3>1. Answer(c)
      <4>1. ~Enter(c)
        BY <2>2, EnterOf
      <4>2. ~(GetUnusedDevice(c) \/ SetVmnetName(c) \/ Run(c) \/ Post(c) \/ CommandFails(c))
        BY <1>2, <2>2 DEF GetUnusedDevice, SetVmnetName, Run, Post, CommandFails, Doing, Special
      <4> QED BY <1>1, <4>1, <4>2 DEF Serve
    <3>2. vmnet' = vmnet /\ call'[c].ok = call[c].ok
      BY <3>1, AnswerOf
    <3>3. CASE call[c].ok
      <4>1. Built(c)
        BY <1>2, <1>6, <2>2, <3>3 DEF CallsInv, Creates, Progress
      <4> QED BY <1>4, <1>6, <3>2, <4>1 DEF Built
    <3>4. CASE ~call[c].ok
      <4>1. n \in Existing
        BY <1>4, <3>2 DEF Existing
      <4> QED BY <1>1, <1>6, <3>2, <3>4, <4>1 DEF LeftHalfway
    <3> QED BY <3>3, <3>4
  <2> QED BY <1>2, <2>1, <2>2
<1>7. CASE n \in Existing
  <2>1. n \in halfway \/ n \in Making \/ vmnet[n].on
    BY <1>3, <1>7 DEF UpInv, IsUp
  <2>2. CASE n \in halfway
    BY <1>1, <2>2
  <2>3. CASE vmnet[n].on
    BY <1>5, <1>7, <2>3 DEF Lasting, Existing
  <2>4. CASE n \in Making
    <3>1. PICK q \in Callers : call[q].at = "running" /\ call[q].req.kind = "create" /\ call[q].slot = n
      BY <2>4 DEF Making
    <3>2. CASE q = c
      BY <1>6, <3>1, <3>2
    <3>3. CASE q # c
      BY <1>2, <3>1, <3>3 DEF Making
    <3> QED BY <3>2, <3>3
  <2> QED BY <2>1, <2>2, <2>3, <2>4
<1>8. CASE n \notin Existing
  <2>1. ~vmnet[n].exists
    BY <1>4, <1>8 DEF Existing
  <2>2. n = call[c].slot /\ vmnet' # vmnet
    BY <1>4, <1>5, <2>1
  <2>3. Locked(call[c].req) /\ call[c].at = "running"
    BY <1>1, <1>4, <2>1, <2>2, ServeDevices DEF SameDevice
  <2>4. call[c].req.kind \notin {"update", "delete"}
    BY <1>2, <1>3, <2>2 DEF CallsInv, RequestOK
  <2>5. call[c].req.kind = "create"
    BY <1>2, <2>3, <2>4 DEF Locked, Request
  <2> QED BY <1>6, <2>2, <2>3, <2>5
<1> QED BY <1>7, <1>8

\* What a client does leaves the devices that are up as they are.
LEMMA ClientKeepsUp ==
  ASSUME UpInv, NEW c \in Callers, ClientStep(c), halfway' = halfway
  PROVE  UpInv'
<1>1. /\ vmnet' = vmnet /\ edited \subseteq edited' /\ Existing' = Existing
      /\ \A q \in Callers \ {c} : call'[q] = call[q]
      /\ call[c].at = "running" => call'[c] = call[c]
  BY DEF ClientStep, Existing
<1>2. Making \subseteq Making'
  <2>1. \A q \in Callers : call[q].at = "running" => call'[q] = call[q]
    BY <1>1
  <2> QED BY <2>1 DEF Making
<1> QED BY <1>1, <1>2 DEF UpInv, IsUp

-----------------------------------------------------------------------------
(* The commands. *)

\* The devices found so far carry the machine's networks, one after the other.
ServesOwn(m, slots) ==
  \A i \in DOMAIN slots : i \in DOMAIN NetworksOf[m] /\ Carries(slots[i], NetworksOf[m][i])

\* The networks still to find a device for are the rest.
RestOf(m, slots, nets) ==
  /\ Len(slots) + Len(nets) = Len(NetworksOf[m])
  /\ \A j \in DOMAIN nets : nets[j] = NetworksOf[m][Len(slots) + j]

CommandInv(m) ==
  /\ At(m, "create") => call[m].at # "idle" /\ call[m].req = CreateRequest(Net(m))
  /\ cmd[m].at \in {"check", "list", "route"} => call[m].at = "idle"
  /\ cmd[m].at # "setup"
  /\ cmd[m].at \in {"route", "create"} => cmd[m].nets # <<>>
  /\ ~At(m, "idle") => RestOf(m, cmd[m].slots, cmd[m].nets)
  /\ ServesOwn(m, cmd[m].slots) /\ ServesOwn(m, adapter[m])
  /\ \A p \in cmd[m].seen : p[2] # NoSubnet => Carries(p[1], p[2])

\* A device goes on carrying its subnet, unless another client edits it.
LEMMA CarriesLasts ==
  ASSUME NEW n \in Slots, NEW s \in Subnets, \A k \in Slots \ edited : Lasting(k), edited \subseteq edited',
         Carries(n, s)
  PROVE  Carries(n, s)'
BY SubnetsAssumption DEF Carries, Lasting

\* What leaves a command alone, and of its request only brings it further,
\* keeps what is true of it.
LEMMA FrameCommand ==
  ASSUME NEW m \in Machines, cmd[m] \in Cmd, adapter[m] \in Seq(Slots), CommandInv(m),
         cmd'[m] = cmd[m], adapter'[m] = adapter[m],
         \A k \in Slots \ edited : Lasting(k), edited \subseteq edited',
         call'[m].at = "idle" <=> call[m].at = "idle",
         call[m].at # "idle" => call'[m].req = call[m].req
  PROVE  CommandInv(m)'
<1>1. NetworksOf[m] \in Seq(Subnets) /\ cmd[m].slots \in Seq(Slots)
      /\ cmd[m].seen \subseteq (Slots \X (Subnets \cup {NoSubnet}))
  BY CommandsAssumption DEF Cmd
<1>2. ASSUME NEW slots \in Seq(Slots), ServesOwn(m, slots)
      PROVE  \A i \in DOMAIN slots : i \in DOMAIN NetworksOf[m] /\ Carries(slots[i], NetworksOf[m][i])'
  <2> TAKE i \in DOMAIN slots
  <2>1. slots[i] \in Slots /\ i \in DOMAIN NetworksOf[m] /\ Carries(slots[i], NetworksOf[m][i])
    BY <1>2 DEF ServesOwn
  <2>2. NetworksOf[m][i] \in Subnets
    BY <1>1, <2>1
  <2> QED BY <2>1, <2>2, CarriesLasts
<1>3. ServesOwn(m, cmd[m].slots)' /\ ServesOwn(m, adapter[m])'
  <2>1. ServesOwn(m, cmd[m].slots) /\ ServesOwn(m, adapter[m])
    BY DEF CommandInv
  <2>2. \A i \in DOMAIN cmd[m].slots :
          i \in DOMAIN NetworksOf[m] /\ Carries(cmd[m].slots[i], NetworksOf[m][i])'
    BY <1>1, <1>2, <2>1 DEF Carries
  <2>3. \A i \in DOMAIN adapter[m] :
          i \in DOMAIN NetworksOf[m] /\ Carries(adapter[m][i], NetworksOf[m][i])'
    BY <1>1, <1>2, <2>1 DEF Carries
  <2> QED BY <2>2, <2>3 DEF ServesOwn
<1>4. \A p \in cmd'[m].seen : p[2] # NoSubnet => Carries(p[1], p[2])'
  <2> TAKE p \in cmd'[m].seen
  <2>1. p \in cmd[m].seen /\ p[1] \in Slots /\ p[2] \in Subnets \cup {NoSubnet}
    BY <1>1
  <2> QED BY <2>1, CarriesLasts DEF CommandInv
<1>5. RestOf(m, cmd[m].slots, cmd[m].nets)' <=> RestOf(m, cmd[m].slots, cmd[m].nets)
  BY DEF RestOf
<1>6. CreateRequest(Net(m))' = CreateRequest(Net(m)) /\ \A step : At(m, step)' <=> At(m, step)
  BY DEF CreateRequest, Net, At
<1>7. At(m, "create")' => (call[m].at # "idle" /\ call[m].req = CreateRequest(Net(m)))'
  BY <1>6 DEF CommandInv
<1>8. \A p \in cmd'[m].seen : (p[2] # NoSubnet => Carries(p[1], p[2]))'
  BY <1>4
<1> QED BY <1>3, <1>5, <1>6, <1>7, <1>8 DEF CommandInv

\* What is true of a command's own record.
CmdOK(m, x) ==
  /\ x \in Cmd /\ x.at # "setup"
  /\ x.at \in {"route", "create"} => x.nets # <<>>
  /\ x.at # "idle" => RestOf(m, x.slots, x.nets)
  /\ ServesOwn(m, x.slots)
  /\ \A p \in x.seen : p[2] # NoSubnet => Carries(p[1], p[2])

\* A machine without a command.
LEMMA NoCmdOK ==
  ASSUME NEW m \in Machines
  PROVE  CmdOK(m, NoCmd) /\ NoCmd.at = "idle"
<1>1. NoCmd \in Cmd
  BY DEF NoCmd, Cmd, Devices
<1> QED BY <1>1 DEF CmdOK, NoCmd, ServesOwn

\* A command whose network has found a device that carries it.
LEMMA FoundOK ==
  ASSUME NEW m \in Machines, CmdOK(m, cmd[m]), cmd[m].at \in {"route", "create"},
         NEW n \in Slots, Carries(n, Net(m)), NEW t \in [Subnets -> Devices],
         NEW x \in {Found(m, n), [Found(m, n) EXCEPT !.loaded = TRUE, !.table = t]}
  PROVE  CmdOK(m, x) /\ x.at = "list"
<1> DEFINE nets == cmd[m].nets
           slots == cmd[m].slots
           own == NetworksOf[m]
<1>1. /\ cmd[m] \in Cmd /\ nets \in Seq(Subnets) /\ nets # <<>> /\ slots \in Seq(Slots)
      /\ RestOf(m, slots, nets) /\ ServesOwn(m, slots) /\ own \in Seq(Subnets)
  BY CommandsAssumption DEF CmdOK, Cmd
<1>2. Found(m, n) = [cmd[m] EXCEPT !.at = "list", !.nets = Tail(nets), !.slots = Append(slots, n), !.seen = {}]
  BY <1>1 DEF Found, Cmd
<1>3. Tail(nets) \in Seq(Subnets) /\ Append(slots, n) \in Seq(Slots)
  BY <1>1
<1>4. /\ x \in Cmd /\ x.at = "list" /\ x.nets = Tail(nets) /\ x.slots = Append(slots, n) /\ x.seen = {}
  <2> DEFINE rest == Tail(nets)
             found == Append(slots, n)
             y == [cmd[m] EXCEPT !.at = "list", !.nets = rest, !.slots = found, !.seen = {}]
  <2>1. x = y \/ x = [y EXCEPT !.loaded = TRUE, !.table = t]
    BY <1>2
  <2>2. rest \in Seq(Subnets) /\ found \in Seq(Slots)
    BY <1>3
  <2>3. SUFFICES x \in Cmd /\ x.at = "list" /\ x.nets = rest /\ x.slots = found /\ x.seen = {}
    OBVIOUS
  <2> HIDE DEF rest, found
  <2>4. y \in Cmd /\ y.at = "list" /\ y.nets = rest /\ y.slots = found /\ y.seen = {}
    BY <1>1, <2>2 DEF Cmd
  <2> HIDE DEF y
  <2>5. CASE x = y
    BY <2>4, <2>5
  <2>6. CASE x = [y EXCEPT !.loaded = TRUE, !.table = t]
    BY <2>4, <2>6 DEF Cmd
  <2> QED BY <2>1, <2>5, <2>6
<1>5. /\ Len(slots) \in Nat /\ Len(nets) \in Nat \ {0} /\ Len(own) \in Nat
      /\ Len(Tail(nets)) = Len(nets) - 1 /\ Len(Append(slots, n)) = Len(slots) + 1
      /\ \A j \in 1..(Len(nets) - 1) : Tail(nets)[j] = nets[j + 1]
      /\ \A i \in 1..Len(slots) : Append(slots, n)[i] = slots[i]
      /\ Append(slots, n)[Len(slots) + 1] = n
  <2> HIDE DEF nets, slots, own
  <2>1. Len(nets) \in Nat \ {0}
    BY <1>1, EmptySeq
  <2> QED BY <1>1, <2>1, HeadTailProperties, AppendProperties
<1>6. RestOf(m, Append(slots, n), Tail(nets))
  <2>0. DOMAIN nets = 1..Len(nets)
    BY <1>1
  <2>1. Len(slots) + Len(nets) = Len(own) /\ \A j \in 1..Len(nets) : nets[j] = own[Len(slots) + j]
    BY <1>1, <2>0 DEF RestOf
  <2> HIDE DEF nets, slots, own
  <2>2. Len(Append(slots, n)) + Len(Tail(nets)) = Len(own)
    BY <1>5, <2>1
  <2>3. ASSUME NEW j \in 1..(Len(nets) - 1)
        PROVE  Tail(nets)[j] = own[Len(Append(slots, n)) + j]
    <3>1. j + 1 \in 1..Len(nets) /\ Len(slots) + (j + 1) = Len(Append(slots, n)) + j
      BY <1>5, <2>3
    <3>2. nets[j + 1] = own[Len(slots) + (j + 1)]
      BY <2>1, <3>1
    <3> QED BY <1>5, <3>1, <3>2
  <2>4. DOMAIN Tail(nets) = 1..(Len(nets) - 1)
    BY <1>3, <1>5
  <2> QED BY <2>2, <2>3, <2>4 DEF RestOf, own
<1>7. ServesOwn(m, Append(slots, n))
  <2>1. Len(slots) + Len(nets) = Len(own) /\ nets[1] = own[Len(slots) + 1]
    <3>0. DOMAIN nets = 1..Len(nets)
      BY <1>1
    <3>1. \A j \in 1..Len(nets) : nets[j] = own[Len(slots) + j]
      BY <1>1, <3>0 DEF RestOf
    <3>2. Len(slots) + Len(nets) = Len(own)
      BY <1>1 DEF RestOf
    <3> HIDE DEF nets, slots, own
    <3>3. 1 \in 1..Len(nets)
      BY <1>5
    <3> QED BY <3>1, <3>2, <3>3
  <2>2. Net(m) = nets[1]
    BY <1>1 DEF Net
  <2>3. DOMAIN own = 1..Len(own) /\ DOMAIN Append(slots, n) = 1..(Len(slots) + 1) /\ DOMAIN slots = 1..Len(slots)
    BY <1>1, <1>3, <1>5
  <2>4. ASSUME NEW i \in 1..(Len(slots) + 1)
        PROVE  i \in DOMAIN own /\ Carries(Append(slots, n)[i], own[i])
    <3> HIDE DEF nets, slots, own
    <3>1. i \in DOMAIN own
      BY <1>5, <2>1, <2>3
    <3>2. CASE i \in 1..Len(slots)
      BY <1>1, <1>5, <2>3, <3>1, <3>2 DEF ServesOwn, own
    <3>3. CASE i = Len(slots) + 1
      BY <1>5, <2>1, <2>2, <3>1, <3>3
    <3> QED BY <1>5, <3>1, <3>2, <3>3
  <2> QED BY <2>3, <2>4 DEF ServesOwn
<1> QED BY <1>4, <1>6, <1>7 DEF CmdOK

\* A machine's command becomes x; of the utility's state it touches its own
\* request only.
Turn(m, x) ==
  /\ cmd' = [cmd EXCEPT ![m] = x] /\ CmdOK(m, x)
  /\ x.at \in {"check", "list", "route"} => call'[m].at = "idle"
  /\ x.at = "create" => call'[m].at # "idle" /\ call'[m].req = CreateRequest(Head(x.nets))
  /\ adapter' = adapter \/ adapter' = [adapter EXCEPT ![m] = cmd[m].slots]
  /\ UNCHANGED <<driver, vmnet, netLock, foreign, edited, halfway>>

\* The types of what the commands change.
CommandTypes ==
  /\ cmd \in [Machines -> Cmd] /\ adapter \in [Machines -> Seq(Slots)]
  /\ foreign \subseteq Subnets /\ left \in [Callers -> Nat]
  /\ raced \subseteq Subnets /\ edited \subseteq Slots \cup {NoSlot} /\ halfway \subseteq Slots

\* What a command knows before its step.
LEMMA CommandKnows ==
  ASSUME CommandTypes, NEW m \in Machines, CommandInv(m)
  PROVE  /\ cmd[m] \in Cmd /\ CmdOK(m, cmd[m])
         /\ cmd[m].nets \in Seq(Subnets) /\ cmd[m].slots \in Seq(Slots)
         /\ cmd[m].seen \in SUBSET (Slots \X (Subnets \cup {NoSubnet}))
         /\ cmd[m].at \in {"route", "create"} => Net(m) \in Subnets
<1>1. cmd[m] \in Cmd
  BY DEF CommandTypes
<1>2. /\ cmd[m].nets \in Seq(Subnets) /\ cmd[m].slots \in Seq(Slots)
      /\ cmd[m].seen \in SUBSET (Slots \X (Subnets \cup {NoSubnet}))
  BY <1>1 DEF Cmd
<1>3. CmdOK(m, cmd[m])
  BY <1>1 DEF CommandInv, CmdOK, At
<1>4. cmd[m].at \in {"route", "create"} => Net(m) \in Subnets
  <2>1. SUFFICES ASSUME cmd[m].nets # <<>> PROVE Net(m) \in Subnets
    BY DEF CommandInv
  <2> QED BY <1>2, <2>1, HeadTailProperties DEF Net
<1> QED BY <1>1, <1>2, <1>3, <1>4

\* The turn of a command that begins.
LEMMA TurnOfBegin ==
  ASSUME CommandTypes, NEW m \in Machines, CommandInv(m), Begin(m)
  PROVE  \E x : Turn(m, x)
<1> DEFINE x == [NoCmd EXCEPT !.at = "check", !.nets = NetworksOf[m]]
<1>1. NetworksOf[m] \in Seq(Subnets)
  BY CommandsAssumption
<1>2. x \in Cmd /\ x.at = "check" /\ x.nets = NetworksOf[m] /\ x.slots = <<>> /\ x.seen = {}
  <2>1. NoCmd \in Cmd /\ NoCmd.slots = <<>> /\ NoCmd.seen = {}
    BY NoCmdOK DEF CmdOK, NoCmd
  <2> QED BY <1>1, <2>1 DEF Cmd
<1>3. /\ cmd' = [cmd EXCEPT ![m] = x] /\ call'[m].at = "idle" /\ adapter' = adapter
      /\ UNCHANGED <<driver, vmnet, netLock, foreign, edited, halfway>>
  BY DEF Begin, driverVars
<1> HIDE DEF x
<1>4. RestOf(m, <<>>, NetworksOf[m])
  <2>1. Len(<<>>) = 0 /\ Len(NetworksOf[m]) \in Nat /\ DOMAIN NetworksOf[m] = 1..Len(NetworksOf[m])
    BY <1>1
  <2> QED BY <2>1 DEF RestOf
<1>5. CmdOK(m, x)
  BY <1>2, <1>4 DEF CmdOK, ServesOwn
<1> QED BY <1>2, <1>3, <1>5 DEF Turn

\* The turn of a command that has checked what exists.
LEMMA TurnOfCheck ==
  ASSUME CommandTypes, NEW m \in Machines, CommandInv(m), CheckExistingNetwork(m)
  PROVE  \E x : Turn(m, x)
<1> DEFINE x == [cmd[m] EXCEPT !.at = "list"]
<1>1. cmd[m] \in Cmd /\ CmdOK(m, cmd[m])
  BY CommandKnows
<1>2. /\ x \in Cmd /\ x.at = "list" /\ x.nets = cmd[m].nets /\ x.slots = cmd[m].slots
      /\ x.seen = cmd[m].seen
  BY <1>1 DEF Cmd
<1>3. /\ cmd' = [cmd EXCEPT ![m] = x] /\ call'[m] = call[m] /\ adapter' = adapter
      /\ cmd[m].at = "check" /\ UNCHANGED <<driver, vmnet, netLock, foreign, edited, halfway>>
  BY DEF CheckExistingNetwork, driverVars, At, CommandTypes
<1> HIDE DEF x
<1> QED BY <1>1, <1>2, <1>3 DEF Turn, CmdOK, CommandInv

\* The turn of a command that reads the devices.
LEMMA TurnOfRead ==
  ASSUME DriverTypes, CommandTypes, NEW m \in Machines, CommandInv(m), ReadVmnetDevices(m)
  PROVE  \E x : Turn(m, x)
<1> DEFINE list == ListVmnetDevices
           x == [cmd[m] EXCEPT !.at = "route", !.seen = list]
<1>1. cmd[m] \in Cmd /\ CmdOK(m, cmd[m])
  BY CommandKnows
<1>2. \A p \in list : p \in Slots \X (Subnets \cup {NoSubnet}) /\ Carries(p[1], p[2])
  <2> TAKE p \in list
  <2>1. PICK n \in Existing : p = <<n, vmnet[n].subnet>>
    BY DEF ListVmnetDevices
  <2>2. n \in Slots /\ vmnet[n].exists /\ vmnet[n] \in Device
    BY DEF Existing, DriverTypes
  <2> QED BY <2>1, <2>2 DEF Device, Carries
<1>3. cmd' = [cmd EXCEPT ![m] = x]
  BY DEF ReadVmnetDevices, CommandTypes
<1> HIDE DEF list
<1>4. /\ x \in Cmd /\ x.at = "route" /\ x.nets = cmd[m].nets /\ x.slots = cmd[m].slots
      /\ x.seen = list
  <2>1. list \in SUBSET (Slots \X (Subnets \cup {NoSubnet}))
    BY <1>2
  <2> QED BY <1>1, <2>1 DEF Cmd
<1>5. /\ call'[m] = call[m] /\ adapter' = adapter /\ cmd[m].at = "list" /\ cmd[m].nets # <<>>
      /\ UNCHANGED <<driver, vmnet, netLock, foreign, edited, halfway>>
  BY DEF ReadVmnetDevices, driverVars, At
<1> HIDE DEF x
<1>6. CmdOK(m, x)
  BY <1>1, <1>2, <1>4, <1>5 DEF CmdOK
<1> QED BY <1>3, <1>4, <1>5, <1>6 DEF Turn, CommandInv

\* The turn of a command that uses a device that is there.
LEMMA TurnOfUse ==
  ASSUME CommandTypes, NEW m \in Machines, CommandInv(m), UseDevice(m)
  PROVE  \E x : Turn(m, x)
<1>1. PICK n \in Matching(m), t \in [Subnets -> Devices] :
        cmd' = [cmd EXCEPT ![m] = [Found(m, n) EXCEPT !.loaded = TRUE, !.table = t]]
  BY DEF UseDevice
<1> DEFINE x == [Found(m, n) EXCEPT !.loaded = TRUE, !.table = t]
<1>2. /\ cmd[m] \in Cmd /\ CmdOK(m, cmd[m]) /\ cmd[m].at = "route" /\ Net(m) \in Subnets
      /\ cmd[m].seen \in SUBSET (Slots \X (Subnets \cup {NoSubnet}))
  BY CommandKnows DEF UseDevice, At
<1>3. n \in Slots /\ Carries(n, Net(m))
  <2>1. PICK p \in cmd[m].seen : p[1] = n /\ p[2] = Net(m)
    BY DEF Matching
  <2>2. p[2] # NoSubnet
    BY <1>2, <2>1, SubnetsAssumption
  <2> QED BY <1>2, <2>1, <2>2 DEF CmdOK
<1>4. CmdOK(m, x) /\ x.at = "list"
  BY <1>2, <1>3, FoundOK
<1>5. /\ cmd' = [cmd EXCEPT ![m] = x] /\ call'[m] = call[m] /\ adapter' = adapter
      /\ UNCHANGED <<driver, vmnet, netLock, foreign, edited, halfway>>
  BY <1>1 DEF UseDevice, driverVars
<1> HIDE DEF x
<1> QED BY <1>2, <1>4, <1>5 DEF Turn, CommandInv

\* The turn of a command that asks for a device.
LEMMA TurnOfCreate ==
  ASSUME DriverTypes, CommandTypes, NEW m \in Machines, m \in Callers, CommandInv(m), CreateDevice(m)
  PROVE  \E x : Turn(m, x)
<1>1. PICK t \in [Subnets -> Devices] :
        cmd' = [cmd EXCEPT ![m].at = "create", ![m].loaded = TRUE, ![m].table = t]
  BY DEF CreateDevice
<1> DEFINE x == [cmd[m] EXCEPT !.at = "create", !.loaded = TRUE, !.table = t]
<1>2. cmd[m] \in Cmd /\ CmdOK(m, cmd[m]) /\ cmd[m].at = "route"
  BY CommandKnows DEF CreateDevice, At
<1>3. cmd' = [cmd EXCEPT ![m] = x]
  BY <1>1 DEF CommandTypes
<1>4. /\ x \in Cmd /\ x.at = "create" /\ x.nets = cmd[m].nets /\ x.slots = cmd[m].slots
      /\ x.seen = cmd[m].seen
  BY <1>2 DEF Cmd
<1>5. call'[m].at # "idle" /\ call'[m].req = CreateRequest(Net(m))
  BY DEF CreateDevice, Send, DriverTypes
<1>6. adapter' = adapter /\ UNCHANGED <<driver, vmnet, netLock, foreign, edited, halfway>>
  BY DEF CreateDevice
<1> HIDE DEF x
<1>7. CmdOK(m, x)
  BY <1>2, <1>4 DEF CmdOK
<1> QED BY <1>3, <1>4, <1>5, <1>6, <1>7 DEF Turn, Net

\* The turn of a command that is given its device.
LEMMA TurnOfCreated ==
  ASSUME DriverTypes, CommandTypes, CallsInv, NEW m \in Machines, m \in Callers, CommandInv(m), Created(m)
  PROVE  \E x : Turn(m, x)
<1>1. /\ cmd[m] \in Cmd /\ CmdOK(m, cmd[m]) /\ cmd[m].at = "create" /\ Net(m) \in Subnets
      /\ call[m].req = CreateRequest(Net(m)) /\ call[m].at = "answered"
  BY CommandKnows DEF Created, At, CommandInv
<1>2. /\ call'[m].at = "idle" /\ adapter' = adapter
      /\ UNCHANGED <<driver, vmnet, netLock, foreign, edited, halfway>>
  BY DEF Created, DriverTypes, NoCall
<1>3. CASE ~call[m].ok
  <2>1. cmd' = [cmd EXCEPT ![m] = NoCmd]
    BY <1>3 DEF Created
  <2> QED BY <1>2, <2>1, NoCmdOK DEF Turn
<1>4. CASE call[m].ok
  <2> DEFINE n == AnsweredName(m)
  <2>1. cmd' = [cmd EXCEPT ![m] = Found(m, n)]
    BY <1>4 DEF Created
  <2>2. Built(m)
    BY <1>1, <1>4 DEF CallsInv, Creates, CreateRequest
  <2>3. n \in Slots /\ Carries(n, Net(m))
    <3>1. OwnSubnet(call[m].req) /\ call[m].req.subnet = Net(m)
      BY <1>1, SubnetsAssumption DEF OwnSubnet, CreateRequest
    <3> QED BY <2>2, <3>1 DEF Built, HasSubnet, Carries, AnsweredName
  <2> HIDE DEF n
  <2>4. CmdOK(m, Found(m, n)) /\ Found(m, n).at = "list"
    <3>1. [s \in Subnets |-> NoSlot] \in [Subnets -> Devices]
      BY DEF Devices
    <3> QED BY <1>1, <2>3, <3>1, FoundOK
  <2> QED BY <1>2, <2>1, <2>4 DEF Turn
<1> QED BY <1>3, <1>4

\* Every step of a machine is such a turn.
LEMMA StepTurns ==
  ASSUME DriverTypes, CommandTypes, CallsInv, NEW m \in Machines, CommandInv(m), Step(m) \/ Raise(m)
  PROVE  \E x : Turn(m, x)
<1>1. m \in Callers
  BY CommandsAssumption
<1>2. ASSUME Collision(m) \/ SetupAdapters(m) \/ Raise(m)
      PROVE  Turn(m, NoCmd)
  BY <1>2, NoCmdOK DEF Turn, Collision, SetupAdapters, Raise, driverVars
<1> QED BY <1>1, <1>2, TurnOfBegin, TurnOfCheck, TurnOfRead, TurnOfUse, TurnOfCreate, TurnOfCreated DEF Step

\* A turn keeps what is true of every command.
LEMMA TurnKeeps ==
  ASSUME CommandTypes, NEW m \in Machines, NEW x, Turn(m, x), \A k \in Machines : CommandInv(k),
         \A k \in Machines \ {m} : call'[k] = call[k]
  PROVE  /\ \A k \in Machines : CommandInv(k)'
         /\ cmd' \in [Machines -> Cmd] /\ adapter' \in [Machines -> Seq(Slots)]
<1>1. CmdOK(m, cmd[m]) /\ cmd[m].slots \in Seq(Slots)
  BY CommandKnows
<1>2. /\ cmd' \in [Machines -> Cmd] /\ cmd'[m] = x
      /\ \A k \in Machines \ {m} : cmd'[k] = cmd[k]
  BY DEF Turn, CmdOK, CommandTypes
<1>3. /\ adapter' \in [Machines -> Seq(Slots)]
      /\ \A k \in Machines \ {m} : adapter'[k] = adapter[k]
      /\ adapter'[m] = adapter[m] \/ adapter'[m] = cmd[m].slots
  BY <1>1 DEF Turn, CommandTypes
<1>4. vmnet' = vmnet /\ edited' = edited /\ \A n, s : Carries(n, s)' <=> Carries(n, s)
  BY DEF Turn, Carries
<1>5. CommandInv(m)'
  <2>1. ServesOwn(m, adapter'[m]) /\ CmdOK(m, x)
    BY <1>1, <1>3 DEF CommandInv, CmdOK, Turn
  <2>2. ServesOwn(m, adapter[m])' /\ ServesOwn(m, cmd[m].slots)'
    BY <1>2, <1>4, <2>1 DEF ServesOwn, CmdOK
  <2>3. x.at # "idle" => RestOf(m, cmd[m].slots, cmd[m].nets)'
    BY <1>2, <2>1 DEF RestOf, CmdOK
  <2>4. \A p \in x.seen : p[2] # NoSubnet => Carries(p[1], p[2])'
    BY <1>4, <2>1 DEF CmdOK
  <2>5. CreateRequest(Net(m))' = CreateRequest(Head(x.nets)) /\ \A step : At(m, step)' <=> x.at = step
    BY <1>2 DEF CreateRequest, Net, At
  <2>6. /\ x.at # "setup"
        /\ x.at \in {"route", "create"} => x.nets # <<>>
    BY <2>1 DEF CmdOK
  <2>7. At(m, "create")' => (call[m].at # "idle" /\ call[m].req = CreateRequest(Net(m)))'
    BY <2>5 DEF Turn
  <2>8. x.at \in {"check", "list", "route"} => call'[m].at = "idle"
    BY DEF Turn
  <2>9. \A p \in cmd'[m].seen : (p[2] # NoSubnet => Carries(p[1], p[2]))'
    BY <1>2, <2>4
  <2> QED BY <1>2, <2>2, <2>3, <2>5, <2>6, <2>7, <2>8, <2>9 DEF CommandInv
<1>6. ASSUME NEW k \in Machines \ {m} PROVE CommandInv(k)'
  <2>1. \A n \in Slots \ edited : Lasting(n)
    BY <1>4 DEF Lasting
  <2>2. /\ cmd[k] \in Cmd /\ adapter[k] \in Seq(Slots) /\ cmd'[k] = cmd[k] /\ adapter'[k] = adapter[k]
        /\ call'[k] = call[k]
    BY <1>2, <1>3 DEF CommandTypes
  <2> QED BY <1>4, <2>1, <2>2, FrameCommand
<1> QED BY <1>2, <1>3, <1>5, <1>6

\* What a client's request is.
LEMMA SendStep ==
  ASSUME DriverTypes, NEW c \in Callers, call[c].at = "idle", NEW r \in Request, Send(c, r),
         UNCHANGED <<driver, vmnet, netLock>>, edited \subseteq edited',
         r.kind \in {"update", "delete"} => r.slot \in edited',
         r.kind = "create" => r.slot \in edited' \cup {NoSlot}
  PROVE  ClientStep(c) /\ call' \in [Callers -> Call] /\ call'[c].req = r
<1> DEFINE new == [at |-> "queued", req |-> r, slot |-> r.slot, next |-> "done", ok |-> TRUE]
<1>1. new \in Call /\ new.req = r
  BY DEF Call, Request, Command
<1>2. call' = [call EXCEPT ![c] = new]
  BY DEF Send
<1>3. call' \in [Callers -> Call] /\ call'[c] = new /\ \A q \in Callers \ {c} : call'[q] = call[q]
  BY <1>1, <1>2 DEF DriverTypes
<1> QED BY <1>1, <1>3 DEF ClientStep

\* What a caller does with an answer.
LEMMA TakeStep ==
  ASSUME DriverTypes, NEW c \in Callers, call[c].at = "answered", call' = [call EXCEPT ![c] = NoCall],
         UNCHANGED <<driver, vmnet, netLock, edited>>
  PROVE  /\ ClientStep(c) /\ call' \in [Callers -> Call] /\ ~Creates(c)'
         /\ \A q \in Callers \ {c} : call'[q] = call[q]
<1>1. NoCall \in Call /\ NoCall.at = "idle"
  BY DEF NoCall, AnyRequest, Call, Request, Command
<1> QED BY <1>1 DEF DriverTypes, ClientStep, Creates

\* A caller that only counts or looks.
LEMMA IdleStep ==
  ASSUME DriverTypes, NEW c \in Callers, UNCHANGED driverVars, edited' = edited
  PROVE  ClientStep(c) /\ call' \in [Callers -> Call] /\ call' = call
BY DEF DriverTypes, ClientStep, driverVars

\* Whatever a machine does, it is one of these; and a device it asks for is one
\* that nobody else asks for, or is marked.
LEMMA MachineIsClient ==
  ASSUME DriverTypes, CommandTypes, NEW m \in Machines, CommandInv(m), Step(m) \/ Raise(m)
  PROVE  /\ m \in Callers /\ ClientStep(m) /\ call' \in [Callers -> Call] /\ halfway' = halfway
         /\ left' \in [Callers -> Nat] /\ raced' \subseteq Subnets /\ raced \subseteq raced'
         /\ Creates(m)' /\ call'[m] # call[m] =>
              \/ call'[m].req.subnet \in raced' \cup {NoSubnet}
              \/ /\ \A q \in Callers \ {m} : Creates(q) => call[q].req.subnet # call'[m].req.subnet
                 /\ \A n \in Existing : vmnet[n].subnet # call'[m].req.subnet
<1>1. m \in Callers
  BY CommandsAssumption
<1>2. CASE Begin(m)
  <2>1. UNCHANGED driverVars /\ edited' = edited /\ raced' = raced /\ halfway' = halfway
    BY <1>2 DEF Begin
  <2>2. left' \in [Callers -> Nat]
    BY <1>1, <1>2 DEF Begin, CommandTypes
  <2> QED BY <1>1, <2>1, <2>2, IdleStep DEF CommandTypes
<1>3. CASE \/ CheckExistingNetwork(m) \/ ReadVmnetDevices(m) \/ UseDevice(m) \/ Collision(m)
           \/ SetupAdapters(m) \/ Raise(m)
  <2>1. /\ UNCHANGED driverVars /\ edited' = edited /\ raced' = raced /\ halfway' = halfway
        /\ left' = left
    BY <1>3 DEF CheckExistingNetwork, ReadVmnetDevices, UseDevice, Collision, SetupAdapters, Raise
  <2> QED BY <1>1, <2>1, IdleStep DEF CommandTypes
<1>4. CASE Created(m)
  <2>1. /\ call[m].at = "answered" /\ call' = [call EXCEPT ![m] = NoCall] /\ raced' = raced
        /\ halfway' = halfway /\ left' = left /\ UNCHANGED <<driver, vmnet, netLock, edited>>
    BY <1>4 DEF Created
  <2> QED BY <1>1, <2>1, TakeStep DEF CommandTypes
<1>5. CASE CreateDevice(m)
  <2> DEFINE s == Net(m)
             r == CreateRequest(s)
  <2>1. /\ cmd[m].at = "route" /\ Matching(m) = {} /\ Send(m, r) /\ left' = left /\ halfway' = halfway
        /\ raced' = (IF Unseen(m, s) THEN raced \cup {s} ELSE raced)
        /\ UNCHANGED <<driver, vmnet, netLock, edited>>
    BY <1>5 DEF CreateDevice, At
  <2>2. s \in Subnets /\ call[m].at = "idle"
    BY <2>1, CommandKnows DEF CommandInv
  <2>3. r \in Request /\ r.kind = "create" /\ r.slot = NoSlot /\ r.subnet = s
    BY <2>2 DEF CreateRequest, Request
  <2> HIDE DEF s, r
  <2>4. ClientStep(m) /\ call' \in [Callers -> Call] /\ call'[m].req = r
    BY <1>1, <2>1, <2>2, <2>3, SendStep
  <2>5. s \notin {p[2] : p \in cmd[m].seen}
    BY <2>1 DEF Matching, s
  <2>6. CASE Unseen(m, s)
    BY <1>1, <2>1, <2>2, <2>3, <2>4, <2>6 DEF CommandTypes
  <2>7. CASE ~Unseen(m, s)
    <3>1. /\ \A q \in Callers \ {m} : Creates(q) => call[q].req.subnet # s
          /\ \A n \in Existing : vmnet[n].subnet # s
      BY <2>5, <2>7 DEF Unseen, Creates
    <3> QED BY <1>1, <2>1, <2>3, <2>4, <2>7, <3>1 DEF CommandTypes
  <2> QED BY <2>6, <2>7
<1> QED BY <1>2, <1>3, <1>4, <1>5 DEF Step

-----------------------------------------------------------------------------
(* The inductive invariant.                                                *)

CommandsInv == \A m \in Machines : CommandInv(m)

IInv == TypeOK /\ CallsInv /\ SubnetsInv /\ UpInv /\ CommandsInv

\* The type invariant has a part for the utility and one for the commands.
LEMMA Types ==
  TypeOK <=> DriverTypes /\ CommandTypes
BY DEF TypeOK, DriverTypes, CommandTypes

\* The initial states satisfy the invariant.
LEMMA InitIInv ==
  ASSUME Init
  PROVE  IInv
<1>1. /\ driver \in Drivers /\ vmnet \in Presets[driver] /\ netLock = NoCaller
      /\ call = [c \in Callers |-> NoCall] /\ cmd = [m \in Machines |-> NoCmd]
      /\ adapter = [m \in Machines |-> <<>>] /\ raced = {} /\ edited = {} /\ halfway = {}
  BY DEF Init
<1>2. NoCall \in Call /\ NoCall.at = "idle" /\ NoCmd \in Cmd
  BY DEF NoCall, AnyRequest, Call, Request, Command, NoCmd, Cmd, Devices
<1>3. Absent \in Device
  BY DEF Absent, Device
<1>4. vmnet \in [Slots -> {Absent} \cup {v \in Device : v.exists /\ v.on}]
  BY <1>1, CommandsAssumption
<1>5. TypeOK
  <2>1. DriverTypes
    BY <1>1, <1>2, <1>3, <1>4 DEF DriverTypes
  <2>2. left \in [Callers -> Nat]
    BY CommandsAssumption DEF Init
  <2>3. CommandTypes
    BY <1>1, <1>2, <2>2 DEF CommandTypes, Init
  <2> QED BY <2>1, <2>3, Types
<1>6. \A c \in Callers : call[c].at = "idle"
  BY <1>1, <1>2
<1>7. CallsInv
  BY <1>6 DEF CallsInv, LockHeld
<1>8. SubnetsInv
  <2>1. NoDuplicateWithoutRace
    BY DEF Init, NoDuplicateWithoutRace
  <2> QED BY <1>6, <2>1 DEF SubnetsInv, Creates, Pending
<1>9. UpInv
  <2>1. ASSUME NEW n \in Existing PROVE vmnet[n].on
    BY <1>4 DEF Existing, Absent
  <2> QED BY <2>1 DEF UpInv, IsUp
<1>10. ASSUME NEW m \in Machines PROVE CommandInv(m)
  <2>1. cmd[m] = NoCmd /\ adapter[m] = <<>> /\ NoCmd.at = "idle" /\ CmdOK(m, NoCmd)
    BY <1>1, NoCmdOK
  <2> QED BY <2>1 DEF CommandInv, At, CmdOK, ServesOwn
<1> QED BY <1>5, <1>7, <1>8, <1>9, <1>10 DEF IInv, CommandsInv

\* A step of a machine.
LEMMA MachineKeeps ==
  ASSUME IInv, NEW m \in Machines, Step(m) \/ Raise(m)
  PROVE  IInv'
<1>1. /\ DriverTypes /\ CommandTypes /\ CallsInv /\ SubnetsInv /\ UpInv
      /\ \A k \in Machines : CommandInv(k)
  BY Types DEF IInv, CommandsInv
<1>2. PICK x : Turn(m, x)
  BY <1>1, StepTurns
<1>3. /\ m \in Callers /\ ClientStep(m) /\ call' \in [Callers -> Call] /\ halfway' = halfway
      /\ left' \in [Callers -> Nat] /\ raced' \subseteq Subnets /\ raced \subseteq raced'
  BY <1>1, MachineIsClient
<1>4. CallsInv'
  BY <1>1, <1>3, ClientKeepsCalls
<1>5. SubnetsInv'
  BY <1>1, <1>3, MachineIsClient, ClientKeepsSubnets
<1>6. UpInv'
  BY <1>1, <1>3, ClientKeepsUp
<1>7. /\ CommandsInv' /\ cmd' \in [Machines -> Cmd] /\ adapter' \in [Machines -> Seq(Slots)]
  <2>1. \A k \in Machines \ {m} : call'[k] = call[k]
    BY <1>3, CommandsAssumption DEF ClientStep
  <2>2. /\ \A k \in Machines : CommandInv(k)'
        /\ cmd' \in [Machines -> Cmd] /\ adapter' \in [Machines -> Seq(Slots)]
    BY <1>1, <1>2, <2>1, TurnKeeps
  <2> QED BY <2>2 DEF CommandsInv
<1>8. TypeOK'
  <2>1. DriverTypes'
    BY <1>1, <1>2, <1>3 DEF DriverTypes, Turn
  <2>2. CommandTypes'
    BY <1>1, <1>2, <1>3, <1>7 DEF CommandTypes, Turn
  <2> QED BY <2>1, <2>2 DEF TypeOK, DriverTypes, CommandTypes
<1> QED BY <1>4, <1>5, <1>6, <1>7, <1>8 DEF IInv

\* A step of another client, or an answer nobody waits for.
LEMMA ClientKeeps ==
  ASSUME IInv, NEW c \in Callers, (c \in Clients /\ Ask(c)) \/ Discard(c)
  PROVE  IInv'
<1>1. /\ DriverTypes /\ CommandTypes /\ CallsInv /\ SubnetsInv /\ UpInv
      /\ \A k \in Machines : CommandInv(k)
  BY Types DEF IInv, CommandsInv
<1>2. /\ UNCHANGED <<driver, vmnet, netLock, cmd, adapter, foreign, halfway>>
  BY DEF Ask, Discard
<1>3. /\ ClientStep(c) /\ call' \in [Callers -> Call] /\ left' \in [Callers -> Nat]
      /\ raced' \subseteq Subnets /\ raced \subseteq raced'
      /\ edited' \subseteq Slots \cup {NoSlot}
      /\ Creates(c)' /\ call'[c] # call[c] => call'[c].req.subnet \in raced' \cup {NoSubnet}
      /\ c \in Machines => ~At(c, "create") /\ call[c].at = "answered"
  <2>1. CASE c \in Clients /\ Ask(c)
    <3>1. PICK r \in Asked :
            /\ Send(c, r) /\ call[c].at = "idle"
            /\ edited' = IF r.kind # "reserve" THEN edited \cup {r.slot} ELSE edited
            /\ raced' = IF r.kind = "create" THEN raced \cup ({r.subnet} \cap Subnets) ELSE raced
      BY <2>1 DEF Ask
    <3>2. r \in Request /\ r.slot \in Slots \cup {NoSlot} /\ r.subnet \in Subnets \cup {NoSubnet}
      BY CommandsAssumption DEF Request
    <3>3. ClientStep(c) /\ call' \in [Callers -> Call] /\ call'[c].req = r
      BY <1>1, <1>2, <3>1, <3>2, SendStep
    <3>4. left' \in [Callers -> Nat]
      BY <1>1, <2>1 DEF Ask, CommandTypes
    <3>5. c \notin Machines
      BY <2>1, CommandsAssumption
    <3>6. /\ raced' \subseteq Subnets /\ raced \subseteq raced' /\ edited' \subseteq Slots \cup {NoSlot}
          /\ Creates(c)' => r.subnet \in raced' \cup {NoSubnet}
      BY <1>1, <3>1, <3>2, <3>3 DEF CommandTypes, Creates
    <3> QED BY <3>3, <3>4, <3>5, <3>6
  <2>2. CASE Discard(c)
    <3>1. /\ call[c].at = "answered" /\ call' = [call EXCEPT ![c] = NoCall]
          /\ c \in Machines => ~At(c, "create")
          /\ UNCHANGED <<driver, vmnet, netLock, left, raced, edited>>
      BY <2>2 DEF Discard
    <3> QED BY <1>1, <3>1, TakeStep DEF CommandTypes
  <2> QED BY <2>1, <2>2
<1>4. CallsInv'
  BY <1>1, <1>3, ClientKeepsCalls
<1>5. SubnetsInv'
  BY <1>1, <1>3, ClientKeepsSubnets
<1>6. UpInv'
  BY <1>1, <1>2, <1>3, ClientKeepsUp
<1>7. CommandsInv'
  <2> SUFFICES ASSUME NEW m \in Machines PROVE CommandInv(m)'
    BY DEF CommandsInv
  <2>1. /\ cmd[m] \in Cmd /\ adapter[m] \in Seq(Slots) /\ cmd'[m] = cmd[m] /\ adapter'[m] = adapter[m]
        /\ edited \subseteq edited' /\ m \in Callers
    BY <1>1, <1>2, <1>3, CommandsAssumption DEF CommandTypes, ClientStep
  <2>2. \A n \in Slots \ edited : Lasting(n)
    BY <1>2 DEF Lasting
  <2>3. CASE m # c
    <3>1. call'[m] = call[m]
      BY <1>3, <2>1, <2>3 DEF ClientStep
    <3> QED BY <1>1, <2>1, <2>2, <3>1, FrameCommand
  <2>4. CASE m = c
    <3>1. /\ cmd[m].at \notin {"create", "check", "list", "route"}
      BY <1>1, <1>3, <2>4 DEF CommandInv, At
    <3>2. cmd[m].at = "idle"
      BY <1>1, <2>1, <3>1 DEF CommandInv, Cmd
    <3>3. ServesOwn(m, cmd[m].slots)' /\ ServesOwn(m, adapter[m])'
      <4>1. ASSUME NEW slots \in Seq(Slots), ServesOwn(m, slots)
            PROVE  \A i \in DOMAIN slots : i \in DOMAIN NetworksOf[m] /\ Carries(slots[i], NetworksOf[m][i])'
        BY <1>2, <2>1, <4>1 DEF ServesOwn, Carries
      <4>2. cmd[m].slots \in Seq(Slots) /\ ServesOwn(m, cmd[m].slots) /\ ServesOwn(m, adapter[m])
        BY <1>1, <2>1 DEF CommandInv, Cmd
      <4>3. \A i \in DOMAIN cmd[m].slots :
              i \in DOMAIN NetworksOf[m] /\ Carries(cmd[m].slots[i], NetworksOf[m][i])'
        BY <2>1, <4>1, <4>2 DEF Carries
      <4>4. \A i \in DOMAIN adapter[m] :
              i \in DOMAIN NetworksOf[m] /\ Carries(adapter[m][i], NetworksOf[m][i])'
        BY <2>1, <4>1, <4>2 DEF Carries
      <4> QED BY <2>1, <4>3, <4>4 DEF ServesOwn, Carries
    <3>4. \A p \in cmd'[m].seen : (p[2] # NoSubnet => Carries(p[1], p[2]))'
      BY <1>1, <1>2, <2>1 DEF CommandInv, Carries
    <3>5. cmd'[m].at = "idle"
      BY <2>1, <3>2
    <3> QED BY <3>3, <3>4, <3>5 DEF CommandInv, At
  <2> QED BY <2>3, <2>4
<1>8. TypeOK'
  <2>1. DriverTypes'
    BY <1>1, <1>2, <1>3 DEF DriverTypes
  <2>2. CommandTypes'
    BY <1>1, <1>2, <1>3 DEF CommandTypes
  <2> QED BY <2>1, <2>2 DEF TypeOK, DriverTypes, CommandTypes
<1> QED BY <1>4, <1>5, <1>6, <1>7, <1>8 DEF IInv

\* A step of the utility.
LEMMA UtilityKeeps ==
  ASSUME IInv, NEW c \in Callers, Utility(c)
  PROVE  IInv'
<1>1. /\ DriverTypes /\ CommandTypes /\ CallsInv /\ SubnetsInv /\ UpInv
      /\ \A k \in Machines : CommandInv(k)
  BY Types DEF IInv, CommandsInv
<1>2. /\ Serve(c) /\ UNCHANGED <<cmd, adapter, foreign, left, raced, edited>>
      /\ halfway' = halfway \cup LeftHalfway(c)
  BY DEF Utility
<1>3. CallsInv' /\ SubnetsInv' /\ UpInv'
  BY <1>1, <1>2, ServeKeepsCalls, ServeKeepsSubnets, ServeKeepsUp
<1>4. /\ call[c].at \in {"queued", "running"} /\ call'[c].at \in {"running", "answered"}
      /\ call'[c].req = call[c].req /\ call' \in [Callers -> Call] /\ driver' = driver
      /\ \A q \in Callers \ {c} : call'[q] = call[q]
  BY <1>1, <1>2, ServeShape
<1>5. vmnet' \in [Slots -> Device] /\ \A n \in Slots \ edited : Lasting(n)
  BY <1>1, <1>2, ServeDevices
<1>6. ASSUME NEW m \in Machines PROVE CommandInv(m)'
  <2>1. /\ cmd[m] \in Cmd /\ adapter[m] \in Seq(Slots) /\ cmd'[m] = cmd[m] /\ adapter'[m] = adapter[m]
        /\ edited \subseteq edited' /\ m \in Callers
    BY <1>1, <1>2, CommandsAssumption DEF CommandTypes
  <2>2. /\ call'[m].at = "idle" <=> call[m].at = "idle"
        /\ call[m].at # "idle" => call'[m].req = call[m].req
    BY <1>4, <2>1
  <2> QED BY <1>1, <1>5, <2>1, <2>2, FrameCommand
<1>7. TypeOK'
  <2>1. netLock' \in Callers \cup {NoCaller}
    BY <1>1, <1>2 DEF DriverTypes, Serve, Enter, GetUnusedDevice, SetVmnetName, Post, Run, CommandFails, Answer
  <2>2. DriverTypes'
    BY <1>1, <1>4, <1>5, <2>1 DEF DriverTypes
  <2>3. LeftHalfway(c) \subseteq Slots
    BY DEF LeftHalfway, Existing
  <2>4. CommandTypes'
    BY <1>1, <1>2, <2>3 DEF CommandTypes
  <2> QED BY <2>2, <2>4 DEF TypeOK, DriverTypes, CommandTypes
<1> QED BY <1>3, <1>6, <1>7 DEF IInv, CommandsInv

\* Every step keeps the invariant.
LEMMA NextIInv ==
  ASSUME IInv, [Next]_vars
  PROVE  IInv'
<1>1. CASE \E m \in Machines : Step(m) \/ Raise(m)
  BY <1>1, MachineKeeps
<1>2. CASE \E c \in Clients : Ask(c)
  BY <1>2, ClientKeeps, CommandsAssumption
<1>3. CASE \E c \in Callers : Discard(c)
  BY <1>3, ClientKeeps
<1>4. CASE \E c \in Callers : Utility(c)
  BY <1>4, UtilityKeeps
<1>5. CASE UNCHANGED vars
  <2>1. TypeOK'
    BY <1>5 DEF IInv, TypeOK, vars, driverVars
  <2>0. /\ driver' = driver /\ vmnet' = vmnet /\ netLock' = netLock /\ call' = call /\ edited' = edited
        /\ cmd' = cmd /\ adapter' = adapter /\ \A n \in Slots : SameDevice(n) /\ Lasting(n)
    BY <1>5 DEF vars, driverVars, SameDevice, Lasting
  <2>2. CallsInv'
    <3>1. LockHeld'
      BY <2>0 DEF IInv, CallsInv, LockHeld
    <3>2. ASSUME NEW c \in Callers, call'[c].at # "idle" PROVE RequestOK(c)'
      BY <2>0, <3>2, FrameRequest DEF IInv, CallsInv
    <3>3. ASSUME NEW c \in Callers, call'[c].at = "running", Creates(c)' PROVE Progress(c)'
      BY <2>0, <3>3, FrameProgress DEF IInv, CallsInv, Creates
    <3>4. ASSUME NEW c \in Callers, call'[c].at = "answered", Creates(c)', call'[c].ok PROVE Built(c)'
      BY <2>0, <3>4, BuiltLasts DEF IInv, CallsInv, Creates
    <3> QED BY <3>1, <3>2, <3>3, <3>4 DEF CallsInv
  <2>3. SubnetsInv'
    BY <1>5 DEF IInv, SubnetsInv, NoDuplicateWithoutRace, Creates, Pending, Existing, vars, driverVars
  <2>4. UpInv'
    BY <1>5 DEF IInv, UpInv, IsUp, Making, Existing, vars, driverVars
  <2>5. CommandsInv'
    <3>1. ASSUME NEW m \in Machines PROVE CommandInv(m)'
      <4>1. cmd[m] \in Cmd /\ adapter[m] \in Seq(Slots) /\ CommandInv(m)
        BY DEF IInv, TypeOK, CommandsInv
      <4> QED BY <2>0, <4>1, FrameCommand
    <3> QED BY <3>1 DEF CommandsInv
  <2> QED BY <2>1, <2>2, <2>3, <2>4, <2>5 DEF IInv
<1> QED BY <1>1, <1>2, <1>3, <1>4, <1>5 DEF Next

-----------------------------------------------------------------------------
(* What is true of every behaviour.                                        *)

\* The inductive invariant holds, whatever the machines, the networks, the
\* devices there were before, and the interleaving of the commands, of the
\* other clients and of the commands of vnetlib (driver/advanced.go:48-205).
THEOREM InductiveInvariant ==
  Spec => []IInv
<1>1. Init => IInv
  BY InitIInv
<1>2. IInv /\ [Next]_vars => IInv'
  BY NextIInv
<1> QED BY <1>1, <1>2, PTL DEF Spec

\* Every variable keeps its type: what a command of action/network.rb holds, and
\* what the utility knows of its requests and devices.
THEOREM TypeCorrect ==
  Spec => []TypeOK
<1>1. IInv => TypeOK
  BY DEF IInv
<1> QED BY <1>1, InductiveInvariant, PTL

\* The adapters of a machine are on devices of the machine's own subnets, in the
\* order of its networks (action/network.rb:191-217).
THEOREM OwnNetwork ==
  Spec => []AttachedToOwnNetwork
<1>1. IInv => AttachedToOwnNetwork
  BY DEF IInv, CommandsInv, CommandInv, ServesOwn, AttachedToOwnNetwork
<1> QED BY <1>1, InductiveInvariant, PTL

\* The adapter of the device is enabled, or a creation has that still to do, or
\* failed to, or another client had a hand in it (driver/advanced.go:48-104).
THEOREM NetworkIsUp ==
  Spec => []AttachedNetworkIsUp
<1>1. ASSUME IInv PROVE AttachedNetworkIsUp
  <2> SUFFICES ASSUME NEW m \in Machines, NEW i \in DOMAIN adapter[m]
               PROVE  IsUp(adapter[m][i])
    BY DEF AttachedNetworkIsUp, IsUp
  <2>1. adapter[m][i] \in Slots
    BY <1>1 DEF IInv, TypeOK
  <2>2. Carries(adapter[m][i], NetworksOf[m][i])
    BY <1>1 DEF IInv, CommandsInv, CommandInv, ServesOwn
  <2>3. adapter[m][i] \in edited \/ adapter[m][i] \in Existing
    BY <2>1, <2>2 DEF Carries, Existing
  <2> QED BY <1>1, <2>3 DEF IInv, UpInv, IsUp
<1> QED BY <1>1, InductiveInvariant, PTL

\* Two devices of one subnet come from a request that did not see the other one
\* (action/network.rb:203), and from nothing else.
THEOREM NoDuplicates ==
  Spec => []NoDuplicateWithoutRace
<1>1. IInv => NoDuplicateWithoutRace
  BY DEF IInv, SubnetsInv
<1> QED BY <1>1, InductiveInvariant, PTL

\* The name that setVmnetName picks is free until vmrest has made the device
\* (driver/vmrest.go:487-530, 787-801): netLock keeps the others away
\* meanwhile.
THEOREM NameIsFree ==
  Spec => []NewNameIsFree
<1>1. ASSUME IInv PROVE NewNameIsFree
  <2> SUFFICES ASSUME NEW c \in Callers, Doing(c, "post"), call[c].req.slot = NoSlot
               PROVE  call[c].slot \notin Existing \/ 0 \in Existing
    BY DEF NewNameIsFree
  <2>1. driver \in {"advanced", "vmrest"} /\ call[c].req \in Request /\ call[c].at = "running"
    BY <1>1 DEF IInv, TypeOK, Call, Drivers, Doing
  <2>2. "post" \in CommandsOf(call[c].req)
    BY <1>1, <2>1 DEF IInv, CallsInv, RequestOK, Doing
  <2>3. driver = "vmrest" /\ call[c].req.kind = "create"
    BY <2>1, <2>2 DEF CommandsOf, AddCommands, UpdateCommands, DeleteCommands, ReserveCommands, Request
  <2>4. Progress(c)
    BY <1>1, <2>1, <2>3 DEF IInv, CallsInv, Creates
  <2> QED BY <2>3, <2>4 DEF Progress, Doing
<1> QED BY <1>1, InductiveInvariant, PTL

=============================================================================
