---------------------------- MODULE NetworkSetup ----------------------------
(***************************************************************************)
(* The host-only networks of several vagrant commands over the devices of  *)
(* the utility.                                                            *)
(*                                                                         *)
(*   action/check_existing_network.rb   the check before a start           *)
(*   action/network.rb                  call, hostonly_adapter             *)
(*   helper/routing_table.rb            device_for_route                   *)
(*   driver/base.rb                     read_vmnet_devices,                *)
(*                                      create_vmnet_device, setup_adapters*)
(*                                                                         *)
(* A command looks for a device of the subnet it wants, checks where the   *)
(* host would send the address, and asks for a new device when there is    *)
(* none: three steps with nothing held between them.  The vmware-network   *)
(* lock covers the check before a start and the edit of the machine's own  *)
(* vmx file, so each of the two is one step here.  Other clients of the    *)
(* utility change devices meanwhile.                                       *)
(***************************************************************************)
EXTENDS VnetlibDriver, Sequences

CONSTANTS
  Machines,   \* the callers that are vagrant commands, one per machine
  Clients,    \* the callers that are anything else
  Presets,    \* the devices VMware may have set up before, for each driver
  NetworksOf, \* the subnets of a machine's private networks with an address
  Asked,      \* what the other clients ask for
  MaxUps,     \* how often a machine is brought up
  MaxAsked,   \* how many requests a client makes
  Elsewhere   \* a device that is no vmnet

ASSUME CommandsAssumption ==
  /\ Callers = Machines \cup Clients /\ Machines \cap Clients = {}
  /\ NetworksOf \in [Machines -> Seq(Subnets)]
  /\ \A d \in Drivers : Presets[d] \subseteq [Slots -> {Absent} \cup {v \in Device : v.exists /\ v.on}]
  /\ Asked \subseteq Request
  /\ Elsewhere \notin Slots /\ Elsewhere # NoSlot
  /\ MaxUps \in Nat /\ MaxAsked \in Nat

VARIABLES
  cmd,     \* each machine's command
  adapter, \* each machine's vmx file: the devices of its networks
  foreign, \* the subnets the host reaches through another device
  left,    \* how many commands and requests may still start
  raced,   \* history: subnets asked for without a look at the devices there are
  edited,  \* history: devices another client changed or deleted
  halfway  \* history: devices left behind by a request that failed

vars == <<driverVars, cmd, adapter, foreign, left, raced, edited, halfway>>

\* device_for_route gives a slot, Elsewhere, or NoSlot for the default route.
Devices == Slots \cup {Elsewhere, NoSlot}

\* A command: the subnets still to find a device for, the list it has read,
\* the routing table once it has read it, and the devices found.
Cmd == [at: {"idle", "check", "list", "route", "create", "setup"}, nets: Seq(Subnets),
        seen: SUBSET (Slots \X (Subnets \cup {NoSubnet})), loaded: BOOLEAN,
        table: [Subnets -> Devices], slots: Seq(Slots)]

NoCmd == [at |-> "idle", nets |-> <<>>, seen |-> {}, loaded |-> FALSE,
          table |-> [s \in Subnets |-> NoSlot], slots |-> <<>>]

Init ==
  /\ driver \in Drivers
  /\ vmnet \in Presets[driver]
  /\ foreign \in SUBSET Subnets
  /\ \A n \in Existing : vmnet[n].subnet \notin foreign
  /\ \A n, k \in Existing : n # k /\ vmnet[n].subnet = vmnet[k].subnet => vmnet[n].subnet = NoSubnet
  /\ netLock = NoCaller
  /\ call = [c \in Callers |-> NoCall]
  /\ cmd = [m \in Machines |-> NoCmd]
  /\ adapter = [m \in Machines |-> <<>>]
  /\ left = [c \in Callers |-> IF c \in Machines THEN MaxUps ELSE MaxAsked]
  /\ raced = {} /\ edited = {} /\ halfway = {}

-----------------------------------------------------------------------------
(* The command of a machine.                                               *)

At(m, step) == cmd[m].at = step

\* The network in hand.
Net(m) == Head(cmd[m].nets)

Begin(m) ==
  /\ At(m, "idle") /\ call[m].at = "idle" /\ left[m] > 0
  /\ left' = [left EXCEPT ![m] = @ - 1]
  /\ cmd' = [cmd EXCEPT ![m] = [NoCmd EXCEPT !.at = "check", !.nets = NetworksOf[m]]]
  /\ UNCHANGED <<driverVars, adapter, foreign, raced, edited, halfway>>

\* verify_vmnet! waits for netLock like any change.
CheckExistingNetwork(m) ==
  /\ At(m, "check") /\ netLock = NoCaller
  /\ cmd' = [cmd EXCEPT ![m].at = "list"]
  /\ UNCHANGED <<driverVars, adapter, foreign, left, raced, edited, halfway>>

ReadVmnetDevices(m) ==
  /\ At(m, "list") /\ cmd[m].nets # <<>>
  /\ cmd' = [cmd EXCEPT ![m].at = "route", ![m].seen = ListVmnetDevices]
  /\ UNCHANGED <<driverVars, adapter, foreign, left, raced, edited, halfway>>

\* Where the host may send an address of subnet s: of two routes of one size
\* either may be the one the table keeps.
RoutesTo(s) ==
  LET up == {n \in Existing : vmnet[n].on /\ vmnet[n].subnet = s}
                \cup (IF s \in foreign THEN {Elsewhere} ELSE {})
  IN IF up = {} THEN {NoSlot} ELSE up

\* The table is read at the first network and kept for the others.
RoutingTable(m, t) ==
  IF cmd[m].loaded THEN t = cmd[m].table
  ELSE \A s \in Subnets : t[s] \in RoutesTo(s)

\* Mutant: existing devices are not looked at.
NoneMatching(m) == {}

\* The listed devices of the subnet.
Matching(m) == {p[1] : p \in {q \in cmd[m].seen : q[2] = Net(m)}}

\* The host routes the address through a device that is not the match.
Collides(device, vmnets) == device # NoSlot /\ device \notin vmnets

\* The network in hand goes through device n.
Found(m, n) ==
  [cmd[m] EXCEPT !.at = "list", !.nets = Tail(@), !.slots = Append(@, n), !.seen = {}]

UseDevice(m) ==
  /\ At(m, "route")
  /\ \E n \in Matching(m), t \in [Subnets -> Devices] :
       /\ RoutingTable(m, t) /\ ~Collides(t[Net(m)], {n})
       /\ cmd' = [cmd EXCEPT ![m] = [Found(m, n) EXCEPT !.loaded = TRUE, !.table = t]]
  /\ UNCHANGED <<driverVars, adapter, foreign, left, raced, edited, halfway>>

CreateRequest(s) ==
  [kind |-> "create", slot |-> NoSlot, subnet |-> s, dhcp |-> "unset", type |-> "hostOnly"]

\* A device of s that the command has not seen is there or on its way.
Unseen(m, s) ==
  /\ s \notin {p[2] : p \in cmd[m].seen}
  /\ \/ s \in {vmnet[n].subnet : n \in Existing}
     \/ \E c \in Callers \ {m} : call[c].at # "idle" /\ call[c].req.kind = "create" /\ call[c].req.subnet = s

CreateDevice(m) ==
  LET s == Net(m)
  IN /\ At(m, "route") /\ Matching(m) = {}
     /\ \E t \in [Subnets -> Devices] :
          /\ RoutingTable(m, t) /\ ~Collides(t[s], {})
          /\ cmd' = [cmd EXCEPT ![m].at = "create", ![m].loaded = TRUE, ![m].table = t]
     /\ Send(m, CreateRequest(s))
     /\ raced' = IF Unseen(m, s) THEN raced \cup {s} ELSE raced
     /\ UNCHANGED <<driver, vmnet, netLock, adapter, foreign, left, edited, halfway>>

Created(m) ==
  /\ At(m, "create") /\ call[m].at = "answered"
  /\ call' = [call EXCEPT ![m] = NoCall]
  /\ cmd' = [cmd EXCEPT ![m] = IF call[m].ok THEN Found(m, AnsweredName(m)) ELSE NoCmd]
  /\ UNCHANGED <<driver, vmnet, netLock, adapter, foreign, left, raced, edited, halfway>>

\* NetworkingHostOnlyCollision.
Collision(m) ==
  /\ At(m, "route")
  /\ \E t \in [Subnets -> Devices] :
       /\ RoutingTable(m, t)
       /\ IF Matching(m) = {} THEN Collides(t[Net(m)], {})
          ELSE \E n \in Matching(m) : Collides(t[Net(m)], {n})
  /\ cmd' = [cmd EXCEPT ![m] = NoCmd]
  /\ UNCHANGED <<driverVars, adapter, foreign, left, raced, edited, halfway>>

SetupAdapters(m) ==
  /\ At(m, "list") /\ cmd[m].nets = <<>>
  /\ adapter' = [adapter EXCEPT ![m] = cmd[m].slots]
  /\ cmd' = [cmd EXCEPT ![m] = NoCmd]
  /\ UNCHANGED <<driverVars, foreign, left, raced, edited, halfway>>

\* Any other error is raised, or the process is stopped.
Raise(m) ==
  /\ ~At(m, "idle")
  /\ cmd' = [cmd EXCEPT ![m] = NoCmd]
  /\ UNCHANGED <<driverVars, adapter, foreign, left, raced, edited, halfway>>

-----------------------------------------------------------------------------
(* The other clients, and the utility.                                     *)

Ask(c) ==
  /\ call[c].at = "idle" /\ left[c] > 0
  /\ \E r \in Asked :
       /\ Send(c, r)
       /\ edited' = IF r.kind # "reserve" THEN edited \cup {r.slot} ELSE edited
       /\ raced' = IF r.kind = "create" THEN raced \cup ({r.subnet} \cap Subnets) ELSE raced
  /\ left' = [left EXCEPT ![c] = @ - 1]
  /\ UNCHANGED <<driver, vmnet, netLock, cmd, adapter, foreign, halfway>>

\* An answer that no command waits for.
Discard(c) ==
  /\ call[c].at = "answered" /\ (c \in Machines => ~At(c, "create"))
  /\ call' = [call EXCEPT ![c] = NoCall]
  /\ UNCHANGED <<driver, vmnet, netLock, cmd, adapter, foreign, left, raced, edited, halfway>>

\* What the failure of a creation leaves behind.
LeftHalfway(c) ==
  {n \in Existing : n = call[c].slot /\ call[c].req.kind = "create" /\ ~vmnet[n].on /\ ~call'[c].ok}

Utility(c) ==
  /\ Serve(c)
  /\ halfway' = halfway \cup LeftHalfway(c)
  /\ UNCHANGED <<cmd, adapter, foreign, left, raced, edited>>

Step(m) ==
  \/ Begin(m)
  \/ CheckExistingNetwork(m)
  \/ ReadVmnetDevices(m)
  \/ UseDevice(m)
  \/ Collision(m)
  \/ CreateDevice(m)
  \/ Created(m)
  \/ SetupAdapters(m)

Next ==
  \/ \E m \in Machines : Step(m)
  \/ \E m \in Machines : Raise(m)
  \/ \E c \in Clients : Ask(c)
  \/ \E c \in Callers : Discard(c)
  \/ \E c \in Callers : Utility(c)

Spec == Init /\ [][Next]_vars

-----------------------------------------------------------------------------
(* Properties.                                                             *)

TypeOK ==
  /\ driver \in Drivers
  /\ vmnet \in [Slots -> Device]
  /\ netLock \in Callers \cup {NoCaller}
  /\ call \in [Callers -> Call]
  /\ cmd \in [Machines -> Cmd]
  /\ adapter \in [Machines -> Seq(Slots)]
  /\ foreign \subseteq Subnets
  /\ left \in [Callers -> Nat]
  /\ raced \subseteq Subnets /\ edited \subseteq Slots \cup {NoSlot} /\ halfway \subseteq Slots

\* Device n carries subnet s, unless another client had a hand in it.
Carries(n, s) == n \in edited \/ (vmnet[n].exists /\ vmnet[n].subnet = s)

\* A machine whose adapters are set up is on a device of its own subnet, for
\* each of its networks in turn (action/network.rb:191), whatever other
\* commands made in the meantime: two creations never share a device.
AttachedToOwnNetwork ==
  \A m \in Machines : \A i \in DOMAIN adapter[m] : Carries(adapter[m][i], NetworksOf[m][i])

\* The devices that some request is still making.
Making == {call[c].slot : c \in {k \in Callers : call[k].at = "running" /\ call[k].req.kind = "create"}}

\* The adapter of a device a machine is on is enabled.  A device is listed once
\* it exists and its subnet is set (driver/advanced.go:49-70), so a machine can
\* be put on one that is still being made, or was left behind by a creation
\* that failed; there is no other way.
AttachedNetworkIsUp ==
  \A m \in Machines : \A i \in DOMAIN adapter[m] :
    adapter[m][i] \in edited \cup halfway \cup Making \/ vmnet[adapter[m][i]].on

\* Two devices carry one subnet only after a command asked for a device while
\* the one it had not seen was there or being made (action/network.rb:203), or
\* after another client asked for the subnet.
NoDuplicateWithoutRace ==
  \A n, k \in Existing \ edited :
    n # k /\ vmnet[n].subnet = vmnet[k].subnet /\ vmnet[n].subnet # NoSubnet => vmnet[n].subnet \in raced

\* The name that setVmnetName picks is still free when vmrest is asked for the
\* device, unless vmnet0 is in the list: freeSlot counts from 1.
NewNameIsFree ==
  \A c \in Callers :
    Doing(c, "post") /\ call[c].req.slot = NoSlot => call[c].slot \notin Existing \/ 0 \in Existing
=============================================================================
