--------------------------- MODULE VmrestForwards ---------------------------
(***************************************************************************)
(* The port forwards of the vmrest driver.                                 *)
(*                                                                         *)
(*   driver/vmrest.go   PortFwds, AddPortFwd, DeletePortFwd, AddVmnet      *)
(*   driver/base.go     PrunePortFwds, driverToUtilityFwd                  *)
(*   settings/nat.go    Add, Remove, Save                                  *)
(*                                                                         *)
(* vmrest keeps the forwards, with one description for all of Vagrant's;   *)
(* the machine a forward belongs to is only in the NAT settings.  The      *)
(* handlers hold netLock, so one request is in progress at a time.  Any    *)
(* step of it may fail, and the utility may die between two steps; the     *)
(* forwards outlive it.                                                    *)
(*                                                                         *)
(* A port stands for a host port with its protocol, a guest for a guest    *)
(* address and port.  Forwards of the internal service are not meant here. *)
(***************************************************************************)
EXTENDS FiniteSets, DriverSelection

CONSTANTS
  Ports,      \* host ports
  Guests,     \* where forwards lead
  Vms,        \* virtual machines, as descriptions name them
  Managed,    \* "vagrant: managed port", the description given to vmrest
  NoDesc,     \* the empty description
  Operations, \* what clients ask for
  NoAck,      \* nothing is promised
  Gone        \* the forward was removed

\* A forward as a client asks for it, and as vmrest lists it.
Fwd == [port: Ports, guest: Guests, desc: Vms]
VmrestFwd == [port: Ports, guest: Guests, desc: {Managed, NoDesc}]

\* An entry of settings.NAT.
PortFwd == [port: Ports, guest: Guests, desc: Vms \cup {Managed, NoDesc},
            enable: BOOLEAN, device: {"vmnet8", "8"}]

\* A batch names each port once.
Batch(fwds) == \A f, g \in fwds : f.port = g.port => f = g

Operation ==
  [kind: {"add", "delete"}, fwds: {s \in SUBSET Fwd : Batch(s)}] \cup [kind: {"prune", "device"}]

ASSUME OperationsAssumption ==
  /\ Operations \subseteq Operation
  /\ Managed \notin Vms /\ NoDesc \notin Vms /\ Managed # NoDesc
  /\ NoAck \notin Fwd /\ Gone \notin Fwd /\ NoAck # Gone

VARIABLES
  vmrest,   \* the forwards vmrest keeps
  natMem,   \* settings.NAT in memory
  natDisk,  \* nat.json
  req,      \* the request that holds netLock
  running,  \* the virtual machines that run
  fallback, \* the driver that manages devices, chosen when the utility starts
  ack       \* history: what the last answered request on a port promised

vars == <<vmrest, natMem, natDisk, req, running, fallback, ack>>

Steps == {"idle", "list", "put", "store", "delete", "unstore", "persist", "device"}

\* A request: its next step, the forwards it is about, those still to do, and
\* the one in hand.
Idle == [pc |-> "idle", kind |-> "none", fwds |-> {}, todo |-> {}, cur |-> {}]

At(step) == req.pc = step

-----------------------------------------------------------------------------
(* The tables: one entry per port.                                         *)

PortsOf(fwds) == {f.port : f \in fwds}

Without(fwds, p) == {f \in fwds : f.port # p}

\* Mutant: vmrest is given no description.
Undescribed(f) == [port |-> f.port, guest |-> f.guest, desc |-> NoDesc]

\* Every forward is put under the one description.
Managing(f) == [port |-> f.port, guest |-> f.guest, desc |-> Managed]

PutFwd(f) == Without(vmrest, f.port) \cup {Managing(f)}

\* driverToUtilityFwd: the device by name, and not enabled.
UtilityFwd(f) ==
  [port |-> f.port, guest |-> f.guest, desc |-> f.desc, enable |-> FALSE, device |-> "vmnet8"]

\* An entry of the same port makes way for the new one.
NatAdd(nat, n) == Without(nat, n.port) \cup {n}

\* utilityToDriverFwd: what a settings entry says of a forward.
DriverFwd(n) == [port |-> n.port, guest |-> n.guest, desc |-> n.desc]

\* A forward is described by the settings entry that matches it.
Matches(n, f) == DriverFwd(n).port = f.port /\ DriverFwd(n).guest = f.guest

\* Mutant: vmrest's description is listed.
DescriptionAsIs(f) == f.desc

Description(f) ==
  IF \E n \in natMem : Matches(n, f) THEN DriverFwd(CHOOSE n \in natMem : Matches(n, f)).desc
  ELSE f.desc

\* What PortFwds returns.
Listed == {[port |-> f.port, guest |-> f.guest, desc |-> Description(f)] : f \in vmrest}

\* Asked about forward f's machine, vmrun lists it, or fails, and then the
\* machine counts as running; unsure are the forwards for which it fails.
VmrunAlive(f, unsure) == f.desc \in running \/ f \in unsure

\* PrunePortFwds: every forward with "vagrant: " in its description whose path
\* is not the one of a running machine; Managed's path is none at all.
Unused(unsure) ==
  {f \in Listed : f.desc = Managed \/ (f.desc \in Vms /\ ~VmrunAlive(f, unsure))}

-----------------------------------------------------------------------------
(* Requests.                                                               *)

Promised(p) == ack[p] \notin {NoAck, Gone}

Forget(fwds) == [p \in Ports |-> IF p \in PortsOf(fwds) THEN NoAck ELSE ack[p]]

FirstStep(kind) ==
  CASE kind = "add" -> "put" [] kind = "delete" -> "delete" [] kind = "prune" -> "list"
    [] kind = "device" -> "device"

Accept(op) ==
  /\ At("idle")
  /\ LET fwds == IF op.kind \in {"add", "delete"} THEN op.fwds ELSE {}
     IN /\ req' = [Idle EXCEPT !.pc = FirstStep(op.kind), !.kind = op.kind,
                               !.fwds = fwds, !.todo = fwds]
        /\ ack' = Forget(fwds)
  /\ UNCHANGED <<vmrest, natMem, natDisk, running, fallback>>

Fail == req' = Idle /\ UNCHANGED ack

\* What success promises: the forwards of an addition, with their machines, or
\* that forwards are gone.
Grant ==
  ack' = [p \in Ports |->
            IF p \notin PortsOf(req.fwds) THEN ack[p]
            ELSE IF req.kind = "add" THEN CHOOSE f \in req.fwds : f.port = p
            ELSE Gone]

\* The loops of AddPortFwd and DeletePortFwd end.
Finish ==
  /\ req.pc \in {"put", "delete"} /\ req.todo = {}
  /\ req' = Idle
  /\ Grant
  /\ UNCHANGED <<vmrest, natMem, natDisk, running, fallback>>

-----------------------------------------------------------------------------
(* AddPortFwd.                                                             *)

Put(f) ==
  /\ At("put") /\ f \in req.todo
  /\ vmrest' = PutFwd(f)
  /\ req' = [req EXCEPT !.pc = "store", !.todo = @ \ {f}, !.cur = {f}]
  /\ UNCHANGED <<natMem, natDisk, running, fallback, ack>>

\* The description names no machine, vmrest refuses, or its answer is lost.
PutFails(f) ==
  /\ At("put") /\ f \in req.todo
  /\ vmrest' \in {vmrest, PutFwd(f)}
  /\ Fail
  /\ UNCHANGED <<natMem, natDisk, running, fallback>>

\* NAT.Remove and NAT.Add.
Store(f) ==
  /\ At("store") /\ f \in req.cur
  /\ natMem' = NatAdd(natMem, UtilityFwd(f))
  /\ req' = [req EXCEPT !.pc = "persist"]
  /\ UNCHANGED <<vmrest, natDisk, running, fallback, ack>>

\* The loop goes on with the next forward.
NextTurn == req' = [req EXCEPT !.pc = IF req.kind = "add" THEN "put" ELSE "delete", !.cur = {}]

\* Mutant: the settings are not saved.
PersistNothing ==
  /\ At("persist")
  /\ NextTurn
  /\ UNCHANGED <<vmrest, natMem, natDisk, running, fallback, ack>>

\* NAT.Save writes a temporary file and renames it.
Persist ==
  /\ At("persist")
  /\ natDisk' = natMem
  /\ NextTurn
  /\ UNCHANGED <<vmrest, natMem, running, fallback, ack>>

PersistFails ==
  /\ At("persist")
  /\ Fail
  /\ UNCHANGED <<vmrest, natMem, natDisk, running, fallback>>

-----------------------------------------------------------------------------
(* DeletePortFwd and PrunePortFwds.                                        *)

Delete(f) ==
  /\ At("delete") /\ f \in req.todo
  /\ vmrest' = Without(vmrest, f.port)
  /\ req' = [req EXCEPT !.pc = "unstore", !.todo = @ \ {f}, !.cur = {f}]
  /\ UNCHANGED <<natMem, natDisk, running, fallback, ack>>

DeleteFails(f) ==
  /\ At("delete") /\ f \in req.todo
  /\ vmrest' \in {vmrest, Without(vmrest, f.port)}
  /\ Fail
  /\ UNCHANGED <<natMem, natDisk, running, fallback>>

\* Mutant: the settings keep the entry.
UnstoreNothing(f) ==
  /\ At("unstore") /\ f \in req.cur
  /\ req' = [req EXCEPT !.pc = "persist"]
  /\ UNCHANGED <<vmrest, natMem, natDisk, running, fallback, ack>>

Unstore(f) ==
  /\ At("unstore") /\ f \in req.cur
  /\ natMem' = Without(natMem, f.port)
  /\ req' = [req EXCEPT !.pc = "persist"]
  /\ UNCHANGED <<vmrest, natDisk, running, fallback, ack>>

\* The forwards are listed and looked at one by one.
List ==
  /\ At("list")
  /\ \E unsure \in SUBSET Listed :
       LET unused == Unused(unsure)
       IN /\ req' = [req EXCEPT !.pc = "delete", !.fwds = unused, !.todo = unused]
          /\ ack' = Forget(unused)
  /\ UNCHANGED <<vmrest, natMem, natDisk, running, fallback>>

ListFails ==
  /\ At("list")
  /\ Fail
  /\ UNCHANGED <<vmrest, natMem, natDisk, running, fallback>>

-----------------------------------------------------------------------------
(* Devices are the fallback driver's.                                      *)

\* A line of the networking file, and what loading it makes of its
\* description: MergeFwds takes enabled entries of the same device.
Line(f, desc) ==
  [port |-> f.port, guest |-> f.guest, desc |-> desc, enable |-> TRUE, device |-> "8"]

Merges(n, l) ==
  n.port = l.port /\ n.guest = l.guest /\ n.enable /\ n.device = l.device

Merged(l) ==
  IF \E n \in natMem : Merges(n, l)
  THEN [l EXCEPT !.desc = (CHOOSE n \in natMem : Merges(n, l)).desc]
  ELSE l

\* The advanced driver sets a device up without touching the forwards; the
\* simple one may fail before it does.
AddVmnetAside ==
  /\ At("device")
  /\ req' = Idle
  /\ UNCHANGED <<vmrest, natMem, natDisk, running, fallback, ack>>

\* saveAndRestart of the simple driver (NetworkingUpdates has its steps): the
\* settings are cleared and filled from the networking file, whose lines are
\* vmrest's forwards, with their descriptions or stripped of them.
SimpleAddVmnet ==
  /\ At("device") /\ fallback = "simple"
  /\ \E stripped \in BOOLEAN :
       /\ natMem' = {Merged(Line(f, IF stripped THEN NoDesc ELSE f.desc)) : f \in vmrest}
       /\ vmrest' = IF stripped THEN {[f EXCEPT !.desc = NoDesc] : f \in vmrest} ELSE vmrest
  /\ natDisk' = natMem'
  /\ req' = Idle
  /\ UNCHANGED <<running, fallback, ack>>

\* "stubbing file contents": the simple driver cannot open the networking file
\* and writes one without forwards, which vmrest may go by.  What it loses is
\* promised no more.
StubbedAddVmnet ==
  /\ At("device") /\ fallback = "simple"
  /\ natMem' = {} /\ natDisk' = {} /\ vmrest' \in {vmrest, {}}
  /\ ack' = [p \in Ports |-> IF Promised(p) /\ p \notin PortsOf(vmrest') THEN NoAck ELSE ack[p]]
  /\ req' = Idle
  /\ UNCHANGED <<running, fallback>>

-----------------------------------------------------------------------------
\* The utility dies and is started again: the settings are read from their file.
Crash ==
  /\ req' = Idle
  /\ natMem' = natDisk
  /\ UNCHANGED <<vmrest, natDisk, running, fallback, ack>>

MachineStartsOrStops(vm) ==
  /\ running' = IF vm \in running THEN running \ {vm} ELSE running \cup {vm}
  /\ UNCHANGED <<vmrest, natMem, natDisk, req, fallback, ack>>

Init ==
  /\ vmrest = {} /\ natMem = {} /\ natDisk = {}
  /\ req = Idle
  /\ running \in SUBSET Vms
  /\ fallback \in Fallbacks
  /\ ack = [p \in Ports |-> NoAck]

Forwarding(f) ==
  Put(f) \/ PutFails(f) \/ Store(f) \/ Delete(f) \/ DeleteFails(f) \/ Unstore(f)

Step ==
  \/ \E f \in req.todo \cup req.cur : Forwarding(f)
  \/ Persist \/ PersistFails \/ List \/ ListFails \/ Finish
  \/ AddVmnetAside \/ SimpleAddVmnet \/ StubbedAddVmnet

Next ==
  \/ \E op \in Operations : Accept(op)
  \/ Step
  \/ Crash
  \/ \E vm \in Vms : MachineStartsOrStops(vm)

Spec == Init /\ [][Next]_vars

-----------------------------------------------------------------------------
(* Properties.                                                             *)

\* The variables hold the values their declarations say.
TypeOK ==
  /\ vmrest \subseteq VmrestFwd
  /\ natMem \subseteq PortFwd /\ natDisk \subseteq PortFwd
  /\ req.pc \in Steps /\ req.kind \in {"none", "add", "delete", "prune", "device"}
  /\ req.fwds \cup req.todo \cup req.cur \subseteq [port: Ports, guest: Guests, desc: Vms \cup {Managed}]
  /\ running \subseteq Vms
  /\ fallback \in {"simple", "advanced"}
  /\ ack \in [Ports -> Fwd \cup {NoAck, Gone}]

\* A forward whose addition was answered with success is listed with its
\* machine, although vmrest knows one description only: through other
\* requests, their failures, lost answers and crashes.  (The simple driver
\* loses the machines when it adds a device, and the forwards with them when it
\* cannot open the networking file: PruneSparesTheRunning, StubbedAddVmnet.)
AcknowledgedForwardIsListed ==
  fallback = "advanced" => \A p \in Ports : Promised(p) => ack[p] \in Listed

\* A forward whose deletion was answered with success is gone from vmrest and
\* from both copies of the settings, so no later forward of the port inherits
\* its machine.
DeletedForwardIsGone ==
  \A p \in Ports : ack[p] = Gone => p \notin PortsOf(vmrest) \cup PortsOf(natMem) \cup PortsOf(natDisk)

\* Every forward stays within reach of prune, however its addition or deletion
\* was interrupted: it belongs to a machine or counts as unused.
NoForwardEscapesPrune ==
  fallback = "advanced" => \A f \in Listed : f.desc \in Vms \/ f \in Unused(Listed)

Table == INSTANCE ForwardTable
  WITH table <- Listed, promise <- ack, keeps <- (fallback = "advanced"), Open <- NoAck

\* The driver implements the forward table: what the steps of a request, their
\* failures, a restart or another driver's devices change of the list is never
\* promised to anybody else, and success is only answered of what is listed;
\* only a networking file that cannot be opened loses what was promised.
ImplementsForwardTable == Table!Spec

\* Whatever the driver, a prune spares what was promised to machines that run
\* (prune_forwarded_ports.rb: "prunes out forwarded ports that aren't in use
\* any longer").
PruneSparesTheRunning ==
  [][At("list") /\ req'.pc = "delete" =>
       \A p \in PortsOf(req'.todo) : Promised(p) => ack[p].desc \notin running]_vars
=============================================================================
