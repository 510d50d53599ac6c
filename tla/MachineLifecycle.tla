-------------------------- MODULE MachineLifecycle --------------------------
(***************************************************************************)
(* The machine actions of the plugin: vagrant commands on several machines *)
(* that share the utility's port forwards.                                 *)
(*                                                                         *)
(*   action.rb, action/*.rb       pipelines of middleware                  *)
(*   driver/base.rb               vmrun, the vmx file, the utility's client*)
(*                                                                         *)
(* A command is a process that works through a sequence of middleware.     *)
(* Builtin Call puts a branch in front of what is left of it.  vagrant     *)
(* locks the machine, so there is one command per machine.  Middleware     *)
(* that changes nothing of this state is left out, or gathered in          *)
(* "Configure" (network, folders, disks, vmx settings) where it can fail;  *)
(* so is the wait for the vmx process, which goes on after a minute.       *)
(*                                                                         *)
(* The utility does one request at a time (netLock): a request is one step *)
(* here, with what it comes to in NetworkingUpdates (the simple driver)    *)
(* and VmrestForwards (the vmrest driver): lines a deletion does not       *)
(* reach, a networking file that cannot be opened, descriptions lost to a  *)
(* new device.  All forwards of a machine go in one request; they stand    *)
(* for one port.                                                           *)
(***************************************************************************)
EXTENDS Sequences

CONSTANTS
  Machines,  \* the machines
  Ports,     \* host ports
  None,      \* no machine, no port
  Workloads  \* the utility's driver, the commands given for each machine, and
             \* the ports the machines may use

Driver == {"simple", "vmrest over simple", "vmrest over advanced"}

Command == {"up", "halt", "suspend", "resume", "reload", "destroy", "package", "restore"}

ASSUME CommandsAssumption ==
  /\ Workloads \subseteq [driver: Driver, commands: [Machines -> SUBSET Command],
                          ports: SUBSET Ports]
  /\ None \notin Machines \cup Ports

VARIABLES
  workload, \* one of Workloads
  vm,       \* the virtual machines and what was promised of them
  fwds,     \* the utility's forwards: the machine each was made for
  entry,    \* how the utility has them on record
  proc,     \* the command at work on each machine
  raced,    \* history: ports forwarded while another command had found them free
  lapsed    \* history: machines whose forwards the utility has lost, or lost sight of

utilityVars == <<fwds, entry, raced, lapsed>>
vars == <<workload, vm, proc, utilityVars>>

\* A virtual machine: its vmx file exists and the machine's id names it; it is
\* on as far as vmrun tells ("late" when it came on after its command gave the
\* start up); a suspended state is on disk.  The port is history: the last
\* start forwarded it, and the machine has run ever since.
Vm == [created: BOOLEAN, power: {"off", "starting", "on", "late"}, vmss: BOOLEAN,
       port: Ports \cup {None}]

NoVm == [created |-> FALSE, power |-> "off", vmss |-> FALSE, port |-> None]

Middleware ==
  {"DiscardSuspendedState", "Running?Halt", "GracefulHalt", "Halt", "Destroy", "Delete",
   "PruneForwardedPorts", "Import", "Imported", "Running?", "Suspended?", "Configure",
   "HandleForwardedPortCollisions", "Boot", "WaitForAddress", "ForwardPorts", "forward_ports",
   "Suspend", "Export", "SnapshotRestore"}

\* The process of a command: the middleware left, the port it settles on,
\* whether Import is there to recover, and what it has done so far: history,
\* but for "idle".
Process == [todo: Seq(Middleware), port: Ports \cup {None}, imported: BOOLEAN,
            did: {"idle", "nothing", "halt", "boot", "delete"}]

Idle == [todo |-> <<>>, port |-> None, imported |-> FALSE, did |-> "idle"]

-----------------------------------------------------------------------------
(* State formulae. *)

driver == workload.driver

\* "plain": as the descriptions say, or not at all.  The simple driver has a
\* line of the port in the networking file (on or off), or several.  Of a
\* forward that the vmrest driver does not find in the NAT settings it knows
\* vmrest's description, "managed", or none if a device was added.
Entry ==
  CASE driver = "simple"               -> {"plain", "once", "twice"}
    [] driver = "vmrest over simple"   -> {"plain", "managed", "nameless"}
    [] driver = "vmrest over advanced" -> {"plain", "managed"}

IsOn(m) == vm[m].power \in {"on", "late"}

\* Driver#read_state.
State(m) ==
  CASE ~vm[m].created -> "not_created"
    [] vm[m].created /\ IsOn(m) -> "running"
    [] vm[m].created /\ ~IsOn(m) /\ vm[m].vmss -> "suspended"
    [] OTHER -> "not_running"

Busy(m) == proc[m].did # "idle"

\* The command comes to this middleware.
At(m, step) == proc[m].todo # <<>> /\ Head(proc[m].todo) = step

\* A middleware ends: the steps of a branch come first, then the rest.
Then(m, steps) == proc' = [proc EXCEPT ![m].todo = steps \o Tail(@)]
Done(m) == Then(m, <<>>)

Abort(m) == proc' = [proc EXCEPT ![m] = Idle]

-----------------------------------------------------------------------------
(* The pipelines of action.rb.                                             *)

HaltAction == <<"DiscardSuspendedState", "Running?Halt">>

StartAction == <<"Running?">>

\* Mutant: the forwards are pruned while the machine still exists.
PipelinePruneFirst(cmd) ==
  CASE cmd \in {"up", "resume"} -> StartAction
    [] cmd = "halt"             -> HaltAction
    [] cmd = "suspend"          -> <<"Suspend">>
    [] cmd = "reload"           -> HaltAction \o StartAction
    [] cmd = "destroy"          -> HaltAction \o <<"PruneForwardedPorts", "Destroy">>
    [] cmd = "package"          -> HaltAction \o <<"PruneForwardedPorts", "Export">>
    [] cmd = "restore"          -> <<"SnapshotRestore">> \o StartAction

\* What follows when the machine is created.
Pipeline(cmd) ==
  CASE cmd \in {"up", "resume"} -> StartAction
    [] cmd = "halt"             -> HaltAction
    [] cmd = "suspend"          -> <<"Suspend">>
    [] cmd = "reload"           -> HaltAction \o StartAction
    [] cmd = "destroy"          -> HaltAction \o <<"Destroy", "PruneForwardedPorts">>
    [] cmd = "package"          -> HaltAction \o <<"PruneForwardedPorts", "Export">>
    [] cmd = "restore"          -> <<"SnapshotRestore">> \o StartAction

\* A command and its question whether the machine is Created.
Begin(m) ==
  /\ ~Busy(m)
  /\ \E cmd \in workload.commands[m] :
       proc' = [proc EXCEPT ![m] =
         [Idle EXCEPT !.did = IF cmd = "halt" THEN "halt" ELSE "nothing",
                      !.todo = IF vm[m].created THEN Pipeline(cmd)
                               ELSE IF cmd = "up" THEN <<"Import">> \o StartAction ELSE <<>>]]
  /\ UNCHANGED <<vm, utilityVars>>

\* destroy_import: a destroy on its own.
DestroyImport(m) ==
  proc' = [proc EXCEPT ![m] = [Idle EXCEPT !.did = "nothing", !.todo = Pipeline("destroy")]]

\* An error ends the command.  When it is none that vagrant knows,
\* Import#recover undoes the import; the destroy has no Import to recover.
Raise(m) ==
  \/ Abort(m)
  \/ proc[m].imported /\ vm'[m].created /\ DestroyImport(m)

HaltIfRunning(m) ==
  /\ At(m, "Running?Halt")
  /\ Then(m, IF State(m) = "running" THEN <<"GracefulHalt">> ELSE <<>>)
  /\ UNCHANGED <<vm, utilityVars>>

\* A machine that runs is only provisioned.
StartUnlessRunning(m) ==
  /\ At(m, "Running?")
  /\ Then(m, IF State(m) = "running" THEN <<>> ELSE <<"PruneForwardedPorts", "Suspended?">>)
  /\ UNCHANGED <<vm, utilityVars>>

\* Mutant: a resumed machine is taken to have its forwards.
ForwardUnlessSuspended(m) ==
  /\ At(m, "Suspended?")
  /\ Then(m, IF State(m) = "suspended" THEN <<"HandleForwardedPortCollisions", "Boot">>
             ELSE <<"Configure", "HandleForwardedPortCollisions", "Boot", "WaitForAddress",
                    "ForwardPorts">>)
  /\ UNCHANGED <<vm, utilityVars>>

ConfigureUnlessSuspended(m) ==
  /\ At(m, "Suspended?")
  /\ Then(m, (IF State(m) = "suspended" THEN <<>> ELSE <<"Configure">>)
               \o <<"HandleForwardedPortCollisions", "Boot", "WaitForAddress", "ForwardPorts">>)
  /\ UNCHANGED <<vm, utilityVars>>

-----------------------------------------------------------------------------
(* What the middleware does to the machine and to the forwards.            *)

Off(v) == [v EXCEPT !.power = "off", !.port = None]

Discarding(m) ==
  vm' = [vm EXCEPT ![m].vmss = FALSE] /\ UNCHANGED utilityVars

\* Driver#stop, soft or hard, and its retries; one that is cut short and comes
\* through is GuestStops.
Stopping(m) ==
  /\ vm' = [vm EXCEPT ![m] = IF State(m) = "running" THEN Off(@) ELSE @]
  /\ UNCHANGED utilityVars

Suspending(m) ==
  /\ vm' = [vm EXCEPT ![m] = IF State(m) = "running" THEN [Off(@) EXCEPT !.vmss = TRUE] ELSE @]
  /\ UNCHANGED utilityVars

\* VMware drops the suspended state of a machine it resumes.
Booting(m) ==
  /\ vm' = [vm EXCEPT ![m].power = "on", ![m].vmss = FALSE]
  /\ UNCHANGED utilityVars

\* The vmx file goes; a later machine has another directory.
Removing(m) ==
  vm' = [vm EXCEPT ![m] = NoVm] /\ UNCHANGED utilityVars

\* Driver#clone into a directory of its own, and the new id.
Cloning(m) ==
  vm' = [vm EXCEPT ![m] = [NoVm EXCEPT !.created = TRUE]] /\ UNCHANGED utilityVars

\* The snapshot may hold a running machine, whose state is left suspended.
Reverting(m) ==
  /\ \E vmss \in BOOLEAN : vm' = [vm EXCEPT ![m] = [Off(@) EXCEPT !.vmss = vmss]]
  /\ UNCHANGED utilityVars

Forwarded == {n \in Machines : vm[n].port # None}

NoFwds == [p \in Ports |-> None]

\* "stubbing file contents": the simple driver cannot open the networking file.
\* It goes on with an empty one, and writes that with the lines it adds.
FileIsLost(left, lines, relieved) ==
  /\ driver = "simple"
  /\ fwds' = left
  /\ entry' = [p \in Ports |-> IF p \in lines THEN "once" ELSE "plain"]
  /\ lapsed' = (lapsed \cup Forwarded) \ relieved

\* PrunePortFwds: forwards of machines whose vmx file is gone or which do not
\* run, as the descriptions have it.
Unused(alive) ==
  {p \in Ports : /\ fwds[p] # None
                 /\ \/ entry[p] = "managed"
                    \/ entry[p] # "nameless" /\ fwds[p] \notin alive}

\* A deletion turns the first line of a port off.
Deleting(ports) ==
  /\ fwds' = [p \in Ports |-> IF p \in ports /\ entry[p] # "twice" THEN None ELSE fwds[p]]
  /\ entry' = [p \in Ports |-> IF p \in ports /\ entry[p] = "managed" THEN "plain" ELSE entry[p]]
  /\ UNCHANGED lapsed

\* DELETE /portforwards.  While vmrun cannot tell, existing machines count as
\* running.  The vmrest driver deletes forward by forward, and may fail on its
\* way; the networking file is loaded for the list and for the deletion.
Pruning(done) ==
  /\ \E spared \in SUBSET {n \in Machines : vm[n].created} :
       LET unused == Unused({n \in Machines : State(n) = "running"} \cup spared)
       IN \/ \E ports \in SUBSET unused :
               (done \/ driver = "simple" => ports = unused) /\ Deleting(ports)
          \/ \E lines \in {{}, unused} : FileIsLost(NoFwds, lines, {})
  /\ UNCHANGED <<vm, raced>>

\* Another command has checked this port and will forward it.
FoundFreeByOther(m, p) ==
  \E n \in Machines \ {m} : At(n, "forward_ports") /\ proc[n].port = p

\* AddPortFwd adds a line to those the file has of the port.
Added(p) ==
  IF driver # "simple" THEN "plain" ELSE IF entry[p] = "plain" THEN "once" ELSE "twice"

\* PUT /vmnet/.../portforward replaces the forward of the port.  The vmrest
\* driver may fail before the settings name the machine.
Forwarding(m, done) ==
  LET p == proc[m].port
      relieved == IF done THEN {m} ELSE {}
  IN /\ \/ /\ fwds' = [fwds EXCEPT ![p] = m]
           /\ entry' = [entry EXCEPT ![p] = Added(p)]
           /\ lapsed' = lapsed \ relieved
        \/ /\ ~done /\ driver # "simple"
           /\ fwds' = [fwds EXCEPT ![p] = m]
           /\ entry' = [entry EXCEPT ![p] = "managed"]
           /\ lapsed' = lapsed \cup {m}
        \/ FileIsLost([NoFwds EXCEPT ![p] = m], {p}, relieved)
     /\ raced' = IF FoundFreeByOther(m, p) THEN raced \cup {p} ELSE raced

\* What becomes of the record of a forward when the NAT settings are filled from
\* the networking file, whose lines are vmrest's (or which is lost).
Unnamed(owner, e) ==
  IF owner = None THEN {"plain"}
  ELSE IF e = "nameless" THEN {"nameless"} ELSE {"managed", "nameless"}

\* POST /vmnet by the simple driver: on its own it keeps the forwards; under the
\* vmrest driver they are no longer known to be their machines'.
AddingDevice ==
  /\ \/ FileIsLost(NoFwds, {}, {})
     \/ /\ driver = "vmrest over simple"
        /\ fwds' \in {fwds, NoFwds}
        /\ entry' \in {e \in [Ports -> Entry] : \A p \in Ports : e[p] \in Unnamed(fwds'[p], entry[p])}
        /\ lapsed' = lapsed \cup Forwarded
  /\ UNCHANGED <<vm, raced>>

-----------------------------------------------------------------------------
(* The middleware of halt, suspend, destroy and package.                   *)

DiscardSuspendedState(m) ==
  /\ At(m, "DiscardSuspendedState")
  /\ Discarding(m) /\ Done(m)

\* Builtin GracefulHalt: unless the halt is forced it asks the guest, and
\* waits a while for the machine to be :not_running.
GracefulHalt(m) ==
  /\ At(m, "GracefulHalt")
  /\ \/ Stopping(m) /\ Done(m)
     \/ UNCHANGED <<vm, utilityVars>> /\ Then(m, <<"DiscardSuspendedState", "Halt">>)

\* Mutant: a stop that fails is taken for one.
HaltUnchecked(m) ==
  /\ At(m, "Halt")
  /\ Stopping(m) \/ UNCHANGED <<vm, utilityVars>>
  /\ Done(m)

\* The error of a stop is raised if the machine still runs (StepFails).
Halt(m) ==
  /\ At(m, "Halt")
  /\ Stopping(m) /\ Done(m)

Suspend(m) ==
  /\ At(m, "Suspend")
  /\ Suspending(m) /\ Done(m)

\* A running machine raises DestroyInvalidState (StepFails).
Destroy(m) ==
  /\ At(m, "Destroy") /\ State(m) # "running"
  /\ Then(m, IF State(m) = "not_created" THEN <<>> ELSE <<"Delete">>)
  /\ UNCHANGED <<vm, utilityVars>>

Delete(m) ==
  /\ At(m, "Delete")
  /\ Removing(m)
  /\ proc' = [proc EXCEPT ![m].todo = Tail(@), ![m].did = "delete"]

PruneForwardedPorts(m) ==
  /\ At(m, "PruneForwardedPorts")
  /\ Pruning(TRUE) /\ Done(m)

Export(m) ==
  /\ At(m, "Export") /\ State(m) = "not_running"
  /\ Done(m)
  /\ UNCHANGED <<vm, utilityVars>>

SnapshotRestore(m) ==
  /\ At(m, "SnapshotRestore")
  /\ Reverting(m) /\ Done(m)

-----------------------------------------------------------------------------
(* The middleware of up, resume and reload.                                *)

Import(m) ==
  /\ At(m, "Import")
  /\ Cloning(m)
  /\ proc' = [proc EXCEPT ![m].todo = <<"Imported">> \o Tail(@), ![m].imported = TRUE]

\* Not interrupted during the clone.
Imported(m) ==
  /\ At(m, "Imported")
  /\ Done(m)
  /\ UNCHANGED <<vm, utilityVars>>

InterruptedImport(m) ==
  /\ At(m, "Imported")
  /\ DestroyImport(m)
  /\ UNCHANGED <<vm, utilityVars>>

\* Everything else that is set up before the machine starts, a device for one of
\* its networks included.
Configure(m) ==
  /\ At(m, "Configure")
  /\ UNCHANGED <<vm, utilityVars>> \/ AddingDevice
  /\ Done(m)

\* Mutant: the ports in use are not handed on.
NothingInUse == {}

\* PrepareForwardedPortCollisionParams.
PortsInUse == {p \in Ports : fwds[p] # None}

\* Builtin: the configured port, or another one that is not in use.
HandleForwardedPortCollisions(m) ==
  /\ At(m, "HandleForwardedPortCollisions")
  /\ \E p \in workload.ports \ PortsInUse : proc' = [proc EXCEPT ![m].todo = Tail(@), ![m].port = p]
  /\ UNCHANGED <<vm, utilityVars>>

Boot(m) ==
  /\ At(m, "Boot")
  /\ Booting(m)
  /\ proc' = [proc EXCEPT ![m].todo = Tail(@), ![m].did = "boot"]

\* It waits for ever if it must; a DHCP lease answers for a guest that is off.
WaitForAddress(m) ==
  /\ At(m, "WaitForAddress")
  /\ Done(m)
  /\ UNCHANGED <<vm, utilityVars>>

\* Mutant: the check of the ports in use is dropped.
ForwardUnchecked(m) ==
  /\ At(m, "ForwardPorts")
  /\ Then(m, <<"forward_ports">>)
  /\ UNCHANGED <<vm, utilityVars>>

\* The ports in use are read again; one of ours among them raises
\* ForwardedPortsCollideWithExistingNAT (StepFails).
ForwardPorts(m) ==
  /\ At(m, "ForwardPorts")
  /\ fwds[proc[m].port] = None
  /\ Then(m, <<"forward_ports">>)
  /\ UNCHANGED <<vm, utilityVars>>

\* The guest's address has been found, and the utility is asked.
ForwardThePorts(m) ==
  /\ At(m, "forward_ports")
  /\ Forwarding(m, TRUE)
  /\ vm' = [vm EXCEPT ![m].port = IF IsOn(m) THEN proc[m].port ELSE None]
  /\ Done(m)

\* A PUT that is not answered in time is sent once more by Net::HTTP.
ForwardAgain(m) ==
  /\ At(m, "forward_ports")
  /\ Forwarding(m, FALSE)
  /\ UNCHANGED <<vm, proc>>

-----------------------------------------------------------------------------
(* The end of a command.                                                   *)

\* The command ends after its last middleware (Checkpoint), with success.
Succeed(m) ==
  /\ Busy(m) /\ proc[m].todo = <<>>
  /\ Abort(m)
  /\ UNCHANGED <<vm, utilityVars>>

\* What the middleware at work may have done when it is cut short; a start
\* that is given up may still come through.
Halfway(m) ==
  \/ UNCHANGED <<vm, utilityVars>>
  \/ At(m, "DiscardSuspendedState") /\ Discarding(m)
  \/ At(m, "Suspend") /\ Suspending(m)
  \/ At(m, "Delete") /\ Removing(m)
  \/ At(m, "PruneForwardedPorts") /\ Pruning(FALSE)
  \/ At(m, "SnapshotRestore") /\ Reverting(m)
  \/ At(m, "Configure") /\ AddingDevice
  \/ At(m, "forward_ports") /\ Forwarding(m, FALSE) /\ UNCHANGED vm
  \/ /\ At(m, "Boot") /\ ~IsOn(m)
     /\ \/ Booting(m)
        \/ vm' = [vm EXCEPT ![m].power = "starting"] /\ UNCHANGED utilityVars

\* A middleware raises.
StepFails(m) ==
  /\ proc[m].todo # <<>>
  /\ Halfway(m) /\ Raise(m)

-----------------------------------------------------------------------------
(* Users and guests.                                                       *)

\* An interrupt lets the middleware at work finish, then the Warden raises,
\* and nothing is undone; WaitForAddress returns at once.
Interrupt(m) ==
  /\ Busy(m) /\ ~At(m, "Imported")
  /\ Abort(m)
  /\ UNCHANGED <<vm, utilityVars>>

\* A second interrupt, or a closed terminal.
Kill(m) ==
  /\ Busy(m)
  /\ Halfway(m) /\ Abort(m)

GuestStops(m) ==
  /\ IsOn(m)
  /\ vm' = [vm EXCEPT ![m] = Off(@)]
  /\ UNCHANGED <<proc, utilityVars>>

StartComesThrough(m) ==
  /\ vm[m].power = "starting"
  /\ vm' = [vm EXCEPT ![m] = [@ EXCEPT !.power = "late", !.vmss = FALSE]]
  /\ UNCHANGED <<proc, utilityVars>>

StartIsLost(m) ==
  /\ vm[m].power = "starting"
  /\ vm' = [vm EXCEPT ![m] = Off(@)]
  /\ UNCHANGED <<proc, utilityVars>>

-----------------------------------------------------------------------------
Init ==
  /\ vm = [m \in Machines |-> NoVm]
  /\ workload \in Workloads
  /\ fwds = NoFwds
  /\ entry = [p \in Ports |-> "plain"]
  /\ proc = [m \in Machines |-> Idle]
  /\ raced = {} /\ lapsed = {}

Step(m) ==
  \/ HaltIfRunning(m) \/ StartUnlessRunning(m) \/ ConfigureUnlessSuspended(m)
  \/ DiscardSuspendedState(m) \/ GracefulHalt(m) \/ Halt(m) \/ Suspend(m)
  \/ Destroy(m) \/ Delete(m) \/ PruneForwardedPorts(m) \/ Export(m) \/ SnapshotRestore(m)
  \/ Import(m) \/ Imported(m) \/ InterruptedImport(m) \/ Configure(m)
  \/ HandleForwardedPortCollisions(m) \/ Boot(m) \/ WaitForAddress(m)
  \/ ForwardPorts(m) \/ ForwardThePorts(m) \/ ForwardAgain(m)
  \/ StepFails(m) \/ Succeed(m)

Outside(m) ==
  \/ Begin(m) \/ Interrupt(m) \/ Kill(m)
  \/ GuestStops(m) \/ StartComesThrough(m) \/ StartIsLost(m)

Next == (\E m \in Machines : Step(m) \/ Outside(m)) /\ UNCHANGED workload

Spec == Init /\ [][Next]_vars

-----------------------------------------------------------------------------
(* Properties.                                                             *)

\* The variables hold the values their declarations say.
TypeOK ==
  /\ vm \in [Machines -> Vm]
  /\ workload \in Workloads
  /\ fwds \in [Ports -> Machines \cup {None}] /\ entry \in [Ports -> Entry]
  /\ proc \in [Machines -> Process]
  /\ raced \subseteq Ports /\ lapsed \subseteq Machines

\* A machine that a command started and forwarded stays reachable as long as
\* it runs: no other command takes its port, prunes it or leaves it to another
\* machine.  The code has three ways out: two commands that both found the port
\* free (forward_ports.rb checks, waits for the guest's address, and forwards
\* without a lock); with the simple driver, a networking file that could not be
\* opened; with vmrest over the simple driver, a device added meanwhile.
StartedMachineIsReachable ==
  \A m \in Machines :
    vm[m].port # None /\ vm[m].port \notin raced /\ m \notin lapsed => fwds[vm[m].port] = m

\* The check of ForwardPorts ("more of an ASSERT type statement") never fails
\* because of the machine's own forwards, left by an earlier run that was
\* killed, suspended or not pruned.
NoSelfCollision ==
  \A m \in Machines : At(m, "ForwardPorts") => fwds[proc[m].port] # m

\* No prune takes the forward away: further lines of the port stay on, or the
\* description does not say that it is a machine's.
Stuck(p) == entry[p] \in {"twice", "nameless"}

\* When a destroy that deleted the machine reports success nothing of it is
\* left, its forwards included, whatever vmrun told the prune; but for forwards
\* that no prune of the simple driver, or of vmrest over it, takes away.
DestroyLeavesNothing ==
  [][\A m \in Machines : proc[m].did = "delete" /\ Succeed(m) =>
        ~vm[m].created /\ \A p \in Ports : fwds[p] = m => Stuck(p)]_vars

\* When halt reports success the machine is off and not suspended, unless a
\* start that an earlier command gave up came through.
HaltMeansOff ==
  [][\A m \in Machines : proc[m].did = "halt" /\ Succeed(m) =>
        State(m) \in {"not_created", "not_running"} \/ vm[m].power = "late"]_vars

\* A command that booted the machine and reports success has forwarded its
\* port, unless the guest has stopped since.
SuccessMeansForwarded ==
  [][\A m \in Machines : proc[m].did = "boot" /\ Succeed(m) /\ IsOn(m) => vm[m].port # None]_vars

=============================================================================
