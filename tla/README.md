# TLA+ verification of vagrant-vmware-desktop

## 1. Inventory

The repository holds two programs that work together.

* A **Ruby plugin** (`lib/vagrant-vmware-desktop`) runs inside `vagrant`: one
  process per `vagrant` command, unprivileged.  Its action pipelines
  (`action.rb`) drive a virtual machine through `vmrun` and the `.vmx` file, and
  ask the utility over HTTPS for everything that needs privileges.
* A **Go service** (`go_src/vagrant-vmware-utility`) runs as root: a REST API over
  VMware's networking (virtual networks, NAT port forwards, DHCP leases and
  reservations), with one driver per VMware flavour.

(`G` is `go_src/vagrant-vmware-utility`, `R` is `lib/vagrant-vmware-desktop`.)

| component | state it keeps | operations | hard part |
|---|---|---|---|
| Internal port forwarding (`G/internal/service`, `G/settings/port_forwarding.go`) | forward objects, slice, settings file, sockets | Load, Start, Add, Remove | file, slice and sockets updated in turn; goroutines; crash; failed Add |
| Networking file (`G/utility/networking_file.go`) and NAT settings (`G/settings/nat.go`) | VMware's file, descriptions kept beside it | Load/Merge, Add/Remove forward, device, reservation, Save | the file is rewritten by `vmnet-cli --configure`; descriptions survive only in `nat.conf` metadata |
| Simple driver (`G/driver/simple.go`, `G/service/vmnet_cli.go`) | none of its own | add, update, delete vmnet; add, delete, prune forwards; reserve | load, modify, save, stop, configure, start: each step may fail, and a file that cannot be opened counts as empty; backup and restore |
| HTTP server (`G/server`) | listener, in-flight counter, `netLock`, driver | Start, Stop, request handlers | keep-alive requests against shutdown; which handlers take the lock |
| Shutdown (`G/util/shutdown.go`, `G/main.go`, `G/command/rest_api.go`) | task list, signal channel, Halted channels | Register, Run, Stop | a signal racing start-up; unbuffered channels |
| vmrest driver (`G/driver/vmrest.go`) | child process, credentials, activity timer | Runner loop, Active, requests | idle kill against use, restart, shutdown |
| Advanced driver (`G/driver/advanced*.go`, `G/service/vnetlib*.go`) | VMware's own configuration | multi-step device set-up | partial failure |
| DHCP lease file, NAT file, routing table (`G/utility`) | parsed files | parse, look up | ordering of leases, overlap of networks |
| Plugin network actions (`R/action/network.rb`, `forward_ports.rb`, ...) | environment, utility state seen earlier | collision checks, create, forward, prune | several `vagrant` processes; check before lock |
| Plugin machine actions (`R/action.rb`) | machine state from `vmrun`, synced folders | up, halt, suspend, resume, destroy, package, snapshot | state read before it is acted on |
| Disks (`R/cap/disk.rb`) | `.vmx` slots, `.vmdk` files | add, grow, clean up | free slot choice, partial failure |

What makes each correct is stated, module by module, in section 3.


How they interact:

* a `vagrant` command calls the utility over HTTPS (`R/driver/base.rb`,
  `R/helper/vagrant_utility.rb`); all it shares with other commands is the utility,
  lock files and what `vmrun list` shows;
* a handler of the utility takes `netLock` (all but the DHCP reservation) and calls the
  driver; the driver edits VMware's networking file and runs `vmnet-cli`
  (simple), calls `vnetlib` (advanced) or makes REST requests to a `vmrest` child
  (vmrest), which falls back on one of the other two for devices;
* what VMware cannot keep (the machine a forward belongs to) is in
  `settings.NAT`; forwards VMware's NAT cannot serve go to the utility's own service;
* signals, the Windows service manager and the end of the listener meet in
  `ShutdownTasks` and the `Halted` channels.

## 2. Plan

Order of work: what is promised to users about forwards first (they are shared by
all machines and rewritten by VMware behind the utility's back), then the life of
the processes, then the plugin and what it asks of the utility.

| module | models | composes or extends | status |
|---|---|---|---|
| `InternalPortForwarding` | the utility's own forwarding service | | checked, proved |
| `NetworkingFile` | the networking file as a value and its edits | | proved with `NetworkingUpdates` |
| `NetworkingUpdates` | requests through the simple driver | `NetworkingFile`, `settings.NAT`, vmnet-cli, `netLock` | checked, proved |
| `DriverSelection` | which driver is built on which platform, version and license | | gives `VmrestForwards` its fallbacks |
| `ForwardTable` | abstract: what a forward request promises | | implemented by `VmrestForwards` |
| `VmrestForwards` | forwards kept by vmrest | `settings.NAT`, fallback driver; implements `ForwardTable` | checked, proved |
| `ApiLifecycle` | start, signals, connections, shutdown | | proved |
| `VmrestRunner` | the vmrest child and its keepalive | `VmrestCommands` (its constants) | proved |
| `UtilityProcess` | the utility as one process | `ApiLifecycle` and `VmrestRunner`; implements both | checked, proved |
| `VnetlibDriver` | requests for devices, a vnetlib command at a time; names of devices in the vmrest driver | | checked through `NetworkSetup` |
| `NetworkSetup` | `network.rb`: collision checks and creation of networks by several commands | extends `VnetlibDriver` | checked, proved |
| `DhcpLeases` | the lease file, its look-up, its backup around an update | | checked, proved |
| `MachineLifecycle` | vagrant commands, several machines | the forwards of the utility: each driver's requests as one step | checked, proved |
| `Disks` | clean-up and configuration of disks, the edits of the vmx file | | checked, proved |

What is left to do, in this order: the forwards of the advanced driver
(`driver/advanced.go` 240-315) as a second implementation of `ForwardTable`;
a module that puts the commands of `MachineLifecycle` in front of the requests of
`VmrestForwards` and `NetworkingUpdates`, step by step, in place of the summary of
them it has now.

## 3. The modules

### InternalPortForwarding

One `Forward` object is a record of its fields (`obj`), one identity per object, since
the code compares pointers; `forwards` is the slice, `known` the settings in memory,
`disk` the file.  `Add` and `Remove` hold the mutex but are two steps each (`AddPersist`
then `AddActivate`, `RemovePersist` then `RemoveEntry`): the file is written before
the socket is touched, and the process may die between.  `Boot`, `StartOne`,
`StartDone`, `StartFails` are Load and Start; `CloseListener`, `AcceptFails` and
`StreamEnds` are the goroutines.  `refused` and `died` are history.

Run **PortForwarding** (963 thousand states): three forwards, two of which share an
address; three objects.  Three objects are enough for a live entry, one being closed
and one being added on the same address, the only way two objects can meet.  It
checks that the settings list, the slice and the sockets stay related:
`OrphansWereRefused`, `ListedAreDurable`, `ListedAreServed`, `ConflictsHaveCause` (two
settings entries for one address, which would stop the next start),
`OnlyConflictsBlockStart`, `NoLeakedListener`, and the inductive invariant `IInv`.

`ConflictsHaveCause` is as weak as the code makes it: an Add that reports an error
leaves its settings entry behind (`refused`).

### NetworkingFile and NetworkingUpdates

`NetworkingFile` has the operators: a file is forwards (a sequence: order decides
which line is served), devices (a set, one per slot) and reservations; `AddPortFwd`, `RemovePortFwd`,
`MergeFwds`, `FreeSlot` and so on are the code's edits.  In `NetworkingUpdates` a request runs
Load, Edit, Save, refill of the settings (`NatClear`, `NatMultiAdd`, `Persist`),
`Configure`, `Stop`, `Start`.  Editing, saving, configuring and starting may fail, with what the
handler then does; a stop that fails is ignored; and a file that cannot be opened is no failure: `Load` of
`networking_file.go` (412-422) takes it for an empty one (`LoadStubs`), merging the settings into
it adds no line, and the request saves that (`Save`).  The process may die at any step (`Crash`).  `netLock` is
`lock`; the reservation does not take it.
`ack` is history: what was answered with success.  Three things end a promise: a request for the
same port or device, a request that overlaps the unlocked reservation, and the save of a stub.
Until a stub is saved nothing is lost: a request that fails before leaves file and settings alone.

* **Networking** (2.8 million states): one of four workloads, chosen at the start.  Forwards
  are moved between machines, deleted and pruned, one request at a time; at most 3 lines
  (`MaxFwds`), enough for a port's line, its duplicate and another port.  Devices are created, changed
  and removed, with verifications and a reservation, one request at a time; the file then starts with the
  host-only device 1 and the NAT device 8 (a third fits, `MaxDevices`), so a new device takes the gap between
  them.  Or forwards, or devices, are changed beside the reservation that takes no lock.
  `AcknowledgedForwardStays`: the last line of a port is the promised one, with its
  machine, whatever else was requested, failed or crashed, until a stub is saved;
  `SuccessSettles`: after a success service, file and settings agree, whatever failed
  before (a start that was ignored settles nothing); `AcknowledgedDeviceStays`, `OneDevicePerSlot`.
* **NetworkingConcurrent** (149 thousand, fair): two requests at once, one possibly the unlocked
  reservation or a verification that restarts the service: `EveryRequestIsAnswered`.
* **DeleteLeavesDuplicate** and **ReservationsRunTogether** are findings (section 4).

Reading the file and merging the settings is one step, and so are Configure's stop
and its run of vmnet-cli: only the unlocked request could come between.  An error in the middle of
reading the file, where the scanner stops and `Load` returns what it has, is not modelled.  That VMware
serves the last of several lines of a port is an assumption about VMware.  A batch
names each port once.  The unlocked reservation also reads the list of forwards
without a lock; a torn read of that list is not modelled.

Fairness: a step of a request is weakly fair, as every command it runs returns
(`vmnet-cli` is run without a timeout; that it returns is an assumption), and
entering the lock is strongly fair, which is what Go's mutex gives (a waiter of one
millisecond is handed the lock).  Arrivals and crashes owe nothing.

### ApiLifecycle

The goroutines of the process, one variable each: `main` (both the REST command and
the Windows service), `signal` with its `todo` list of tasks, `consumer` (the owner of the
listener), and `conn[c]` for each connection.  Unbuffered channels are rendezvous.
`tracked` and `waiting` are the WaitGroup as Go defines it (a Wait is woken when the
counter has been zero); a torn read of the task slice, which main may append to while
the signal goroutine reads it, is the old slice, the new one, or a crash.

The upgrade to vmrest may fail at any point (`BuildDriver`).  `Init` of `vmrest.go` makes the home
directory (120), and what follows may fail before its removal is registered (127-145); `NewVmrestDriver`
(436-440) then falls back on the driver it has, and the API serves with a home that nobody removes.
The call of vmrest with which main validates the driver before it serves is not modelled.

`DrainIsComplete`: no request under way when the drain begins is cut off;
`StopIsNeverRefused`; `CleanExitRemovesHome`: an orderly exit has removed the home, if its removal was ever
registered, although main does not wait for the tasks; `ShutdownCompletes`: a requested shutdown ends the
process.  Goroutines and handlers are weakly fair, clients and signals owe nothing, so
`ShutdownCompletes` says: it ends, or clients keep sending requests on kept-alive connections.

### VmrestRunner

`Runner`'s loop (`runner`), the shared pointer `command` (v.command), the child
(`process`) and its reaper per command, and clients in `Active`.  The keepalive's 300 seconds are
left open: it may fire whenever Runner is in its select.  They begin anew with each turn of the loop
(`time.After`, 246), so it need not fire as long as activity comes.  Runner's context is never done in the
program; the goroutines that log the child's output are left out.

`ChildIsOwned`: there is never a second vmrest, nor one that v.command has lost.
`CrashOnlyWithoutProcess`: the keepalive reads v.command twice without a lock, and the reaper sets
it to nil: the nil pointer is met only when no child runs.  `ActivityIsTaken` needs strong
fairness of the case that receives (Go picks among ready cases at random).  The keepalive is weakly fair: it fires if
Runner stays in its select.  So `ChildIsReaped` says: if activity ceases, every child is reaped in
the end.

### UtilityProcess

The two modules above in one process, which is what the program is.  A handler calls
vmrest through Runner (`CallVmrest`, `TakeActivity`, `VmrestReturns`) and finishes after that, so
the drain of a shutdown waits for Runner; a nil pointer in Runner (`RunnerPanics`) is the
panic of the process; a child may outlive it (`ChildExits`).  Whether there is a Runner
depends on how the driver was built (`HasRunner`).

Run **UtilityProcess** (84 thousand states) checks the properties of both modules there.  Two
connections: one that drains, one that comes late; only one of them calls vmrest, as
a second would queue behind it in Active.  Two commands suffice, since a second one in use with
the first is exactly what `ChildIsOwned` forbids.  Fairness is that of the two modules; that vmrest
answers, or its call times out, is added (`VmrestReturns`).

### VmrestForwards

`vmrest` is what the child keeps (one description for all forwards), `natMem` and `natDisk`
the settings, `req` the one request under way.  `Put`, `Store`, `Persist`, `Delete`, `Unstore` are
steps, each with its failure; `PutFails` includes the answer that is lost after
vmrest did the work.  `fallback` is the driver chosen at start-up for devices, one of
those that `DriverSelection` finds behind a vmrest driver (the simple one on Linux and old
Fusion, the advanced one elsewhere).  A batch
is a set worked off in any order, which includes the code's.  What the simple
driver does for a device is one step (`SimpleAddVmnet`); in detail it is `NetworkingUpdates`.  If it cannot
open the networking file it empties the settings, and vmrest may lose the forwards with them
(`StubbedAddVmnet`): what is lost is promised no more.

`ForwardTable` is what a client may count on, whichever driver works and in whatever
steps: a table, and for each port a promise.  `Accept` puts promises in abeyance, `Work` changes
the table only where nothing is promised, `Answer` promises only what the table has.  `Table` is
the refinement mapping: the table is what `PortFwds` lists, the promise is what was
answered last.  With the simple driver for devices the machine of a forward is not kept
(`keeps`; see VmrestSimplePrune); port and guest are, but for a networking file that could not be
opened (`Lose`).

Run **VmrestForwarding** (266 thousand): `AcknowledgedForwardIsListed`,
`DeletedForwardIsGone`, `NoForwardEscapesPrune`, `ImplementsForwardTable`.  Two ports, two guests,
two machines: enough for a forward that changes hands and one that must not notice.
**VmrestSimplePrune** is a finding.

### VnetlibDriver and NetworkSetup

`VnetlibDriver` has the requests for devices.  A request is a program, the sequence of
vnetlib commands of its handler (`driver/advanced.go`, `service/vnetlib.go`); each may fail,
and what the earlier ones did stays, as the code undoes nothing.  With the vmrest driver a
device is named by `setVmnetName` and `freeSlot` before vmrest is asked.  `netLock` is held by a
change; the list of devices and a reservation take no lock.

`NetworkSetup` adds the vagrant commands: `network.rb` reads the devices, then the routing
table, then asks for a device, with nothing held in between, network after network; other
clients change devices meanwhile.  `seen`, `table` and `slots` are what a command has read.
`raced`, `edited` and `halfway` are history, and say which of these windows a property leaves out.

Run **NetworkSetup** (both drivers, 727 thousand states): two machines, one with two networks, and one request
of another client, which may be a creation on a subnet of the machines.  `AttachedToOwnNetwork`: two creations never share a device, and a machine
is on a device of its own subnet.  `AttachedNetworkIsUp`: a machine can be on a device
that is not enabled only if that device is still being made, was left by a failed
creation or changed by somebody else.  `NoDuplicateWithoutRace`: two devices of one subnet come from
the window of `network.rb` 203, or from another client that asked for the subnet, and from nothing else.  `NewNameIsFree`: a name from `freeSlot` is free
when it is used, unless vmnet0 is listed, from which `freeSlot` does not count.  Four devices
with vmnet0 are enough for a gap, a device above it and a new one; each machine is brought up
once and the other client asks once (`MaxUps`, `MaxAsked`): every property is violated by a
mutant within these.  Deadlock is not checked, since everybody may have stopped.
Bridged and nat adapters, which ask for nothing, are left out.

### DhcpLeases

The file is the sequence of records the server appends; `Load` goes through it record by
record (`Loaded`) as `loadEntry` does, so duplicates are settled in the order of the file, as in the code.  `Grant` is
VMware's server, with the leases in its memory (`pool`), which it reads from the file when it
starts.  An update (`saveAndRestart` of the simple driver) copies the file, applies the configuration,
which may empty it, writes the copy back without truncation (`Overwritten`), and starts the
server; an update for a reservation holds no lock, so two may be at work.  The utility may die.

Run **DhcpLeases** (513 thousand states; addresses, updates and MAC addresses symmetric): two
guests with the same MAC address or different ones.  `LoadedByReference`: the look-up agrees with a
definition that does not look at the order.  `SharedMacIsRefused`: of two guests with one MAC
neither is taken for the other.  `AddressIsFound`: a guest is found at its address although
updates empty the file, unless a step of an update failed, two overlapped, or the lease was granted
during one (`sure`).  Three records let a lease be renewed, lost and outlived
by another; two points of time after the first let a lease of two expire.

### MachineLifecycle

A command is a sequence of middleware still `todo`; `Pipeline` is `action.rb`, and a builtin
Call puts its branch in front.  Several commands run at once, one per machine
(vagrant's machine lock), and share the utility's forwards.  `vm` is what `vmrun` and the file system tell,
plus `port`, history: the last start forwarded it.  A middleware may raise (`StepFails`)
after part of its work (`Halfway`), a user may interrupt (`Interrupt`, raised by the Warden
between middleware) or kill the process (`Kill`), guests power off, and a start that
was given up may come through later.  Net::HTTP sends an idempotent PUT again once
(`ForwardAgain`).

The utility has one of three drivers, chosen at the start, and a request of a command is one step that
comes to what `NetworkingUpdates` and `VmrestForwards` have in detail.  `fwds` says for which machine a
forward was made, `entry` how the utility has it on record:

* the **simple driver** has a line of the port, or several after an addition was sent again
  (`networking_file.go` 282-294).  A deletion turns the first off (303-307), so a
  forward with two lines survives every prune.  A networking file that cannot be opened loses all forwards
  (`FileIsLost`), also during a prune;
* **vmrest over the simple driver** finds a machine's description in the NAT settings by port, guest and
  device.  When a device is added the settings are refilled from the networking file (`AddingDevice`): a
  forward is then described by vmrest, which a prune takes for unused whether its machine runs or not, or
  by nothing, which no prune takes;
* **vmrest over the advanced driver** leaves a forward with vmrest's description only while an
  addition is cut short.

`Pruning` lists what those records say is unused and deletes it by those rules; vmrest's deletions stop at the first
that fails.  Prune spares any set of existing machines, for `vmrun list` may fail, but never machines whose
vmx file is gone (`base.go` 279-285); that is why destroy must prune last.

Run **MachineCommands** (1.6 million states, ports symmetric): one machine takes commands
beside another that comes and goes.  With vmrest over the advanced driver these are all but reload and package,
with two ports; with the other two drivers, which have more to remember, up, destroy and reload or package, with
one port.  `StartedMachineIsReachable`: a machine that was started and forwarded keeps its forward while it runs.
The code has three ways out, each of which is history of the model: the window between the check and
the request in `forward_ports.rb` (`raced`), a networking file that could not be opened, and a device
added by the simple driver under vmrest (`lapsed`); the run shows that there is no fourth.
`NoSelfCollision`: the check never fails on the machine's own
forwards of an earlier run.  `DestroyLeavesNothing`: after a destroy nothing is left, but for
forwards that no prune takes away (`Stuck`: a second line, or no description).  `HaltMeansOff`,
`SuccessMeansForwarded`: what a command that reports success has done, by action properties.
Two machines are enough for every race over a port; a third could only repeat
it.  Two ports are the configured one and the repaired one.

Abstractions: all forwards of a machine stand for one port and one request; network,
folders and disks are one step, `Configure`, that may fail, and of which only the device it may add
changes something here; the vmx
process is off when `vmrun` says so (WaitForVMXHalt goes on after 60 tries); a request
of a killed command has been carried out or not, but is not carried out later.  The forwards of the plain
advanced driver and of the internal service are not among the drivers of this module.

### Disks

`vmx` is the list of disk entries in the order of the file, `files` the vmdk files with their
sizes, `meta` the report that Vagrant stores after an up that gets through.  An up cleans up
(`CleanUp`, `RemoveFile`, `RemoveEntry`) what the report names and nobody defines any more, then
goes through the defined disks with its own list of entries (`attached`), which it reads once.
`EndEarly` ends it between any two steps and undoes nothing.  In between VMware rewrites the
vmx file in an order of its own, and a snapshot puts every disk on a delta.

The loops over the entries (`Matching` for `get_disks`, `Highest` for `get_slot`) are functions of the number
of entries gone through.  A key names one slot and an ide bus has two (`DisksAssumption`), in what an
import leaves; that it stays so is proved.

Run **Disks** (118 thousand states): three ups (`MaxUps`) with five Vagrantfiles and two
boxes: enough for a disk to be made, left out and defined again, and for a slot on each half of an ide bus.
`NewSlotIsFree`: `get_slot` computes from the highest slot so far, in the order of the file, and never
gives one that is taken.  `UpProvidesDisks`: an up that gets through has provided every disk, whatever
earlier ones left half done.  `DefinedDiskKeepsItsFile`: the clean-up never deletes the file of a disk
that is defined.  It leaves out the runs in which a disk was once found under the
name of a numbered one (`mistaken`): `get_disk` takes a file `data-1.vmdk` for a snapshot of
the disk `data`, reports it as its file, and the clean-up of `data` then deletes the file of a disk
`data-1` that is still defined.  For every Vagrantfile it also needs two things of the names, which are proved
to be enough: no disk is named like the delta of a snapshot (`PlainNames`), and no second disk like
the file of a box at scsi0:0, or its parent (`BoxesApart`).  Neither can be left out: with the delta
called after `data-1`, or with a second disk called `box`, TLC finds a deleted file.  `MCDisks` assumes both, so
each run tests that its names are such.

## 4. Findings

* `DeleteLeavesDuplicate`: `AddPortFwd` updates the line it finds and appends it as well;
  `RemovePortFwd` disables the first only (`networking_file.go`).  A forward added twice
  and deleted once is still served.
* `ReservationsRunTogether`: `Save` writes reservations without a line end; a second one makes
  both unreadable.
* `VmrestSimplePrune`: `driverToUtilityFwd` leaves out Enable and writes the device as `vmnet8`, so
  after the simple driver adds a device the machines of all forwards are lost, and the next
  prune deletes forwards of running machines.  (What this means for commands, and the duplicate line too, is in
  `MachineLifecycle`.)

Each of these runs checks the one property the code breaks; the passing runs of the
same module do not depend on it.

## 5. Proofs

All theorems hold for every value of the constants under the named assumptions of the
modules (`FwdsAssumption`, `NamesAssumption`, `ConnsAssumption`, `CommandsAssumption`,
`CallersAssumption`, `OperationsAssumption`, `SlotsAssumption`, `SubnetsAssumption`, `GuestsAssumption`,
`DisksAssumption`), which TLC evaluates in the runs.  They say of which kind the constants are, that
special values are no ordinary ones, and that connections and slots are finitely many.  The proof modules are
`*_proofs`.

* **InternalPortForwarding_proofs.**  `ListedAreDurable`, `ListedAreServed` and the
  others are not inductive: that an entry is served needs that open sockets never share an address
  (`SocketInv`), that in turn needs to know which entries Start has not reached (`EntryInv`,
  `PhaseInv`), and durability needs that the mutex has one holder whose settings entry is
  still there (`LockInv`) and that no list repeats an element (`NoRepeats`).
  `IInv` is their conjunction; one lemma per action preserves it, and the properties follow.
* **NetworkingUpdates_proofs.**  First the operators: the last line of a port after an addition, a
  removal or a merge, and `FreeSlotIsFree` (the slot of a new device is in range and unused, whatever gaps
  there are).  The invariant then has six parts.  `TInv` gives the types, and with them the work that each request
  holds.  `LockInv`: who takes the lock has it, and while two requests are under way, of which one is a
  reservation and takes none, nothing is promised.  `SyncInv` says, step by step, which of the file, `nat.conf`, the
  service and the settings agree already; at the end of a success all do (`SuccessSettles`).
  `ForwardsInv`: a promised forward is the last line of its port in the file and has its machine in the settings, in memory
  too unless they are being refilled: this is what a crash between two steps, or VMware stripping
  the descriptions, must not break (`AcknowledgedForwardStays`).  A saved stub is excused because nothing is promised after it.  `DevicesInv` and `PromisedDevicesInv`
  are the same for devices (`OneDevicePerSlot`, `AcknowledgedDeviceStays`).
* **NetworkSetup_proofs.**  `CallsInv`: a change that runs holds `netLock`, and what a creation has
  run of its commands is in force (its device exists, its subnet is set, it is enabled).  `SubnetsInv`: unless
  somebody asked without a look, no two requests ask for one subnet and none asks for one that is
  there; hence `NoDuplicateWithoutRace`.  `UpInv`: what is listed is enabled, being made, left halfway or
  edited.  `CommandsInv` says what a command knows, and that it stays true behind its
  back: a device once seen with a subnet carries it until another client edits it.  A step is one of the utility
  (`Serve...`), of a client (`Client...`) or of a command (`Turn...`), each of which may disturb one part.
* **DhcpLeases_proofs.**  What the loop over the records has found after `i` of them is described without
  the loop (`ReadSoFar`).  The library's induction cannot be used here, so such a fact is proved by taking
  the least number of records for which it fails.  It gives `LoadedByReference` and `SharedMacIsRefused` for
  files of any length.  `HistoryInv`: the file and its copies hold leases that were given, and the newest of a guest is the one it has;
  `SureInv`: a lease that nothing has put at risk is in the file, or in the copy that the only update is
  about to write back.  They give `AddressIsFound`.
* **Disks_proofs.**  `Written`, the sorted file, has each entry once: an entry goes to the place given by how many come
  before it, and since the keys are ordered these numbers are all different and leave no place empty.  The
  loops are treated as in DhcpLeases_proofs: `Highest` is at least every slot of its bus, so
  `NewSlotIsFree` holds for any number of entries in any order.  `VmxInv` (one entry per slot, an ide bus with two), `ListInv`
  (the list of the run has every slot on a bus, and what it has on a bus is in the file) and `WorkInv` (a
  disk is still to come, or provided, or created and about to be attached) give `UpProvidesDisks`.
  `FilesAreKept` has the two hypotheses on names.  Its invariant, `NameInv`: a report names a disk
  with its own file or the delta of it (`ReportInv`, until a disk is mistaken), what the clean-up is about to
  remove is not defined, and the file at scsi0:0 belongs to no second disk (`PrimaryInv`), which a snapshot
  keeps so because a file and its delta belong to the same disk.
* **UtilityProcess_proofs.**  Three parts.  Of `ApiLifecycle`: `ProcessInv` ties the program counters of the goroutines to each
  other (who registered, who sent, who closed); `DrainInv` says that each awaited request is
  still counted, whatever late requests do to the WaitGroup.  `HomeInv` says when a home whose removal is registered must be gone.  They give `DrainIsComplete`,
  `StopIsNeverRefused`, `CleanExitRemovesHome` for any finite set of connections.
  Of `VmrestRunner`: `InUseIsCurrent` (a child in use is v.command), `ReaperKnows`
  (a reaper waits for a child that was started, and is done with one that was reaped) and
  `StartsFresh` (the command being started was never used) give
  `ChildIsOwned` and the action property `CrashOnlyWithoutProcess`.
  Of the composition: `ImplementsApi` and `ImplementsRunner`, every step is
  a step of either module or none, the second because the flag of the nil pointer implies that
  the process is gone (`CrashEndsProcess`).  The invariants of the two modules carry over:
  `ProcessSafety`, `ChildrenAreOwned`, `CrashesWithoutProcess`.
* **VmrestForwards_proofs.**  With the advanced fallback: every promise is in vmrest and in both
  copies of the settings (`PromiseInv`), the settings have one entry per port (`SettingsInv`), and
  a request has in place what it has finished (`RequestInv`, `HandInv`).  Hence
  `AcknowledgedForwardIsListed`.  With either driver a second invariant, `TInv`, says which parts of a
  request still owe what they promise to be gone or listed; it gives
  `DeletedForwardIsGone` and, step by step, `ImplementsForwardTable`.  `DescInv` (whose descriptions
  the settings have) gives `NoForwardEscapesPrune`.
* **MachineLifecycle_proofs.**  For any machines, ports, commands and each driver: `StartedMachineIsReachable` needs that
  what a command found free is free when it forwards it (`FreeInv`), that the request follows
  the check at once (`NextInv`), and, since a prune deletes what the records call unused,
  that the forward a machine counts on is on record as the one made for it and does not carry vmrest's
  description (`Reachable`), and that only existing machines run (`PowerInv`), which is a matter of what commands have
  still to do (`StartInv`: who is going to start a machine has it and will not delete it).  `Reachable`
  holds of every machine whose forward was neither raced nor `lapsed`, and there is one lemma for each way the
  records change: `PruneStep`, `DeviceStep`, `ForwardStep`, `LostStep`.
  What a command that reports success has done depends on the order in which middleware can be left to do
  (`Order`): a start ends in the request, a deletion in a prune, and a discarded state is
  followed by a halt.  With the purpose of the command (`Destroyed`, `Booted`, `Halted`), the choice of
  the port (`Chosen`) and `Awake` (what runs is not suspended) it is inductive (`JInv`), and gives
  `NoSelfCollision`, `DestroyLeavesNothing`, `HaltMeansOff` and `SuccessMeansForwarded`.  That a prune leaves of
  a machine that is gone only what is `Stuck`, and that what is stuck stays so (`Stays`), is part of `Facts`.

Model-checked only: all liveness (`EveryRequestIsAnswered`, `ShutdownCompletes`, `ChildIsReaped`,
`ActivityIsTaken`), which the proof system cannot treat.  No module declares a RECURSIVE operator.

## 6. Not modelled

Parsing of nat.conf and of the routing table, the look-up of a machine by its lock file, wrappers of VMware's
commands, certificates and installation (sequential set-up by an administrator), HTTP routing,
synced folders and guest commands, configuration and the update check: they keep no state that
several actors share.  Of the modelled parts these are left out: the forwards of the advanced driver,
reservations through vmrest, the lease file of macOS, split and flat vmdk files, credentials and version
check of vmrest, Stop and Fwds() of the internal service.  `PROJECT.json` says for each why.

One hazard has no property: the vmrest driver takes the last digit of a device name for its slot
(`vmrest.go` 565), so vmnet10 is slot 0; the models have fewer than ten devices, each known by
its number.
