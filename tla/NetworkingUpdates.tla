------------------------- MODULE NetworkingUpdates -------------------------
(***************************************************************************)
(* The requests that change VMware's networking through the simple driver. *)
(*                                                                         *)
(*   server/port_forwards_handler.go, server/vmnet_devices_handler.go      *)
(*   driver/simple.go             AddVmnet ... saveAndRestart              *)
(*   driver/base.go               LoadNetworkingFile, PrunePortFwds,       *)
(*                                VerifyVmnet                              *)
(*   service/vmnet_cli.go         Configure, Stop, Start                   *)
(*                                                                         *)
(* Every request loads the file into an object of its own, edits it, saves *)
(* it, refills the NAT settings, and has vmnet-cli apply the file.  netLock *)
(* serialises them, except for the DHCP reservation, whose handler takes   *)
(* no lock.  Any step may fail; a file that cannot be opened is no failure *)
(* but an empty one, which the request goes on to save.  The process may   *)
(* die at any time and is started again with the NAT settings it last      *)
(* wrote.                                                                  *)
(*                                                                         *)
(* Reading the file and merging the settings is one step, and so are       *)
(* Configure's stop and run of vmnet-cli: only the unlocked request could  *)
(* come between, and nothing is promised to requests that overlap it.      *)
(***************************************************************************)
EXTENDS NetworkingFile

CONSTANTS
  Reqs,        \* requests in progress at once
  NoReq,       \* nobody holds netLock
  Workloads,   \* what clients may ask for: the operations, how many at once,
               \* and the devices that are there before
  NoOp,        \* the operation of an idle request
  Down,        \* the service is not running
  NoAck,       \* nothing is promised
  Gone,        \* the thing was removed
  MaxFwds,     \* bound: lines of forwards in the file
  MaxDevices,  \* bound: devices in the file
  VMwareDevices  \* the devices VMware's installer configured

VARIABLES
  workload, \* what clients ask for in this behaviour
  file,     \* VMware's networking file
  natMem,   \* settings.NAT in memory
  natDisk,  \* nat.json
  natConf,  \* nat.conf: the forwards VMware starts with
  live,     \* the forwards the running service serves, or Down
  lock,     \* netLock
  req,      \* the requests
  ack,      \* history: what the last answered request on a thing promised
  settled   \* history: an update has succeeded and nothing began since

stateVars == <<file, natMem, natDisk, natConf, live, lock, req, ack, settled>>

vars == <<workload, stateVars>>

AddOp == [kind: {"add"}, fwds: Seq(Fwd)]
DeleteOp == [kind: {"delete"}, fwds: Seq([port: Ports, guest: Guests, desc: Vms \cup {NoDesc}])]
PruneOp == [kind: {"prune"}]
CreateOp == [kind: {"create"}, config: Configs]
UpdateOp == [kind: {"update"}, slot: Nat, config: Configs]
RemoveOp == [kind: {"remove"}, slot: Nat]
ReserveOp == [kind: {"reserve"}, mac: Macs, addr: IPs]
VerifyOp == [kind: {"verify"}, try: 1..3]

Operation == AddOp \cup DeleteOp \cup PruneOp \cup CreateOp \cup UpdateOp \cup RemoveOp
               \cup ReserveOp \cup VerifyOp

ASSUME OperationsAssumption ==
  /\ \A w \in Workloads :
       w.ops \subseteq Operation /\ w.atOnce \in Nat /\ w.devices \subseteq VMwareDevices
  /\ NoReq \notin Reqs
  /\ MaxFwds \in Nat /\ MaxDevices \in Nat
  /\ VMwareDevices \subseteq Device /\ IsFiniteSet(VMwareDevices)
  /\ \A d, e \in VMwareDevices : d.slot = e.slot => d = e
  /\ NoAck # Gone /\ {NoAck, Gone} \cap Configs = {}

\* The slots devices can have.
Slots == {d.slot : d \in VMwareDevices} \cup 1..MaxDevices

Steps == {"idle", "wait", "list", "load", "edit", "save", "clear", "add", "persist",
          "configure", "stop", "start", "status", "vstop", "vstart"}

Request == [pc: Steps,                    \* the next step
            op: Operation \cup {NoOp},
            todo: Seq([port: Ports, guest: Guests, desc: Vms \cup {NoDesc}]) \cup Seq(PortFwd),
            net: Contents,                \* its networking file object
            stub: BOOLEAN,                \* the object is empty: the file could not be opened
            overlap: BOOLEAN]             \* ran beside an unlocked request

Idle == [pc |-> "idle", op |-> NoOp, todo |-> <<>>, net |-> Empty, stub |-> FALSE,
         overlap |-> FALSE]

-----------------------------------------------------------------------------
(* State formulae. *)

At(r, step) == req[r].pc = step
Kind(r) == req[r].op.kind

Running(r) == req[r].pc \notin {"idle", "wait"}

\* The handlers that take netLock; the DHCP reservation does not.
TakesLock(r) == Kind(r) # "reserve"

Overlaps(r) == \E q \in Reqs \ {r} : Running(q) /\ (~TakesLock(q) \/ ~TakesLock(r))

Promised(p) == ack.fwd[p] \notin {NoAck, Gone}

PortsOf(fwds) == {fwds[k].port : k \in DOMAIN fwds}

\* The forwards a GET returns, and a prune looks at.
Listed == MergeFwds(file.fwds, natMem)

Goto(r, step) == req' = [req EXCEPT ![r].pc = step]

\* The file, and the objects requests hold of it: an unlocked request may write
\* back what another has taken away.
Copies == {file} \cup {req[r].net : r \in Reqs}

-----------------------------------------------------------------------------
(* Arrival and answer. *)

Arrive(r) ==
  /\ At(r, "idle") /\ Cardinality({q \in Reqs : ~At(q, "idle")}) < workload.atOnce
  /\ \E op \in workload.ops :
       /\ op.kind = "add" => \A c \in Copies : Len(c.fwds) + Len(op.fwds) <= MaxFwds
       /\ op.kind = "create" => \A c \in Copies : Cardinality(c.devices) < MaxDevices
       /\ req' = [req EXCEPT ![r] = [Idle EXCEPT !.pc = "wait", !.op = op]]
  /\ UNCHANGED <<file, natMem, natDisk, natConf, live, lock, ack, settled>>

\* What was promised of the things an operation touches no longer is.
Forget(op) ==
  [fwd |-> [p \in Ports |-> IF op.kind \in {"add", "delete"} /\ p \in PortsOf(op.fwds)
                            THEN NoAck ELSE ack.fwd[p]],
   dev |-> [s \in Slots |->
              IF op.kind \in {"update", "remove"} /\ op.slot = s
              THEN NoAck ELSE ack.dev[s]],
   res |-> [m \in Macs |-> IF op.kind = "reserve" /\ op.mac = m THEN NoAck ELSE ack.res[m]]]

NoPromise == [fwd |-> [p \in Ports |-> NoAck], dev |-> [s \in Slots |-> NoAck],
              res |-> [m \in Macs |-> NoAck]]

\* Mutant: a handler that should lock does not.
NoLock(r) == TRUE

LockFree(r) == TakesLock(r) => lock = NoReq

FirstStep(op) ==
  CASE op.kind = "prune" -> "list" [] op.kind = "verify" -> "status" [] OTHER -> "load"

Enter(r) ==
  /\ At(r, "wait") /\ LockFree(r)
  /\ lock' = IF TakesLock(r) THEN r ELSE lock
  /\ ack' = IF Overlaps(r) THEN NoPromise ELSE Forget(req[r].op)
  /\ settled' = FALSE
  /\ req' = [q \in Reqs |->
               IF q = r THEN [req[r] EXCEPT !.pc = FirstStep(req[r].op), !.overlap = Overlaps(r)]
               ELSE IF Running(q) /\ (~TakesLock(q) \/ ~TakesLock(r))
                    THEN [req[q] EXCEPT !.overlap = TRUE] ELSE req[q]]
  /\ UNCHANGED <<file, natMem, natDisk, natConf, live>>

\* Mutant: an error path returns with netLock held.
AnswerLocked(r) ==
  /\ req' = [req EXCEPT ![r] = Idle]
  /\ UNCHANGED lock

\* The handler returns; its deferred Unlock runs.
Answer(r) ==
  /\ req' = [req EXCEPT ![r] = Idle]
  /\ lock' = IF TakesLock(r) THEN NoReq ELSE lock

\* What a successful answer promises.
Granted(op) ==
  [fwd |-> [p \in Ports |->
              IF op.kind = "add" /\ p \in PortsOf(op.fwds)
              THEN op.fwds[CHOOSE k \in DOMAIN op.fwds : op.fwds[k].port = p /\ IsLast(op.fwds, k)]
              ELSE IF op.kind = "delete" /\ p \in PortsOf(op.fwds) THEN Gone ELSE ack.fwd[p]],
   dev |-> [s \in Slots |->
              IF op.kind = "update" /\ op.slot = s THEN op.config
              ELSE IF op.kind = "remove" /\ op.slot = s THEN Gone
              ELSE ack.dev[s]],
   res |-> [m \in Macs |-> IF op.kind = "reserve" /\ op.mac = m THEN op.addr ELSE ack.res[m]]]

Succeed(r) ==
  /\ Answer(r)
  /\ ack' = IF req[r].overlap THEN ack ELSE Granted(req[r].op)

Fail(r) == Answer(r) /\ UNCHANGED <<ack, settled>>

-----------------------------------------------------------------------------
(* Listing, loading and editing. *)

\* The k-th smallest number of a set.
Nth(K, n) == CHOOSE k \in K : Cardinality(UpTo(K, k)) = n

\* The forwards of virtual machines that are not alive, in the file's order.
Unused(alive) ==
  LET K == {k \in DOMAIN Listed : Listed[k].on /\ Listed[k].desc \in Vms \ alive}
  IN [n \in 1..Cardinality(K) |->
        LET l == Listed[Nth(K, n)] IN [port |-> l.port, guest |-> l.guest, desc |-> l.desc]]

\* PrunePortFwds lists the forwards and deletes those of virtual machines that
\* do not run; "alive" is what vmrun answers.  (A file that cannot be opened
\* lists none, as does an "alive" of all.)
List(r) ==
  /\ At(r, "list")
  /\ \E alive \in SUBSET Vms :
       LET op == [kind |-> "delete", fwds |-> Unused(alive)]
       IN /\ req' = [req EXCEPT ![r].pc = "load", ![r].op = op]
          /\ ack' = Forget(op)
  /\ UNCHANGED <<file, natMem, natDisk, natConf, live, lock, settled>>

\* Mutant: the NAT settings are not merged.
NotMerged(c, nat) == c

Loaded(c, nat) == Merged(c, nat)

ToEdit(r, net, stub) ==
  /\ At(r, "load")
  /\ req' = [req EXCEPT ![r].pc = "edit", ![r].net = net, ![r].stub = stub,
                        ![r].todo = IF Kind(r) \in {"add", "delete"} THEN req[r].op.fwds ELSE <<>>]
  /\ UNCHANGED <<file, natMem, natDisk, natConf, live, lock, ack, settled>>

\* The file is read line by line into a new object.
Load(r) == ToEdit(r, Loaded(file, natMem), FALSE)

\* "load failure - stubbing file contents": the file cannot be opened, and the
\* object is empty without an error.
LoadStubs(r) == ToEdit(r, Loaded(Empty, natMem), TRUE)

\* One turn of AddPortFwd's loop.
EditAdd(r) ==
  /\ At(r, "edit") /\ Kind(r) = "add" /\ req[r].todo # <<>>
  /\ req' = [req EXCEPT ![r].net.fwds = AddPortFwd(@, Head(req[r].todo)), ![r].todo = Tail(@)]
  /\ UNCHANGED <<file, natMem, natDisk, natConf, live, lock, ack, settled>>

\* One turn of DeletePortFwd's loop: nat.conf first.
EditDelete(r) ==
  /\ At(r, "edit") /\ Kind(r) = "delete" /\ req[r].todo # <<>>
  /\ natConf' = {s \in natConf : s.port # Head(req[r].todo).port}
  /\ req' = [req EXCEPT ![r].net.fwds = RemovePortFwd(@, Head(req[r].todo)), ![r].todo = Tail(@)]
  /\ UNCHANGED <<file, natMem, natDisk, live, lock, ack, settled>>

\* A description names no virtual machine, or nat.conf cannot be changed.
EditFails(r) ==
  /\ At(r, "edit") /\ Kind(r) \in {"add", "delete"} /\ req[r].todo # <<>>
  /\ Fail(r)
  /\ UNCHANGED <<file, natMem, natDisk, natConf, live>>

EditsDone(r) ==
  /\ At(r, "edit") /\ Kind(r) \in {"add", "delete"} /\ req[r].todo = <<>>
  /\ Goto(r, "save")
  /\ UNCHANGED <<file, natMem, natDisk, natConf, live, lock, ack, settled>>

\* The new device's name goes into the request: from here on it is an update
\* of that device.
EditCreate(r) ==
  /\ At(r, "edit") /\ Kind(r) = "create"
  /\ LET c == req[r].op.config
         slot == FreeSlot(UsedSlots(req[r].net.devices))
         op == [kind |-> "update", slot |-> slot, config |-> c]
     IN /\ req' = [req EXCEPT ![r].pc = "save", ![r].op = op,
                              ![r].net.devices = CreateDevice(@, c)]
        /\ ack' = Forget(op)
  /\ UNCHANGED <<file, natMem, natDisk, natConf, live, lock, settled>>

EditDevice(r) ==
  /\ At(r, "edit") /\ Kind(r) \in {"update", "remove"}
  /\ HasSlot(req[r].net.devices, req[r].op.slot)
  /\ LET op == req[r].op
     IN req' = [req EXCEPT ![r].pc = "save",
                  ![r].net.devices = IF op.kind = "update" THEN UpdateDevice(@, op.slot, op.config)
                                     ELSE RemoveDevice(@, op.slot)]
  /\ UNCHANGED <<file, natMem, natDisk, natConf, live, lock, ack, settled>>

NoDevice(r) ==
  /\ At(r, "edit") /\ Kind(r) \in {"update", "remove"}
  /\ ~HasSlot(req[r].net.devices, req[r].op.slot)
  /\ Fail(r)
  /\ UNCHANGED <<file, natMem, natDisk, natConf, live>>

EditReserve(r) ==
  /\ At(r, "edit") /\ Kind(r) = "reserve"
  /\ req' = [req EXCEPT ![r].pc = "save",
               ![r].net.res = AddDhcpReservation(@, req[r].op.mac, req[r].op.addr)]
  /\ UNCHANGED <<file, natMem, natDisk, natConf, live, lock, ack, settled>>

-----------------------------------------------------------------------------
(* saveAndRestart. *)

\* A temporary file is written and renamed.  A stub takes the place of
\* everything that was promised.
Save(r) ==
  /\ At(r, "save")
  /\ file' = Saved(req[r].net)
  /\ ack' = IF req[r].stub THEN NoPromise ELSE ack
  /\ Goto(r, "clear")
  /\ UNCHANGED <<natMem, natDisk, natConf, live, lock, settled>>

SaveFails(r) ==
  /\ At(r, "save")
  /\ Fail(r)
  /\ UNCHANGED <<file, natMem, natDisk, natConf, live>>

NatClear(r) ==
  /\ At(r, "clear")
  /\ natMem' = {}
  /\ req' = [req EXCEPT ![r].pc = "add", ![r].todo = req[r].net.fwds]
  /\ UNCHANGED <<file, natDisk, natConf, live, lock, ack, settled>>

\* One turn of MultiAdd's loop, or its end.
NatMultiAdd(r) ==
  /\ At(r, "add")
  /\ IF req[r].todo = <<>>
     THEN Goto(r, "persist") /\ UNCHANGED natMem
     ELSE /\ natMem' = NatAdd(natMem, Head(req[r].todo))
          /\ req' = [req EXCEPT ![r].todo = Tail(@)]
  /\ UNCHANGED <<file, natDisk, natConf, live, lock, ack, settled>>

\* Mutant: the settings are not saved.
PersistNothing(r) ==
  /\ At(r, "persist")
  /\ Goto(r, "configure")
  /\ UNCHANGED <<file, natMem, natDisk, natConf, live, lock, ack, settled>>

Persist(r) ==
  /\ At(r, "persist")
  /\ natDisk' = natMem
  /\ Goto(r, "configure")
  /\ UNCHANGED <<file, natMem, natConf, live, lock, ack, settled>>

PersistFails(r) ==
  /\ At(r, "persist")
  /\ Fail(r)
  /\ UNCHANGED <<file, natMem, natDisk, natConf, live>>

\* vmnet-cli --stop; its failure is ignored, and the daemons may live on.
Stopped == live' \in {Down, live}

\* vmnet-cli has applied the file: nat.conf is rebuilt from it, and VMware may
\* write the file anew.
Applied ==
  /\ natConf' = Served(file.fwds)
  /\ file' \in {file, Stripped(file)}

Configure(r) ==
  /\ At(r, "configure")
  /\ Stopped /\ Applied
  /\ Goto(r, "stop")
  /\ UNCHANGED <<natMem, natDisk, lock, ack, settled>>

\* The copy that vmnet-cli is to read cannot be made, or vmnet-cli fails on it
\* and the service, stopped before, stays stopped.
ConfigureFails(r) ==
  /\ At(r, "configure")
  /\ Stopped
  /\ Fail(r)
  /\ UNCHANGED <<file, natMem, natDisk, natConf>>

Stop(r) ==
  /\ At(r, "stop")
  /\ Stopped
  /\ Goto(r, "start")
  /\ UNCHANGED <<file, natMem, natDisk, natConf, lock, ack, settled>>

Start(r) ==
  /\ At(r, "start") /\ live = Down
  /\ live' = natConf
  /\ Succeed(r)
  /\ settled' = ~req[r].overlap
  /\ UNCHANGED <<file, natMem, natDisk, natConf>>

\* "start ignored - service running": after stops that failed, the daemons
\* keep what they had, and the request succeeds.
StartIgnored(r) ==
  /\ At(r, "start") /\ live # Down
  /\ Succeed(r)
  /\ UNCHANGED <<file, natMem, natDisk, natConf, live, settled>>

StartFails(r) ==
  /\ At(r, "start") /\ live = Down
  /\ Fail(r)
  /\ UNCHANGED <<file, natMem, natDisk, natConf, live>>

-----------------------------------------------------------------------------
(* VerifyVmnet: up to three stops and starts, the second one after a          *)
(* configure.                                                              *)

VerifyStatus(r) ==
  /\ At(r, "status")
  /\ IF live = Down THEN Goto(r, "vstop") /\ UNCHANGED lock ELSE Answer(r)
  /\ UNCHANGED <<file, natMem, natDisk, natConf, live, ack, settled>>

VerifyStop(r) ==
  /\ At(r, "vstop")
  /\ Stopped
  /\ Goto(r, "vstart")
  /\ \/ UNCHANGED <<file, natConf>>
     \/ req[r].op.try = 2 /\ Applied
  /\ UNCHANGED <<natMem, natDisk, lock, ack, settled>>

VerifyStart(r) ==
  /\ At(r, "vstart")
  /\ live' = IF live = Down THEN natConf ELSE live
  /\ Answer(r)
  /\ UNCHANGED <<file, natMem, natDisk, natConf, ack, settled>>

VerifyStartFails(r) ==
  /\ At(r, "vstart") /\ live = Down
  /\ IF req[r].op.try < 3
     THEN /\ req' = [req EXCEPT ![r].pc = "vstop", ![r].op.try = @ + 1]
          /\ UNCHANGED lock
     ELSE Answer(r)
  /\ UNCHANGED <<file, natMem, natDisk, natConf, live, ack, settled>>

-----------------------------------------------------------------------------
\* The process dies and is started again: requests and lock are gone, the
\* settings are read from their file.
Crash ==
  /\ req' = [r \in Reqs |-> Idle]
  /\ lock' = NoReq
  /\ natMem' = natDisk
  /\ UNCHANGED <<file, natDisk, natConf, live, ack, settled>>

Init ==
  /\ workload \in Workloads
  /\ file = [Empty EXCEPT !.devices = workload.devices]
  /\ natMem = {} /\ natDisk = {} /\ natConf = {}
  /\ live \in {Down, {}}
  /\ lock = NoReq
  /\ req = [r \in Reqs |-> Idle]
  /\ ack = NoPromise
  /\ settled = FALSE

Step(r) ==
  \/ List(r) \/ Load(r) \/ LoadStubs(r)
  \/ EditAdd(r) \/ EditDelete(r) \/ EditFails(r) \/ EditsDone(r)
  \/ EditCreate(r) \/ EditDevice(r) \/ NoDevice(r) \/ EditReserve(r)
  \/ Save(r) \/ SaveFails(r) \/ NatClear(r) \/ NatMultiAdd(r) \/ Persist(r) \/ PersistFails(r)
  \/ Configure(r) \/ ConfigureFails(r) \/ Stop(r)
  \/ Start(r) \/ StartIgnored(r) \/ StartFails(r)
  \/ VerifyStatus(r) \/ VerifyStop(r) \/ VerifyStart(r) \/ VerifyStartFails(r)

Next == ((\E r \in Reqs : Arrive(r) \/ Enter(r) \/ Step(r)) \/ Crash) /\ UNCHANGED workload

Spec == Init /\ [][Next]_vars

\* A request in progress goes on (every command returns), and Go's mutex hands
\* itself to whoever has waited long.
Fairness == \A r \in Reqs : WF_stateVars(Step(r)) /\ SF_stateVars(Enter(r))

FairSpec == Spec /\ Fairness

-----------------------------------------------------------------------------
(* Properties. *)

\* The variables hold the values their declarations say.
TypeOK ==
  /\ workload \in Workloads
  /\ file \in Contents
  /\ natMem \subseteq PortFwd /\ natDisk \subseteq PortFwd
  /\ natConf \subseteq [port: Ports, guest: Guests]
  /\ live \in {Down} \cup SUBSET [port: Ports, guest: Guests]
  /\ lock \in Reqs \cup {NoReq}
  /\ req \in [Reqs -> Request]
  /\ settled \in BOOLEAN

\* A forward whose addition was answered with success is listed, with the
\* virtual machine it belongs to, until a request for its port begins or a
\* request that could not open the file has saved a stub in its place.  No
\* other request, failure or crash loses it (a stub that is not saved does
\* not), although VMware strips the description from its file whenever it
\* applies it (networking_file.go, Merge: "where we lose all metadata").
AcknowledgedForwardStays ==
  \A p \in Ports : Promised(p) =>
    \E k \in DOMAIN Listed : IsLast(Listed, k) /\ Listed[k] = Enabled(ack.fwd[p])

\* The same for devices: created or updated, they keep their configuration;
\* removed, they stay away; until a stub is saved.
AcknowledgedDeviceStays ==
  \A s \in Slots :
    /\ ack.dev[s] \in Configs => [slot |-> s, config |-> ack.dev[s]] \in file.devices
    /\ ack.dev[s] = Gone => ~HasSlot(file.devices, s)

\* Two devices never share a slot.
OneDevicePerSlot == \A d, e \in file.devices : d.slot = e.slot => d = e

\* A successful update leaves everything in step, whatever failed before it:
\* the service serves what the file says, and both copies of the settings hold
\* the same.  (A start that was ignored is no such success.)
SuccessSettles ==
  settled => live = natConf /\ natConf = Served(file.fwds) /\ natMem = natDisk

\* Every request is answered, or dies with the process.
EveryRequestIsAnswered == \A r \in Reqs : At(r, "wait") ~> At(r, "idle")

\* A forward whose deletion was answered with success is not listed any more
\* (base.rb, scrub_forwarded_ports: "used to remove all forwarded ports").
DeletedForwardIsGone ==
  \A p \in Ports : ack.fwd[p] = Gone =>
    \A k \in DOMAIN Listed : Listed[k].port = p => ~Listed[k].on

\* A reservation answered with success is found by a lookup.
AcknowledgedReservationStays ==
  \A m \in Macs : ack.res[m] # NoAck => ack.res[m] \in LookupDhcpReservation(file.res, m)
=============================================================================
