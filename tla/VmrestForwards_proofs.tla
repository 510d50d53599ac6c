------------------------ MODULE VmrestForwards_proofs ------------------------
(***************************************************************************)
(* What vmrest and the settings keep of an acknowledged forward, for any   *)
(* ports, guests and machines, when devices are the advanced driver's;     *)
(* types, deletions and the forward table with either driver.              *)
(*                                                                         *)
(* A forward is in place when vmrest has it and both copies of the         *)
(* settings have its entry.  The inductive invariant says it of every      *)
(* forward that was promised and of those a batch has finished, and for    *)
(* the one in hand as far as its step has come.  A second invariant says   *)
(* with either driver what the forward table needs: the port and guest of  *)
(* what was promised are in vmrest, and what was deleted is nowhere.       *)
(***************************************************************************)
EXTENDS VmrestForwards, TLAPS

ReqFwd == [port: Ports, guest: Guests, desc: Vms \cup {Managed}]

Kinds == {"none", "add", "delete", "prune", "device"}

\* TypeOK with the record of the request spelled out.
Types ==
  /\ vmrest \subseteq VmrestFwd
  /\ natMem \subseteq PortFwd /\ natDisk \subseteq PortFwd
  /\ req \in [pc: Steps, kind: Kinds, fwds: SUBSET ReqFwd, todo: SUBSET ReqFwd, cur: SUBSET ReqFwd]
  /\ running \subseteq Vms
  /\ fallback \in {"simple", "advanced"}
  /\ ack \in [Ports -> Fwd \cup {NoAck, Gone}]

\* Additions are of a client's forwards, and a prune is none.
AddsInv ==
  /\ req.kind = "add" => req.fwds \subseteq Fwd
  /\ req.pc \in {"list", "device"} => req.kind # "add"

TypeInv == Types /\ AddsInv

InMemory(f) == Managing(f) \in vmrest /\ UtilityFwd(f) \in natMem

InPlace(f) == InMemory(f) /\ UtilityFwd(f) \in natDisk

\* The settings name a port once, so the first match is the only one.
OnePerPort(nat) == \A m, n \in nat : m.port = n.port => m = n

SettingsInv == OnePerPort(natMem) /\ OnePerPort(natDisk)

\* What was promised is in place and no concern of the request.
PromiseInv ==
  \A p \in Ports : Promised(p) =>
    /\ ack[p] \in Fwd /\ ack[p].port = p
    /\ InPlace(ack[p])
    /\ \A f \in req.fwds : f.port # p

\* The request works on its own forwards, and an addition has put in place
\* all it has finished.
RequestInv ==
  /\ req.todo \subseteq req.fwds /\ req.cur \subseteq req.fwds
  /\ req.pc \in {"put", "store"} => req.kind = "add"
  /\ req.pc \in {"delete", "unstore", "list", "device"} => req.kind # "add"
  /\ req.pc = "list" => req.cur = {}
  /\ req.kind = "add" =>
       /\ req.fwds \subseteq Fwd /\ Batch(req.fwds)
       /\ \A f \in req.fwds : f \notin req.todo /\ f \notin req.cur => InPlace(f)
       /\ req.pc \in {"put", "store", "persist"}
       /\ req.pc = "put" => req.cur = {}
       /\ req.pc = "store" => \A f \in req.cur : Managing(f) \in vmrest
       /\ req.pc = "persist" => \A f \in req.cur : InMemory(f)

\* One forward at most is in hand.
HandInv == \A f, g \in req.cur : f = g

IInv == Types /\ SettingsInv /\ PromiseInv /\ RequestInv /\ HandInv

-----------------------------------------------------------------------------
(* The tables.                                                             *)

\* The request of nobody is a request.
LEMMA IdleIsARequest ==
  /\ Idle \in [pc: Steps, kind: Kinds, fwds: SUBSET ReqFwd, todo: SUBSET ReqFwd, cur: SUBSET ReqFwd]
  /\ Idle.pc = "idle" /\ Idle.kind = "none"
  /\ Idle.fwds = {} /\ Idle.todo = {} /\ Idle.cur = {}
BY DEF Idle, Steps, Kinds

\* Adding an entry keeps one per port, and so does removing a port.
LEMMA OnePerPortKept ==
  ASSUME NEW nat, OnePerPort(nat), NEW n, NEW p
  PROVE  OnePerPort(NatAdd(nat, n)) /\ OnePerPort(Without(nat, p))
BY DEF OnePerPort, NatAdd, Without

\* What is in place of one port stays there when another port's forward is put,
\* stored or removed (put, NatAdd, Without).
LEMMA OtherPortsUntouched ==
  ASSUME NEW f \in ReqFwd, NEW g, f.port # g.port
  PROVE  /\ Managing(f) \in vmrest => Managing(f) \in PutFwd(g) /\ Managing(f) \in Without(vmrest, g.port)
         /\ \A nat : UtilityFwd(f) \in nat =>
              /\ UtilityFwd(f) \in NatAdd(nat, UtilityFwd(g))
              /\ UtilityFwd(f) \in Without(nat, g.port)
BY DEF Managing, UtilityFwd, PutFwd, NatAdd, Without

-----------------------------------------------------------------------------
(* The invariant.                                                          *)

\* A request that ends without a promise leaves what was promised.
LEMMA FailKeepsPromises ==
  ASSUME Types, SettingsInv, PromiseInv, Types',
         req' = Idle, UNCHANGED ack,
         natMem' \in {natMem, natDisk}, UNCHANGED natDisk,
         \A p \in Ports : Promised(p) => Managing(ack[p]) \in vmrest'
  PROVE  IInv'
<1>1. SettingsInv'
  BY DEF SettingsInv, OnePerPort
<1>2. PromiseInv'
  BY IdleIsARequest DEF PromiseInv, Promised, InPlace, InMemory, Managing, UtilityFwd
<1>3. RequestInv' /\ HandInv'
  BY IdleIsARequest DEF RequestInv, HandInv
<1> QED BY <1>1, <1>2, <1>3 DEF IInv

\* The tables and the request keep their types, action by action.
LEMMA TypesStep ==
  ASSUME TypeInv, Next
  PROVE  Types'
<1> USE DEF TypeInv, Types
<1>1. ASSUME NEW op \in Operations, Accept(op) PROVE Types'
  <2>1. op.kind \in {"add", "delete", "prune", "device"}
    BY OperationsAssumption DEF Operation
  <2>2. op.kind \in {"add", "delete"} => op.fwds \in SUBSET ReqFwd
    BY OperationsAssumption DEF Operation, Fwd, ReqFwd
  <2>3. req' \in [pc: Steps, kind: Kinds, fwds: SUBSET ReqFwd, todo: SUBSET ReqFwd, cur: SUBSET ReqFwd]
    BY <1>1, <2>1, <2>2, IdleIsARequest DEF Accept, FirstStep, Steps, Kinds, Idle
  <2>4. ack' \in [Ports -> Fwd \cup {NoAck, Gone}]
    BY <1>1 DEF Accept, Forget
  <2> QED BY <1>1, <2>3, <2>4 DEF Accept
<1>2. ASSUME NEW f, f \in req.todo \cup req.cur, Forwarding(f) PROVE Types'
  <2>1. f \in ReqFwd
    BY <1>2
  <2>2. Managing(f) \in VmrestFwd /\ UtilityFwd(f) \in PortFwd
    BY <2>1 DEF Managing, UtilityFwd, VmrestFwd, PortFwd, ReqFwd
  <2>3. PutFwd(f) \subseteq VmrestFwd /\ Without(vmrest, f.port) \subseteq VmrestFwd
    BY <2>2 DEF PutFwd, Without
  <2>4. NatAdd(natMem, UtilityFwd(f)) \subseteq PortFwd /\ Without(natMem, f.port) \subseteq PortFwd
    BY <2>2 DEF NatAdd, Without
  <2>5. CASE Put(f)
    BY <2>1, <2>3, <2>5 DEF Put, Steps
  <2>6. CASE Store(f)
    BY <2>4, <2>6 DEF Store, Steps
  <2>7. CASE Delete(f)
    BY <2>1, <2>3, <2>7 DEF Delete, Steps
  <2>8. CASE Unstore(f)
    BY <2>4, <2>8 DEF Unstore, Steps
  <2>9. CASE PutFails(f) \/ DeleteFails(f)
    BY <2>3, <2>9, IdleIsARequest DEF PutFails, DeleteFails, Fail
  <2> QED BY <1>2, <2>5, <2>6, <2>7, <2>8, <2>9 DEF Forwarding
<1>3. CASE Persist
  BY <1>3 DEF Persist, NextTurn, Steps
<1>4. CASE PersistFails \/ ListFails \/ AddVmnetAside
  BY <1>4, IdleIsARequest DEF PersistFails, ListFails, AddVmnetAside, Fail
<1>5. CASE List
  <2>1. PICK unsure \in SUBSET Listed :
          LET unused == Unused(unsure)
          IN req' = [req EXCEPT !.pc = "delete", !.fwds = unused, !.todo = unused]
             /\ ack' = Forget(unused)
    BY <1>5 DEF List
  <2>2. Unused(unsure) \subseteq ReqFwd
    BY DEF Unused, Listed, ReqFwd, VmrestFwd
  <2>3. ack' \in [Ports -> Fwd \cup {NoAck, Gone}]
    BY <2>1 DEF Forget
  <2> QED BY <1>5, <2>1, <2>2, <2>3 DEF List, Steps
<1>6. CASE Finish
  <2>1. ASSUME NEW p \in Ports PROVE ack'[p] \in Fwd \cup {NoAck, Gone}
    <3>1. CASE p \in PortsOf(req.fwds) /\ req.kind = "add"
      <4>1. \E f \in req.fwds : f.port = p
        BY <3>1 DEF PortsOf
      <4>2. (CHOOSE f \in req.fwds : f.port = p) \in Fwd
        BY <3>1, <4>1 DEF AddsInv
      <4> QED BY <1>6, <3>1, <4>2 DEF Finish, Grant
    <3> QED BY <1>6, <3>1 DEF Finish, Grant
  <2>2. ack' \in [Ports -> Fwd \cup {NoAck, Gone}]
    BY <1>6, <2>1 DEF Finish, Grant
  <2> QED BY <1>6, <2>2, IdleIsARequest DEF Finish
<1>7. CASE Crash
  BY <1>7, IdleIsARequest DEF Crash
<1>8. ASSUME NEW vm \in Vms, MachineStartsOrStops(vm) PROVE Types'
  BY <1>8 DEF MachineStartsOrStops
<1>9. CASE SimpleAddVmnet
  <2>1. PICK stripped \in BOOLEAN :
          /\ natMem' = {Merged(Line(f, IF stripped THEN NoDesc ELSE f.desc)) : f \in vmrest}
          /\ vmrest' = IF stripped THEN {[f EXCEPT !.desc = NoDesc] : f \in vmrest} ELSE vmrest
    BY <1>9 DEF SimpleAddVmnet
  <2>2. ASSUME NEW f \in vmrest, NEW desc \in {NoDesc, f.desc}
        PROVE  Merged(Line(f, desc)) \in PortFwd
    <3>1. Line(f, desc) \in PortFwd
      BY DEF Line, PortFwd, VmrestFwd
    <3>2. ASSUME NEW l \in PortFwd PROVE Merged(l) \in PortFwd
      BY DEF Merged, PortFwd
    <3> QED BY <3>1, <3>2
  <2>3. natMem' \subseteq PortFwd
    BY <2>1, <2>2
  <2>4. vmrest' \subseteq VmrestFwd
    BY <2>1 DEF VmrestFwd
  <2> QED BY <1>9, <2>3, <2>4, IdleIsARequest DEF SimpleAddVmnet
<1>10. CASE StubbedAddVmnet
  BY <1>10, IdleIsARequest DEF StubbedAddVmnet
<1> QED BY <1>1, <1>2, <1>3, <1>4, <1>5, <1>6, <1>7, <1>8, <1>9, <1>10 DEF Next, Step

\* A request keeps its kind while it lasts, and prunes are not additions.
LEMMA AddsStep ==
  ASSUME TypeInv, Next
  PROVE  AddsInv'
<1> USE DEF TypeInv, AddsInv
<1>1. ASSUME NEW op \in Operations, Accept(op) PROVE AddsInv'
  <2>1. op.kind \in {"add", "delete", "prune", "device"} /\ (op.kind = "add" => op.fwds \subseteq Fwd)
    BY OperationsAssumption DEF Operation
  <2>2. /\ req'.pc = FirstStep(op.kind) /\ req'.kind = op.kind
        /\ op.kind = "add" => req'.fwds = op.fwds
    BY <1>1, IdleIsARequest DEF Accept, Idle
  <2> QED BY <2>1, <2>2 DEF FirstStep
<1>2. ASSUME NEW f, Forwarding(f) PROVE AddsInv'
  <2>1. req' = Idle \/ (req'.kind = req.kind /\ req'.fwds = req.fwds
                         /\ req'.pc \in {"store", "persist", "unstore"})
    BY <1>2 DEF Forwarding, Put, PutFails, Store, Delete, DeleteFails, Unstore, Fail, Types
  <2> QED BY <2>1, IdleIsARequest
<1>3. CASE Persist
  BY <1>3 DEF Persist, NextTurn, Types
<1>4. CASE List
  BY <1>4 DEF List, Types, At
<1>5. CASE PersistFails \/ ListFails \/ Finish \/ AddVmnetAside \/ SimpleAddVmnet \/ StubbedAddVmnet \/ Crash
  <2>1. req' = Idle
    BY <1>5 DEF PersistFails, ListFails, Finish, AddVmnetAside, SimpleAddVmnet, StubbedAddVmnet,
                Crash, Fail
  <2> QED BY <2>1, IdleIsARequest
<1>6. ASSUME NEW vm \in Vms, MachineStartsOrStops(vm) PROVE AddsInv'
  BY <1>6 DEF MachineStartsOrStops
<1> QED BY <1>1, <1>2, <1>3, <1>4, <1>5, <1>6 DEF Next, Step
-----------------------------------------------------------------------------
(* What each action keeps.                                                 *)

\* An accepted request forgets what was promised on its ports.
LEMMA AcceptStep ==
  ASSUME IInv, Types', NEW op \in Operations, Accept(op)
  PROVE  IInv'
<1>1. SettingsInv'
  BY DEF IInv, SettingsInv, Accept
<1> DEFINE fwds == IF op.kind \in {"add", "delete"} THEN op.fwds ELSE {}
<1>2. /\ req'.pc = FirstStep(op.kind) /\ req'.kind = op.kind
      /\ req'.fwds = fwds /\ req'.todo = fwds /\ req'.cur = {}
      /\ ack' = Forget(fwds)
  BY IdleIsARequest DEF Accept, Idle
<1>3. PromiseInv'
  <2> SUFFICES ASSUME NEW p \in Ports, Promised(p)'
               PROVE  /\ ack'[p] \in Fwd /\ ack'[p].port = p
                      /\ InPlace(ack[p])'
                      /\ \A f \in req'.fwds : f.port # p
    BY DEF PromiseInv
  <2>1. ack'[p] = ack[p] /\ p \notin PortsOf(fwds)
    BY <1>2 DEF Promised, Forget
  <2>2. Promised(p)
    BY <2>1 DEF Promised
  <2>3. ack[p] \in Fwd /\ ack[p].port = p /\ InPlace(ack[p])
    BY <2>2 DEF IInv, PromiseInv
  <2> QED BY <1>2, <2>1, <2>3 DEF Accept, InPlace, InMemory, PortsOf
<1>4. op.kind \in {"add", "delete", "prune", "device"}
      /\ (op.kind = "add" => op.fwds \subseteq Fwd /\ Batch(op.fwds))
  BY OperationsAssumption DEF Operation
<1>5. RequestInv' /\ HandInv'
  BY <1>2, <1>4 DEF RequestInv, HandInv, FirstStep, Batch
<1> QED BY <1>1, <1>3, <1>5 DEF IInv

\* A step that puts, stores, removes or saves one forward leaves what was
\* promised on other ports.
LEMMA TurnKeepsPromises ==
  ASSUME IInv, UNCHANGED ack, req'.fwds = req.fwds,
         NEW f \in req.fwds,
         vmrest' \in {vmrest, PutFwd(f), Without(vmrest, f.port)},
         natMem' \in {natMem, NatAdd(natMem, UtilityFwd(f)), Without(natMem, f.port)},
         natDisk' \in {natDisk, natMem}
  PROVE  PromiseInv'
<1> SUFFICES ASSUME NEW p \in Ports, Promised(p)
             PROVE  /\ ack[p] \in Fwd /\ ack[p].port = p
                    /\ InPlace(ack[p])'
                    /\ \A g \in req.fwds : g.port # p
  BY DEF PromiseInv, Promised
<1>1. /\ ack[p] \in Fwd /\ ack[p].port = p
      /\ InPlace(ack[p])
      /\ \A g \in req.fwds : g.port # p
  BY DEF IInv, PromiseInv
<1>2. ack[p] \in ReqFwd /\ ack[p].port # f.port
  BY <1>1 DEF Fwd, ReqFwd
<1>3. Managing(ack[p]) \in vmrest'
  BY <1>1, <1>2, OtherPortsUntouched DEF InPlace, InMemory
<1>4. UtilityFwd(ack[p]) \in natMem' /\ UtilityFwd(ack[p]) \in natDisk'
  BY <1>1, <1>2, OtherPortsUntouched DEF InPlace, InMemory
<1> QED BY <1>1, <1>3, <1>4 DEF InPlace, InMemory, Managing, UtilityFwd

\* In a batch, working on one forward leaves the finished others in place.
LEMMA TurnKeepsTheBatch ==
  ASSUME IInv, req.kind = "add", NEW f \in req.fwds, NEW g \in req.fwds, g # f, InPlace(g),
         vmrest' \in {vmrest, PutFwd(f)},
         natMem' \in {natMem, NatAdd(natMem, UtilityFwd(f))},
         natDisk' \in {natDisk, natMem}
  PROVE  InPlace(g)'
<1>1. g.port # f.port /\ g \in ReqFwd
  BY DEF IInv, Types, RequestInv, Batch
<1>2. Managing(g) \in vmrest'
  BY <1>1, OtherPortsUntouched DEF InPlace, InMemory
<1>3. UtilityFwd(g) \in natMem' /\ UtilityFwd(g) \in natDisk'
  BY <1>1, OtherPortsUntouched DEF InPlace, InMemory
<1> QED BY <1>2, <1>3 DEF InPlace, InMemory

\* A forward that is put is vmrest's, and the finished ones stay in place.
LEMMA PutStep ==
  ASSUME IInv, Types', NEW f, Put(f)
  PROVE  IInv'
<1>1. /\ req.pc = "put" /\ f \in req.todo /\ f \in req.fwds /\ req.kind = "add" /\ req.cur = {}
      /\ vmrest' = PutFwd(f) /\ UNCHANGED <<natMem, natDisk, ack>>
      /\ req'.pc = "store" /\ req'.kind = "add" /\ req'.fwds = req.fwds
      /\ req'.todo = req.todo \ {f} /\ req'.cur = {f}
  BY DEF Put, At, IInv, Types, RequestInv
<1>2. SettingsInv' /\ HandInv'
  BY <1>1 DEF IInv, SettingsInv, HandInv
<1>3. PromiseInv'
  BY <1>1, TurnKeepsPromises
<1>4. \A g \in req'.fwds : g \notin req'.todo /\ g \notin req'.cur => InPlace(g)'
  BY <1>1, TurnKeepsTheBatch DEF IInv, RequestInv
<1>5. Managing(f) \in vmrest'
  BY <1>1 DEF PutFwd
<1>6. RequestInv'
  BY <1>1, <1>4, <1>5 DEF IInv, RequestInv, Batch, Managing
<1> QED BY <1>2, <1>3, <1>6 DEF IInv

\* A forward that is stored is in memory.
LEMMA StoreStep ==
  ASSUME IInv, Types', NEW f, Store(f)
  PROVE  IInv'
<1>1. /\ req.pc = "store" /\ f \in req.cur /\ f \in req.fwds /\ req.kind = "add"
      /\ natMem' = NatAdd(natMem, UtilityFwd(f)) /\ UNCHANGED <<vmrest, natDisk, ack>>
      /\ req'.pc = "persist" /\ req'.kind = "add" /\ req'.fwds = req.fwds
      /\ req'.todo = req.todo /\ req'.cur = req.cur
  BY DEF Store, At, IInv, Types, RequestInv
<1>2. SettingsInv' /\ HandInv'
  BY <1>1, OnePerPortKept DEF IInv, SettingsInv, HandInv
<1>3. PromiseInv'
  BY <1>1, TurnKeepsPromises
<1>4. \A g \in req'.fwds : g \notin req'.todo /\ g \notin req'.cur => InPlace(g)'
  BY <1>1, TurnKeepsTheBatch DEF IInv, RequestInv
<1>5. \A g \in req'.cur : InMemory(g)'
  <2>1. UtilityFwd(f) \in natMem' /\ Managing(f) \in vmrest
    BY <1>1 DEF NatAdd, IInv, RequestInv
  <2> QED BY <1>1, <2>1 DEF IInv, HandInv, InMemory
<1>6. RequestInv'
  BY <1>1, <1>4, <1>5 DEF IInv, RequestInv, Batch
<1> QED BY <1>2, <1>3, <1>6 DEF IInv

\* Deleting works outside of what was promised.
LEMMA DeleteStep ==
  ASSUME IInv, Types', NEW f, Delete(f) \/ Unstore(f)
  PROVE  IInv'
<1>1. /\ f \in req.fwds /\ req.kind # "add"
      /\ vmrest' \in {vmrest, Without(vmrest, f.port)}
      /\ natMem' \in {natMem, Without(natMem, f.port)} /\ UNCHANGED <<natDisk, ack>>
      /\ req'.pc \in {"unstore", "persist"} /\ req'.kind = req.kind /\ req'.fwds = req.fwds
      /\ req'.todo \subseteq req.todo /\ req'.cur \in {req.cur, {f}}
  <2>1. CASE Delete(f)
    BY <2>1 DEF Delete, At, IInv, Types, RequestInv
  <2>2. CASE Unstore(f)
    BY <2>2 DEF Unstore, At, IInv, Types, RequestInv
  <2> QED BY <2>1, <2>2
<1>2. SettingsInv' /\ HandInv'
  BY <1>1, OnePerPortKept DEF IInv, SettingsInv, HandInv
<1>3. PromiseInv'
  BY <1>1, TurnKeepsPromises
<1>4. RequestInv'
  BY <1>1 DEF IInv, RequestInv
<1> QED BY <1>2, <1>3, <1>4 DEF IInv

\* Saving puts in place what is in memory.
LEMMA PersistStep ==
  ASSUME IInv, Types', Persist
  PROVE  IInv'
<1>1. /\ req.pc = "persist" /\ natDisk' = natMem /\ UNCHANGED <<vmrest, natMem, ack>>
      /\ req'.pc = (IF req.kind = "add" THEN "put" ELSE "delete") /\ req'.kind = req.kind
      /\ req'.fwds = req.fwds /\ req'.todo = req.todo /\ req'.cur = {}
  BY DEF Persist, NextTurn, At, IInv, Types
<1>2. SettingsInv' /\ HandInv'
  BY <1>1 DEF IInv, SettingsInv, OnePerPort, HandInv
<1>3. \A g : InMemory(g) => InPlace(g)'
  BY <1>1 DEF InPlace, InMemory
<1>4. PromiseInv'
  BY <1>1, <1>3 DEF IInv, PromiseInv, Promised, InPlace
<1>5. RequestInv'
  BY <1>1, <1>3 DEF IInv, RequestInv, Batch, InPlace
<1> QED BY <1>2, <1>4, <1>5 DEF IInv

\* When an addition has finished, all of it is in place.
LEMMA FinishStep ==
  ASSUME IInv, Types', Finish
  PROVE  IInv'
<1>1. /\ req.pc \in {"put", "delete"} /\ req.todo = {} /\ req' = Idle
      /\ UNCHANGED <<vmrest, natMem, natDisk>>
      /\ Grant
  BY DEF Finish
<1>2. SettingsInv' /\ RequestInv' /\ HandInv'
  BY <1>1, IdleIsARequest DEF IInv, SettingsInv, OnePerPort, RequestInv, HandInv
<1>3. PromiseInv'
  <2> SUFFICES ASSUME NEW p \in Ports, Promised(p)'
               PROVE  ack'[p] \in Fwd /\ ack'[p].port = p /\ InPlace(ack'[p])
    BY <1>1, IdleIsARequest DEF PromiseInv, InPlace, InMemory
  <2>1. CASE p \notin PortsOf(req.fwds)
    BY <1>1, <2>1 DEF Grant, Promised, IInv, PromiseInv
  <2>2. CASE p \in PortsOf(req.fwds)
    <3>1. req.kind = "add" /\ ack'[p] = CHOOSE f \in req.fwds : f.port = p
      BY <1>1, <2>2 DEF Grant, Promised
    <3>2. \E f \in req.fwds : f.port = p
      BY <2>2 DEF PortsOf
    <3>3. ack'[p] \in req.fwds /\ ack'[p].port = p
      BY <3>1, <3>2
    <3>4. req.cur = {} /\ req.todo = {}
      BY <1>1, <3>1 DEF IInv, RequestInv
    <3> QED BY <3>1, <3>3, <3>4 DEF IInv, RequestInv
  <2> QED BY <2>1, <2>2
<1> QED BY <1>2, <1>3 DEF IInv

\* A prune forgets what was promised of the forwards it is about to delete.
LEMMA ListStep ==
  ASSUME IInv, Types', List
  PROVE  IInv'
<1>1. PICK unused : /\ req.pc = "list" /\ UNCHANGED <<vmrest, natMem, natDisk>>
                    /\ req' = [req EXCEPT !.pc = "delete", !.fwds = unused, !.todo = unused]
                    /\ ack' = Forget(unused)
  BY DEF List, At
<1>2. /\ req'.pc = "delete" /\ req'.kind = req.kind /\ req.kind # "add"
      /\ req'.fwds = unused /\ req'.todo = unused /\ req'.cur = req.cur
  BY <1>1 DEF IInv, Types, RequestInv
<1>3. SettingsInv' /\ HandInv'
  BY <1>1, <1>2 DEF IInv, SettingsInv, OnePerPort, HandInv
<1>4. PromiseInv'
  <2> SUFFICES ASSUME NEW p \in Ports, Promised(p)'
               PROVE  /\ ack'[p] \in Fwd /\ ack'[p].port = p
                      /\ InPlace(ack'[p])
                      /\ \A f \in unused : f.port # p
    BY <1>1, <1>2 DEF PromiseInv, InPlace, InMemory
  <2>1. ack'[p] = ack[p] /\ p \notin PortsOf(unused)
    BY <1>1 DEF Promised, Forget
  <2> QED BY <2>1 DEF IInv, PromiseInv, Promised, PortsOf
<1>5. RequestInv'
  BY <1>1, <1>2 DEF IInv, RequestInv
<1> QED BY <1>3, <1>4, <1>5 DEF IInv

\* A failure or a crash, whatever part of its step was done.
LEMMA FailStep ==
  ASSUME IInv, Types',
         \/ \E f \in req.todo : PutFails(f) \/ DeleteFails(f)
         \/ PersistFails \/ ListFails \/ AddVmnetAside \/ Crash
  PROVE  IInv'
<1>1. /\ req' = Idle /\ UNCHANGED <<ack, natDisk>> /\ natMem' \in {natMem, natDisk}
      /\ \/ vmrest' = vmrest
         \/ \E f \in req.fwds : vmrest' \in {PutFwd(f), Without(vmrest, f.port)}
  <2>1. CASE \E f \in req.todo : PutFails(f) \/ DeleteFails(f)
    BY <2>1 DEF PutFails, DeleteFails, Fail, IInv, RequestInv
  <2>2. CASE PersistFails \/ ListFails \/ AddVmnetAside \/ Crash
    BY <2>2 DEF PersistFails, ListFails, AddVmnetAside, Crash, Fail
  <2> QED BY <2>1, <2>2
<1>2. \A p \in Ports : Promised(p) => Managing(ack[p]) \in vmrest'
  <2> SUFFICES ASSUME NEW p \in Ports, Promised(p)
               PROVE  Managing(ack[p]) \in vmrest'
    OBVIOUS
  <2>1. /\ ack[p] \in Fwd /\ ack[p].port = p
        /\ Managing(ack[p]) \in vmrest
        /\ \A g \in req.fwds : g.port # p
    BY DEF IInv, PromiseInv, InPlace, InMemory
  <2>2. ack[p] \in ReqFwd
    BY <2>1 DEF Fwd, ReqFwd
  <2> QED BY <1>1, <2>1, <2>2, OtherPortsUntouched
<1> QED BY <1>1, <1>2, FailKeepsPromises DEF IInv

\* Every step with the advanced driver keeps the invariant.
LEMMA InvariantStep ==
  ASSUME IInv, Next, Types', fallback = "advanced"
  PROVE  IInv'
<1>1. ASSUME NEW op \in Operations, Accept(op) PROVE IInv'
  BY <1>1, AcceptStep
<1>2. ASSUME NEW f, f \in req.todo \cup req.cur, Forwarding(f) PROVE IInv'
  <2>1. CASE PutFails(f) \/ DeleteFails(f)
    <3>1. f \in req.todo
      BY <2>1 DEF PutFails, DeleteFails
    <3> QED BY <2>1, <3>1, FailStep
  <2> QED BY <1>2, <2>1, PutStep, StoreStep, DeleteStep DEF Forwarding
<1>3. CASE PersistFails \/ ListFails \/ AddVmnetAside \/ Crash
  BY <1>3, FailStep
<1>4. CASE Persist \/ List \/ Finish
  BY <1>4, PersistStep, ListStep, FinishStep
<1>5. ASSUME NEW vm \in Vms, MachineStartsOrStops(vm) PROVE IInv'
  BY <1>5 DEF MachineStartsOrStops, IInv, SettingsInv, OnePerPort, PromiseInv, Promised,
              InPlace, InMemory, RequestInv, HandInv
<1>6. ~SimpleAddVmnet /\ ~StubbedAddVmnet
  BY DEF SimpleAddVmnet, StubbedAddVmnet
<1> QED BY <1>1, <1>2, <1>3, <1>4, <1>5, <1>6 DEF Next, Step

\* Behind the vmrest driver is the simple or the advanced one.
LEMMA TwoFallbacks == Fallbacks \subseteq {"simple", "advanced"}
BY DEF Fallbacks, CreateDriver

\* The initial states satisfy the invariants.
LEMMA InvariantInit == Init => TypeInv /\ IInv
<1> SUFFICES ASSUME Init PROVE TypeInv /\ IInv
  OBVIOUS
<1>1. Types
  BY IdleIsARequest, TwoFallbacks DEF Init, Types
<1>2. \A p \in Ports : ~Promised(p)
  BY DEF Init, Promised
<1> QED BY <1>1, <1>2, IdleIsARequest
    DEF TypeInv, AddsInv, IInv, Init, SettingsInv, OnePerPort, PromiseInv, RequestInv, HandInv

-----------------------------------------------------------------------------
(* The forward table, with either driver: what vmrest keeps of a promise   *)
(* apart from the machine.                                                 *)

Placed(f, fwds) == \E g \in fwds : g.port = f.port /\ g.guest = f.guest

Absent(p) == p \notin PortsOf(vmrest) \cup PortsOf(natMem) \cup PortsOf(natDisk)

PlaceInv == \A p \in Ports : Promised(p) => ack[p] \in Fwd /\ ack[p].port = p /\ Placed(ack[p], vmrest)

GoneInv == \A p \in Ports : ack[p] = Gone => Absent(p)

\* Nothing is promised of a port while a request works on it.
OpenInv == \A f \in req.fwds : ack[f.port] = NoAck

AddingInv ==
  /\ req.fwds \subseteq Fwd /\ Batch(req.fwds)
  /\ req.pc \in {"put", "store", "persist"}
  /\ \A f \in req.fwds \ req.todo : Placed(f, vmrest)

DeletingInv ==
  /\ req.pc = "delete" => req.cur = {}
  /\ \A f \in req.fwds \ req.todo :
       /\ f.port \notin PortsOf(vmrest)
       /\ f \in req.cur /\ req.pc = "persist" => f.port \notin PortsOf(natMem)
       /\ f \notin req.cur => Absent(f.port)

WorkInv ==
  /\ req.todo \subseteq req.fwds /\ req.cur \subseteq req.fwds \ req.todo
  /\ \A f, g \in req.cur : f = g
  /\ req.pc \in {"put", "store"} => req.kind = "add"
  /\ req.pc \in {"delete", "unstore"} => req.kind \in {"delete", "prune"}
  /\ req.pc = "persist" => req.kind \in {"add", "delete", "prune"}
  /\ req.pc = "list" => req.kind = "prune" /\ req.cur = {}
  /\ req.pc = "device" => req.kind = "device"
  /\ req.kind = "add" => AddingInv
  /\ req.kind \in {"delete", "prune"} => DeletingInv

TInv == Types /\ PlaceInv /\ GoneInv /\ OpenInv /\ WorkInv

\* Nobody's request owes nothing.
LEMMA IdleOwesNothing == req' = Idle => OpenInv' /\ WorkInv'
BY IdleIsARequest DEF OpenInv, WorkInv

\* What the tables keep of one port does not depend on the forward of another.
LEMMA OtherPlaces ==
  ASSUME NEW f \in ReqFwd, NEW p, p # f.port
  PROVE  /\ p \in PortsOf(PutFwd(f)) <=> p \in PortsOf(vmrest)
         /\ p \in PortsOf(Without(vmrest, f.port)) <=> p \in PortsOf(vmrest)
         /\ \A g : g.port = p /\ Placed(g, vmrest) =>
                     Placed(g, PutFwd(f)) /\ Placed(g, Without(vmrest, f.port))
         /\ \A nat : /\ p \in PortsOf(NatAdd(nat, UtilityFwd(f))) <=> p \in PortsOf(nat)
                     /\ p \in PortsOf(Without(nat, f.port)) <=> p \in PortsOf(nat)
<1>1. Managing(f).port = f.port /\ UtilityFwd(f).port = f.port
  BY DEF Managing, UtilityFwd
<1>2. /\ p \in PortsOf(PutFwd(f)) <=> p \in PortsOf(vmrest)
      /\ p \in PortsOf(Without(vmrest, f.port)) <=> p \in PortsOf(vmrest)
  BY <1>1 DEF PortsOf, PutFwd, Without
<1>3. \A g : g.port = p /\ Placed(g, vmrest) =>
               Placed(g, PutFwd(f)) /\ Placed(g, Without(vmrest, f.port))
  BY DEF Placed, PutFwd, Without
<1>4. \A nat : /\ p \in PortsOf(NatAdd(nat, UtilityFwd(f))) <=> p \in PortsOf(nat)
               /\ p \in PortsOf(Without(nat, f.port)) <=> p \in PortsOf(nat)
  BY <1>1 DEF PortsOf, NatAdd, Without
<1> QED BY <1>2, <1>3, <1>4

\* A step on one forward of the request keeps what was promised of other ports.
LEMMA PromisesElsewhere ==
  ASSUME Types, PlaceInv, GoneInv, OpenInv, Types', UNCHANGED ack,
         NEW f \in req.fwds,
         vmrest' \in {vmrest, PutFwd(f), Without(vmrest, f.port)},
         natMem' \in {natMem, natDisk, NatAdd(natMem, UtilityFwd(f)), Without(natMem, f.port)},
         natDisk' \in {natDisk, natMem}
  PROVE  PlaceInv' /\ GoneInv'
<1>1. f \in ReqFwd /\ ack[f.port] = NoAck
  BY DEF Types, OpenInv
<1>2. ASSUME NEW p \in Ports, Promised(p)
      PROVE  ack[p] \in Fwd /\ ack[p].port = p /\ Placed(ack[p], vmrest')
  <2>1. p # f.port /\ ack[p] \in Fwd /\ ack[p].port = p /\ Placed(ack[p], vmrest)
    BY <1>1, <1>2 DEF Promised, PlaceInv
  <2>2. Placed(ack[p], PutFwd(f)) /\ Placed(ack[p], Without(vmrest, f.port))
    BY <1>1, <2>1, OtherPlaces
  <2> QED BY <2>1, <2>2
<1>3. ASSUME NEW p \in Ports, ack[p] = Gone
      PROVE  Absent(p)'
  <2>1. p # f.port /\ Absent(p)
    BY <1>1, <1>3, OperationsAssumption DEF GoneInv
  <2>2. /\ p \notin PortsOf(PutFwd(f)) /\ p \notin PortsOf(Without(vmrest, f.port))
        /\ p \notin PortsOf(NatAdd(natMem, UtilityFwd(f))) /\ p \notin PortsOf(Without(natMem, f.port))
    BY <1>1, <2>1, OtherPlaces DEF Absent
  <2> QED BY <2>1, <2>2 DEF Absent
<1>4. PlaceInv'
  BY <1>2 DEF PlaceInv, Promised
<1> QED BY <1>3, <1>4 DEF GoneInv

\* Requests begin with promises withdrawn.
LEMMA TAcceptStep ==
  ASSUME TInv, Types', NEW op \in Operations, Accept(op)
  PROVE  TInv'
<1> DEFINE fwds == IF op.kind \in {"add", "delete"} THEN op.fwds ELSE {}
<1>1. /\ req'.pc = FirstStep(op.kind) /\ req'.kind = op.kind
      /\ req'.fwds = fwds /\ req'.todo = fwds /\ req'.cur = {}
      /\ ack' = Forget(fwds) /\ UNCHANGED <<vmrest, natMem, natDisk>>
  BY IdleIsARequest DEF Accept, Idle
<1>2. op.kind \in {"add", "delete", "prune", "device"}
      /\ (op.kind = "add" => op.fwds \subseteq Fwd /\ Batch(op.fwds))
      /\ fwds \subseteq Fwd
  BY OperationsAssumption DEF Operation
<1>3. PlaceInv' /\ GoneInv'
  <2>1. \A p \in Ports : ack'[p] \in {ack[p], NoAck}
    BY <1>1 DEF Forget
  <2> QED BY <1>1, <2>1, OperationsAssumption DEF TInv, PlaceInv, GoneInv, Promised, Absent
<1>4. OpenInv'
  BY <1>1, <1>2 DEF OpenInv, Forget, PortsOf, Fwd
<1>5. WorkInv'
  BY <1>1, <1>2 DEF WorkInv, AddingInv, DeletingInv, FirstStep
<1> QED BY <1>3, <1>4, <1>5 DEF TInv

\* Putting and storing a forward leaves it and the finished ones in place.
LEMMA TPutStep ==
  ASSUME TInv, Types', NEW f, Put(f) \/ Store(f)
  PROVE  TInv'
<1>1. /\ f \in req.fwds /\ req.kind = "add" /\ req'.kind = "add" /\ req'.fwds = req.fwds
      /\ req'.pc \in {"store", "persist"} /\ req'.todo = req.todo \ {f} /\ req'.cur \subseteq {f}
      /\ f \in req.todo \/ f \in req.cur
      /\ vmrest' \in {vmrest, PutFwd(f)} /\ (f \in req.todo => vmrest' = PutFwd(f))
      /\ natMem' \in {natMem, NatAdd(natMem, UtilityFwd(f))} /\ UNCHANGED <<natDisk, ack>>
  <2>1. CASE Put(f)
    BY <2>1 DEF Put, At, TInv, Types, WorkInv
  <2>2. CASE Store(f)
    <3>1. f \notin req.todo /\ req.cur \subseteq {f} /\ f \in req.fwds
      BY <2>2 DEF Store, TInv, WorkInv
    <3> QED BY <2>2, <3>1 DEF Store, At, TInv, Types, WorkInv
  <2> QED BY <2>1, <2>2
<1>2. PlaceInv' /\ GoneInv'
  BY <1>1, PromisesElsewhere DEF TInv
<1>3. OpenInv'
  BY <1>1 DEF TInv, OpenInv
<1>4. Placed(f, PutFwd(f))
  <2>1. Managing(f) \in PutFwd(f) /\ Managing(f).port = f.port /\ Managing(f).guest = f.guest
    BY DEF PutFwd, Managing
  <2> QED BY <2>1 DEF Placed
<1>5. ASSUME NEW g \in req.fwds \ req'.todo PROVE Placed(g, vmrest')
  <2>1. CASE g = f /\ f \in req.todo
    BY <1>1, <1>4, <2>1
  <2>2. CASE g \notin req.todo
    <3>1. Placed(g, vmrest)
      BY <1>1, <2>2 DEF TInv, WorkInv, AddingInv
    <3>2. CASE g.port # f.port
      BY <1>1, <3>1, <3>2, OtherPlaces DEF TInv, Types
    <3>3. CASE g.port = f.port
      <4>1. g = f
        BY <1>1, <3>3 DEF TInv, WorkInv, AddingInv, Batch
      <4> QED BY <1>1, <1>4, <3>1, <4>1
    <3> QED BY <3>2, <3>3
  <2> QED BY <1>1, <2>1, <2>2
<1>6. WorkInv'
  BY <1>1, <1>5 DEF TInv, WorkInv, AddingInv, Batch
<1> QED BY <1>2, <1>3, <1>6 DEF TInv

\* Deleting and unstoring a forward leaves the finished ones gone.
LEMMA TDeleteStep ==
  ASSUME TInv, Types', NEW f, Delete(f) \/ Unstore(f)
  PROVE  TInv'
<1>1. /\ f \in req.fwds /\ req.kind \in {"delete", "prune"} /\ req'.kind = req.kind /\ req'.fwds = req.fwds
      /\ req'.pc \in {"unstore", "persist"} /\ req'.todo = req.todo \ {f} /\ req'.cur = {f}
      /\ \/ /\ req'.pc = "unstore" /\ req.cur = {} /\ vmrest' = Without(vmrest, f.port) /\ natMem' = natMem
         \/ /\ req'.pc = "persist" /\ req.cur = {f} /\ vmrest' = vmrest /\ natMem' = Without(natMem, f.port)
      /\ UNCHANGED <<natDisk, ack>>
  <2>1. CASE Delete(f)
    <3>1. req.kind \in {"delete", "prune"} /\ req.cur = {} /\ f \in req.fwds
      BY <2>1 DEF Delete, At, TInv, WorkInv, DeletingInv
    <3> QED BY <2>1, <3>1 DEF Delete, At, TInv, Types
  <2>2. CASE Unstore(f)
    <3>1. f \notin req.todo /\ req.cur = {f} /\ f \in req.fwds /\ req.kind \in {"delete", "prune"}
      BY <2>2 DEF Unstore, At, TInv, WorkInv
    <3> QED BY <2>2, <3>1 DEF Unstore, At, TInv, Types
  <2> QED BY <2>1, <2>2
<1>2. PlaceInv' /\ GoneInv'
  BY <1>1, PromisesElsewhere DEF TInv
<1>3. OpenInv'
  BY <1>1 DEF TInv, OpenInv
<1>4. /\ f.port \notin PortsOf(Without(vmrest, f.port))
      /\ f.port \notin PortsOf(Without(natMem, f.port))
      /\ PortsOf(Without(vmrest, f.port)) \subseteq PortsOf(vmrest)
      /\ PortsOf(Without(natMem, f.port)) \subseteq PortsOf(natMem)
  BY DEF PortsOf, Without
<1>5. DeletingInv'
  <2> SUFFICES ASSUME NEW g \in req.fwds \ req'.todo
               PROVE  /\ g.port \notin PortsOf(vmrest')
                      /\ g = f /\ req'.pc = "persist" => g.port \notin PortsOf(natMem')
                      /\ g # f => Absent(g.port)'
    BY <1>1 DEF DeletingInv
  <2>1. CASE g = f
    BY <1>1, <1>4, <2>1 DEF TInv, WorkInv, DeletingInv
  <2>2. CASE g # f
    <3>1. g \notin req.todo /\ g \notin req.cur
      BY <1>1, <2>2
    <3>2. Absent(g.port)
      BY <1>1, <3>1 DEF TInv, WorkInv, DeletingInv
    <3> QED BY <1>1, <1>4, <2>2, <3>2 DEF Absent
  <2> QED BY <2>1, <2>2
<1>6. WorkInv'
  BY <1>1, <1>5 DEF TInv, WorkInv
<1> QED BY <1>2, <1>3, <1>6 DEF TInv

\* Saving the settings ends a turn of the loop.
LEMMA TPersistStep ==
  ASSUME TInv, Types', Persist
  PROVE  TInv'
<1>1. /\ req.pc = "persist" /\ natDisk' = natMem /\ UNCHANGED <<vmrest, natMem, ack>>
      /\ req'.pc = (IF req.kind = "add" THEN "put" ELSE "delete") /\ req'.kind = req.kind
      /\ req'.fwds = req.fwds /\ req'.todo = req.todo /\ req'.cur = {}
  BY DEF Persist, NextTurn, At, TInv, Types
<1>2. PlaceInv' /\ GoneInv' /\ OpenInv'
  BY <1>1 DEF TInv, PlaceInv, GoneInv, OpenInv, Promised, Absent
<1>3. CASE req.kind = "add"
  <2>1. WorkInv'
    BY <1>1, <1>3 DEF TInv, WorkInv, AddingInv
  <2> QED BY <1>2, <2>1 DEF TInv
<1>4. CASE req.kind \in {"delete", "prune"}
  <2>1. DeletingInv'
    BY <1>1, <1>4 DEF TInv, WorkInv, DeletingInv, Absent
  <2>2. WorkInv'
    BY <1>1, <1>4, <2>1 DEF TInv, WorkInv
  <2> QED BY <1>2, <2>2 DEF TInv
<1> QED BY <1>1, <1>3, <1>4 DEF TInv, WorkInv

\* An addition that is answered is in place, a deletion is done.
LEMMA TFinishStep ==
  ASSUME TInv, Types', Finish
  PROVE  TInv'
<1>1. /\ req.pc \in {"put", "delete"} /\ req.todo = {} /\ req' = Idle
      /\ UNCHANGED <<vmrest, natMem, natDisk>>
      /\ Grant
  BY DEF Finish
<1>2. ASSUME NEW p \in PortsOf(req.fwds), p \in Ports
      PROVE  IF req.kind = "add" THEN ack'[p] \in Fwd /\ ack'[p].port = p /\ Placed(ack'[p], vmrest)
             ELSE ack'[p] = Gone /\ Absent(p)
  <2>1. \E f \in req.fwds : f.port = p
    BY DEF PortsOf
  <2>2. CASE req.kind = "add"
    <3>1. ack'[p] = CHOOSE f \in req.fwds : f.port = p
      BY <1>1, <1>2, <2>2 DEF Grant
    <3>2. ack'[p] \in req.fwds /\ ack'[p].port = p
      BY <2>1, <3>1
    <3> QED BY <1>1, <2>2, <3>2 DEF TInv, WorkInv, AddingInv
  <2>3. CASE req.kind # "add"
    <3>1. req.kind \in {"delete", "prune"} /\ req.pc = "delete" /\ req.cur = {}
      BY <1>1, <2>3 DEF TInv, WorkInv, DeletingInv
    <3>2. Absent(p)
      BY <1>1, <2>1, <3>1 DEF TInv, WorkInv, DeletingInv
    <3> QED BY <1>1, <1>2, <2>3, <3>2 DEF Grant
  <2> QED BY <2>2, <2>3
<1>3. \A p \in Ports \ PortsOf(req.fwds) : ack'[p] = ack[p]
  BY <1>1 DEF Grant
<1>4. PlaceInv'
  BY <1>1, <1>2, <1>3 DEF TInv, PlaceInv, Promised
<1>5. GoneInv'
  <2> SUFFICES ASSUME NEW p \in Ports, ack'[p] = Gone PROVE Absent(p)
    BY <1>1 DEF GoneInv, Absent
  <2> QED BY <1>2, <1>3, OperationsAssumption DEF TInv, GoneInv
<1> QED BY <1>1, <1>4, <1>5, IdleOwesNothing DEF TInv

\* A prune withdraws what was promised of the forwards it is to delete.
LEMMA TListStep ==
  ASSUME TInv, Types', List
  PROVE  TInv'
<1>1. PICK unused : /\ req.pc = "list" /\ UNCHANGED <<vmrest, natMem, natDisk>>
                    /\ req' = [req EXCEPT !.pc = "delete", !.fwds = unused, !.todo = unused]
                    /\ ack' = Forget(unused)
  BY DEF List, At
<1>2. /\ req'.pc = "delete" /\ req'.kind = "prune" /\ req'.fwds = unused /\ req'.todo = unused /\ req'.cur = {}
  BY <1>1 DEF TInv, Types, WorkInv
<1>3. PlaceInv' /\ GoneInv'
  <2>1. \A p \in Ports : ack'[p] \in {ack[p], NoAck}
    BY <1>1 DEF Forget
  <2> QED BY <1>1, <2>1, OperationsAssumption DEF TInv, PlaceInv, GoneInv, Promised, Absent
<1>4. OpenInv'
  BY <1>1, <1>2 DEF OpenInv, Forget, PortsOf, Types, ReqFwd
<1>5. WorkInv'
  BY <1>2 DEF WorkInv, DeletingInv
<1> QED BY <1>3, <1>4, <1>5 DEF TInv

\* The simple driver's rewriting of the table keeps its ports and guests.
LEMMA TDeviceStep ==
  ASSUME TInv, Types', SimpleAddVmnet
  PROVE  TInv'
<1>1. PICK stripped \in BOOLEAN :
        /\ natMem' = {Merged(Line(f, IF stripped THEN NoDesc ELSE f.desc)) : f \in vmrest}
        /\ vmrest' = IF stripped THEN {[f EXCEPT !.desc = NoDesc] : f \in vmrest} ELSE vmrest
  BY DEF SimpleAddVmnet
<1>2. natDisk' = natMem' /\ req' = Idle /\ UNCHANGED ack
  BY DEF SimpleAddVmnet
<1>3. \A f \in vmrest : [f EXCEPT !.desc = NoDesc].port = f.port /\ [f EXCEPT !.desc = NoDesc].guest = f.guest
  BY DEF TInv, Types, VmrestFwd
<1>4. PlaceInv'
  <2> SUFFICES ASSUME NEW p \in Ports, Promised(p)
               PROVE  ack[p] \in Fwd /\ ack[p].port = p /\ Placed(ack[p], vmrest')
    BY <1>2 DEF PlaceInv, Promised
  <2>1. ack[p] \in Fwd /\ ack[p].port = p /\ Placed(ack[p], vmrest)
    BY DEF TInv, PlaceInv
  <2>2. PICK g \in vmrest : g.port = ack[p].port /\ g.guest = ack[p].guest
    BY <2>1 DEF Placed
  <2>3. \E h \in vmrest' : h.port = g.port /\ h.guest = g.guest
    BY <1>1, <1>3, <2>2
  <2> QED BY <2>1, <2>2, <2>3 DEF Placed
<1>5. PortsOf(vmrest') \subseteq PortsOf(vmrest)
  BY <1>1, <1>3 DEF PortsOf
<1>6. PortsOf(natMem') \subseteq PortsOf(vmrest)
  <2>1. ASSUME NEW f, NEW desc PROVE Merged(Line(f, desc)).port = f.port
    <3>1. Line(f, desc).port = f.port /\ [Line(f, desc) EXCEPT !.desc = (CHOOSE n \in natMem : Merges(n, Line(f, desc))).desc].port = f.port
      BY DEF Line
    <3> QED BY <3>1 DEF Merged
  <2> QED BY <1>1, <2>1 DEF PortsOf
<1>7. GoneInv'
  BY <1>2, <1>5, <1>6 DEF TInv, GoneInv, Absent
<1> QED BY <1>2, <1>4, <1>7, IdleOwesNothing DEF TInv

\* When the networking file is lost, what is lost is promised no more.
LEMMA TStubStep ==
  ASSUME TInv, Types', StubbedAddVmnet
  PROVE  TInv'
<1>1. /\ vmrest' \in {vmrest, {}} /\ natMem' = {} /\ natDisk' = {} /\ req' = Idle
      /\ \A p \in Ports : /\ ack'[p] \in {ack[p], NoAck}
                          /\ ack'[p] # NoAck => ~Promised(p) \/ p \in PortsOf(vmrest')
  BY DEF StubbedAddVmnet
<1>2. PortsOf({}) = {}
  BY DEF PortsOf
<1>3. PlaceInv'
  <2> SUFFICES ASSUME NEW p \in Ports, Promised(p)'
               PROVE  ack'[p] \in Fwd /\ ack'[p].port = p /\ Placed(ack'[p], vmrest')
    BY DEF PlaceInv
  <2>1. ack'[p] = ack[p] /\ Promised(p) /\ p \in PortsOf(vmrest')
    BY <1>1 DEF Promised
  <2>2. vmrest' = vmrest
    BY <1>1, <1>2, <2>1
  <2> QED BY <2>1, <2>2 DEF TInv, PlaceInv
<1>4. GoneInv'
  <2>1. \A p \in Ports : ack'[p] = Gone => ack[p] = Gone
    BY <1>1, OperationsAssumption
  <2> QED BY <1>1, <1>2, <2>1 DEF TInv, GoneInv, Absent
<1> QED BY <1>1, <1>3, <1>4, IdleOwesNothing DEF TInv

\* A failure or a crash, whatever part of its step was done.
LEMMA TFailStep ==
  ASSUME TInv, Types',
         \/ \E f \in req.todo : PutFails(f) \/ DeleteFails(f)
         \/ PersistFails \/ ListFails \/ AddVmnetAside \/ Crash
  PROVE  TInv'
<1>1. CASE \E f \in req.todo : PutFails(f) \/ DeleteFails(f)
  <2>1. PICK f \in req.fwds : /\ vmrest' \in {vmrest, PutFwd(f), Without(vmrest, f.port)}
                              /\ req' = Idle /\ UNCHANGED <<natMem, natDisk, ack>>
    BY <1>1 DEF PutFails, DeleteFails, Fail, TInv, WorkInv
  <2>2. PlaceInv' /\ GoneInv'
    BY <2>1, PromisesElsewhere DEF TInv
  <2> QED BY <2>1, <2>2, IdleOwesNothing DEF TInv
<1>2. CASE PersistFails \/ ListFails \/ AddVmnetAside \/ Crash
  <2>1. req' = Idle /\ UNCHANGED <<vmrest, natDisk, ack>> /\ natMem' \in {natMem, natDisk}
    BY <1>2 DEF PersistFails, ListFails, AddVmnetAside, Crash, Fail
  <2>2. PlaceInv' /\ GoneInv'
    BY <2>1 DEF TInv, PlaceInv, GoneInv, Promised, Absent
  <2> QED BY <2>1, <2>2, IdleOwesNothing DEF TInv
<1> QED BY <1>1, <1>2

\* Every step keeps what the table promises.
LEMMA TableStep ==
  ASSUME TInv, Next, Types'
  PROVE  TInv'
<1>1. ASSUME NEW op \in Operations, Accept(op) PROVE TInv'
  BY <1>1, TAcceptStep
<1>2. ASSUME NEW f, f \in req.todo \cup req.cur, Forwarding(f) PROVE TInv'
  <2>1. CASE PutFails(f) \/ DeleteFails(f)
    <3>1. f \in req.todo
      BY <2>1 DEF PutFails, DeleteFails
    <3> QED BY <2>1, <3>1, TFailStep
  <2> QED BY <1>2, <2>1, TPutStep, TDeleteStep DEF Forwarding
<1>3. CASE PersistFails \/ ListFails \/ AddVmnetAside \/ Crash
  BY <1>3, TFailStep
<1>4. CASE Persist \/ List \/ Finish \/ SimpleAddVmnet \/ StubbedAddVmnet
  BY <1>4, TPersistStep, TListStep, TFinishStep, TDeviceStep, TStubStep
<1>5. ASSUME NEW vm \in Vms, MachineStartsOrStops(vm) PROVE TInv'
  BY <1>5 DEF MachineStartsOrStops, TInv, PlaceInv, Promised, GoneInv, Absent, OpenInv,
              WorkInv, AddingInv, DeletingInv
<1> QED BY <1>1, <1>2, <1>3, <1>4, <1>5 DEF Next, Step

-----------------------------------------------------------------------------
(* The theorems.                                                           *)

Kept == fallback = "advanced" => IInv

\* What is promised is in place as long as the advanced driver manages devices.
THEOREM Invariance == Spec => [](TypeInv /\ Kept)
<1>1. Init => TypeInv /\ Kept
  BY InvariantInit DEF Kept
<1>2. TypeInv /\ Kept /\ [Next]_vars => (TypeInv /\ Kept)'
  <2> SUFFICES ASSUME TypeInv, Kept, [Next]_vars PROVE (TypeInv /\ Kept)'
    OBVIOUS
  <2>1. CASE UNCHANGED vars
    BY <2>1 DEF vars, TypeInv, AddsInv, Kept, IInv, Types, SettingsInv, OnePerPort, PromiseInv,
                Promised, InPlace, InMemory, RequestInv, HandInv
  <2>2. CASE Next
    <3>1. Types' /\ AddsInv'
      BY <2>2, TypesStep, AddsStep
    <3>2. fallback' = fallback
      BY <2>2 DEF Next, Step, Forwarding, Accept, Put, PutFails, Store, Delete, DeleteFails,
                  Unstore, Persist, PersistFails, List, ListFails, Finish, AddVmnetAside,
                  SimpleAddVmnet, StubbedAddVmnet, Crash, MachineStartsOrStops
    <3>3. Kept'
      BY <2>2, <3>1, <3>2, InvariantStep DEF Kept
    <3> QED BY <3>1, <3>3 DEF TypeInv
  <2> QED BY <2>1, <2>2
<1> QED BY <1>1, <1>2, PTL DEF Spec

\* What is in place is listed with its machine: PortFwds finds its settings
\* entry, the one entry of the port.
LEMMA KeptIsListed == Kept => AcknowledgedForwardIsListed
<1> SUFFICES ASSUME IInv, NEW p \in Ports, Promised(p)
             PROVE  ack[p] \in Listed
  BY DEF AcknowledgedForwardIsListed, Kept
<1> DEFINE f == Managing(ack[p])
           n == UtilityFwd(ack[p])
<1>1. ack[p] \in Fwd /\ f \in vmrest /\ n \in natMem
  BY DEF IInv, PromiseInv, InPlace, InMemory
<1>2. Matches(n, f) /\ n.desc = ack[p].desc
  BY DEF Matches, DriverFwd, Managing, UtilityFwd
<1>3. \A m \in natMem : Matches(m, f) => m = n
  BY <1>1, <1>2 DEF Matches, DriverFwd, IInv, SettingsInv, OnePerPort
<1>4. Description(f) = ack[p].desc
  <2>1. (CHOOSE m \in natMem : Matches(m, f)) = n
    BY <1>1, <1>2, <1>3
  <2> HIDE DEF f, n
  <2> QED BY <1>1, <1>2, <2>1 DEF Description, DriverFwd
<1>5. ack[p] = [port |-> f.port, guest |-> f.guest, desc |-> ack[p].desc]
  BY <1>1 DEF Fwd, Managing
<1> QED BY <1>1, <1>4, <1>5 DEF Listed

\* An acknowledged forward stays listed with its machine, although vmrest
\* knows one description only.
THEOREM ForwardsKeepTheirMachine == Spec => []AcknowledgedForwardIsListed
BY KeptIsListed, Invariance, PTL

\* The variables keep their types, with either driver.
THEOREM TypeCorrectness == Spec => []TypeOK
<1>1. TypeInv => TypeOK
  BY DEF TypeInv, Types, TypeOK, Kinds, ReqFwd
<1> QED BY <1>1, Invariance, PTL

\* What was promised is in place or gone, with either driver.
THEOREM TableInvariance == Spec => [](TypeInv /\ Kept /\ TInv)
<1>1. Init => TInv
  <2> SUFFICES ASSUME Init PROVE TInv
    OBVIOUS
  <2>1. Types
    BY InvariantInit DEF IInv
  <2>2. \A p \in Ports : ~Promised(p) /\ ack[p] # Gone
    BY OperationsAssumption DEF Init, Promised
  <2> QED BY <2>1, <2>2, IdleIsARequest DEF Init, TInv, PlaceInv, GoneInv, OpenInv, WorkInv
<1>2. TInv /\ Types' /\ [Next]_vars => TInv'
  <2> SUFFICES ASSUME TInv, Types', [Next]_vars PROVE TInv'
    OBVIOUS
  <2>1. CASE UNCHANGED vars
    BY <2>1 DEF vars, TInv, PlaceInv, Promised, GoneInv, Absent, OpenInv, WorkInv, AddingInv, DeletingInv
  <2> QED BY <2>1, TableStep
<1>3. TypeInv => Types
  BY DEF TypeInv
<1>4. (TypeInv /\ Kept)' => Types'
  BY DEF TypeInv
<1>5. Spec => []TInv
  <2>1. Spec => [](TypeInv /\ Kept)
    BY Invariance
  <2> QED BY <1>1, <1>2, <1>4, <2>1, PTL DEF Spec
<1> QED BY <1>5, Invariance, PTL

\* A forward whose deletion was answered with success is gone from vmrest and
\* from both copies of the settings, whatever fails and with either driver.
THEOREM DeletionsLast == Spec => []DeletedForwardIsGone
<1>1. TInv => DeletedForwardIsGone
  BY DEF TInv, GoneInv, Absent, DeletedForwardIsGone
<1> QED BY <1>1, TableInvariance, PTL

\* The invariants say that the list honours the promises.
LEMMA ListHonoursPromises ==
  Kept /\ TInv => \A p \in Ports : Table!Honours(ack[p], Listed, p)
<1> SUFFICES ASSUME Kept, TInv, NEW p \in Ports
             PROVE  Table!Honours(ack[p], Listed, p)
  OBVIOUS
<1>1. CASE ack[p] = NoAck
  BY <1>1 DEF Table!Honours
<1>2. CASE ack[p] = Gone
  <2>1. p \notin PortsOf(vmrest)
    BY <1>2 DEF TInv, GoneInv, Absent
  <2>2. \A f \in Listed : f.port # p
    BY <2>1 DEF Listed, PortsOf
  <2> QED BY <1>2, <2>2 DEF Table!Honours
<1>3. CASE Promised(p)
  <2>1. ack[p] \in Fwd /\ ack[p].port = p /\ Placed(ack[p], vmrest)
    BY <1>3 DEF TInv, PlaceInv
  <2>2. CASE fallback = "advanced"
    <3>1. ack[p] \in Listed
      BY <1>3, <2>2, KeptIsListed DEF AcknowledgedForwardIsListed
    <3> QED BY <1>3, <2>1, <3>1 DEF Table!Honours, Promised
  <2>3. CASE fallback # "advanced"
    <3>1. PICK g \in vmrest : g.port = p /\ g.guest = ack[p].guest
      BY <2>1 DEF Placed
    <3>2. [port |-> g.port, guest |-> g.guest, desc |-> Description(g)] \in Listed
      BY DEF Listed
    <3>3. \E f \in Listed : f.port = p /\ f.guest = ack[p].guest
      BY <3>1, <3>2
    <3> QED BY <1>3, <2>3, <3>3 DEF Table!Honours, Promised
  <2> QED BY <2>2, <2>3
<1> QED BY <1>1, <1>2, <1>3 DEF Promised

\* The driver implements the forward table: every step of a request, every
\* failure and restart is a step of the table or none.
THEOREM DriverImplementsTable == Spec => ImplementsForwardTable
<1>1. Init => Table!Init
  BY DEF Init, Table!Init, Listed
<1>2. ASSUME TypeInv, Kept, TInv, (TypeInv /\ Kept /\ TInv)', [Next]_vars
      PROVE  [Table!Next]_(Table!vars)
  <2>0. \A p \in Ports : Table!Honours(ack[p], Listed, p)'
    <3>1. (Kept /\ TInv => \A p \in Ports : Table!Honours(ack[p], Listed, p))'
      BY ListHonoursPromises, PTL
    <3> QED BY <1>2, <3>1
  <2>1. fallback' = fallback
    BY <1>2 DEF Next, vars, Step, Forwarding, Accept, Put, PutFails, Store, Delete, DeleteFails,
                Unstore, Persist, PersistFails, List, ListFails, Finish, AddVmnetAside,
                SimpleAddVmnet, StubbedAddVmnet, Crash, MachineStartsOrStops
  <2>2. CASE UNCHANGED ack
    <3>1. \A p \in Ports : Table!Honours(ack[p], Listed', p)
      <4> SUFFICES ASSUME NEW p \in Ports PROVE Table!Honours(ack[p], Listed', p)
        OBVIOUS
      <4>1. Table!Honours(ack[p], Listed, p)'
        BY <2>0
      <4> QED BY <2>1, <2>2, <4>1 DEF Table!Honours
    <3> QED BY <2>1, <2>2, <3>1 DEF Table!Next, Table!Work
  <2>3. ASSUME NEW fwds, ack' = Forget(fwds), UNCHANGED <<vmrest, natMem>>
        PROVE  Table!Next
    <3>1. Listed' = Listed
      BY <2>3 DEF Listed, Description
    <3>2. ack' = [p \in Ports |-> IF p \in PortsOf(fwds) \cap Ports THEN NoAck ELSE ack[p]]
      BY <2>3 DEF Forget
    <3> QED BY <2>1, <3>1, <3>2 DEF Table!Next, Table!Accept
  <2>4. CASE Finish
    <3>1. Listed' = Listed
      BY <2>4 DEF Finish, Listed, Description
    <3>2. ack' = [p \in Ports |-> ack'[p]]
      BY <2>4 DEF Finish, Grant
    <3>3. ASSUME NEW p \in Ports, ack'[p] # ack[p]
          PROVE  ack[p] = NoAck /\ Table!Honours(ack'[p], Listed, p)
      <4>1. p \in PortsOf(req.fwds)
        BY <2>4, <3>3 DEF Finish, Grant
      <4>2. ack[p] = NoAck
        BY <1>2, <4>1 DEF TInv, OpenInv, PortsOf
      <4>3. Table!Honours(ack[p], Listed, p)'
        BY <2>0
      <4> QED BY <2>1, <3>1, <4>2, <4>3 DEF Table!Honours
    <3> QED BY <2>1, <3>1, <3>2, <3>3 DEF Table!Next, Table!Answer
  <2>5. CASE Next
    <3>1. \/ \E op \in Operations : Accept(op)
          \/ List \/ Finish \/ StubbedAddVmnet
          \/ UNCHANGED ack
      BY <2>5 DEF Next, Step, Forwarding, Put, PutFails, Store, Delete, DeleteFails, Unstore,
                  Persist, PersistFails, ListFails, AddVmnetAside, SimpleAddVmnet, Crash,
                  MachineStartsOrStops, Fail
    <3>2. ASSUME NEW op \in Operations, Accept(op) PROVE Table!Next
      BY <2>3, <3>2 DEF Accept
    <3>3. CASE List
      BY <2>3, <3>3 DEF List
    <3>4. CASE StubbedAddVmnet
      <4> DEFINE ports == {p \in Ports : Promised(p) /\ p \notin PortsOf(vmrest')}
      <4>1. /\ ports \in SUBSET {p \in Ports : ack[p] # Gone} /\ fallback # "advanced"
            /\ ack' = [p \in Ports |-> IF p \in ports THEN NoAck ELSE ack[p]]
        BY <3>4 DEF StubbedAddVmnet, Promised
      <4>2. \A p \in Ports : Table!Honours(ack'[p], Listed', p)
        <5> SUFFICES ASSUME NEW p \in Ports PROVE Table!Honours(ack'[p], Listed', p)
          OBVIOUS
        <5>1. Table!Honours(ack[p], Listed, p)'
          BY <2>0
        <5> QED BY <2>1, <5>1 DEF Table!Honours
      <4> HIDE DEF ports
      <4> QED BY <2>1, <4>1, <4>2 DEF Table!Next, Table!Lose
    <3> QED BY <2>2, <2>4, <3>1, <3>2, <3>3, <3>4
  <2>6. CASE UNCHANGED vars
    BY <2>2, <2>6 DEF vars
  <2> QED BY <1>2, <2>5, <2>6
<1> QED BY <1>1, <1>2, TableInvariance, PTL DEF Spec, ImplementsForwardTable, Table!Spec

\* With the advanced driver vmrest knows one description, and the settings
\* have the machine of every forward they know.
DescInv ==
  fallback = "advanced" =>
    /\ \A f \in vmrest : f.desc = Managed
    /\ \A n \in natMem \cup natDisk : n.desc \in Vms

\* Additions name machines, and only the simple driver rewrites the rest.
LEMMA DescStep ==
  ASSUME TInv, DescInv, Next
  PROVE  DescInv'
<1> SUFFICES ASSUME fallback' = "advanced" PROVE DescInv'
  BY DEF DescInv
<1>1. fallback = "advanced"
  BY DEF Next, Step, Forwarding, Accept, Put, PutFails, Store, Delete, DeleteFails, Unstore,
         Persist, PersistFails, List, ListFails, Finish, AddVmnetAside, SimpleAddVmnet,
         StubbedAddVmnet, Crash, MachineStartsOrStops
<1>2. ASSUME NEW f, f \in req.todo \cup req.cur, Forwarding(f) PROVE DescInv'
  <2>1. /\ \A g \in PutFwd(f) : g.desc = Managed
        /\ \A g \in Without(vmrest, f.port) : g.desc = Managed
    BY <1>1 DEF DescInv, PutFwd, Without, Managing
  <2>2. \A n \in Without(natMem, f.port) : n.desc \in Vms
    BY <1>1 DEF DescInv, Without
  <2>3. CASE Store(f)
    <3>1. f \in Fwd
      BY <2>3 DEF Store, At, TInv, WorkInv, AddingInv
    <3>2. \A n \in NatAdd(natMem, UtilityFwd(f)) : n.desc \in Vms
      BY <1>1, <3>1 DEF DescInv, NatAdd, Without, UtilityFwd, Fwd
    <3> QED BY <1>1, <2>3, <3>2 DEF Store, DescInv
  <2> QED BY <1>1, <1>2, <2>1, <2>2, <2>3
      DEF Forwarding, Put, PutFails, Delete, DeleteFails, Unstore, DescInv
<1>3. ASSUME NEW op \in Operations, Accept(op) PROVE DescInv'
  BY <1>1, <1>3 DEF Accept, DescInv
<1>4. ASSUME NEW vm \in Vms, MachineStartsOrStops(vm) PROVE DescInv'
  BY <1>1, <1>4 DEF MachineStartsOrStops, DescInv
<1>5. CASE Persist \/ PersistFails \/ List \/ ListFails \/ Finish \/ AddVmnetAside \/ Crash
  BY <1>1, <1>5 DEF Persist, PersistFails, List, ListFails, Finish, AddVmnetAside, Crash, DescInv
<1>6. ~SimpleAddVmnet /\ ~StubbedAddVmnet
  BY <1>1 DEF SimpleAddVmnet, StubbedAddVmnet
<1> QED BY <1>2, <1>3, <1>4, <1>5, <1>6 DEF Next, Step

\* Every forward that is listed belongs to a machine or counts as unused,
\* however its addition or deletion was interrupted.
THEOREM ForwardsStayInReach == Spec => []NoForwardEscapesPrune
<1>1. Init => DescInv
  BY DEF Init, DescInv
<1>2. TInv /\ DescInv /\ [Next]_vars => DescInv'
  BY DescStep DEF vars, DescInv
<1>3. DescInv => NoForwardEscapesPrune
  <2> SUFFICES ASSUME DescInv, fallback = "advanced", NEW f \in vmrest
               PROVE  Description(f) \in Vms \cup {Managed}
    BY DEF NoForwardEscapesPrune, Listed, Unused
  <2> QED BY DEF DescInv, Description, DriverFwd
<1> QED BY <1>1, <1>2, <1>3, TableInvariance, PTL DEF Spec
=============================================================================
